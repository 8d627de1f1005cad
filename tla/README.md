# Valhalla mesh VPN: a TLA+ verification project

Valhalla is a mesh VPN: a **control plane** (HTTP API over PostgreSQL, an
embedded STUN server and background schedulers), **relay nodes** (a UDP relay, a
TCP relay and the L3-mesh dispatcher), **exit nodes** (WireGuard, xray and a
heartbeat client) and a common library. This directory models the parts whose
correctness depends on interleaving, order, failure or time, checks them with
TLC and proves their safety with TLAPS.

- `PROJECT.json` maps every definition to the source lines it stands for, and
  lists the runs, the hazards they are for, the seeded faults and the theorems.
- A definition named `Faulty…` (or `Unmapped…`) is a plausible bug. No
  specification uses one; replacing the sound definition by it makes a property
  fail, which shows that the property can fail at all.
- `tlc -config X.cfg M` runs a configuration, `tlapm M.tla` checks the proofs of
  a module.

## 1. Inventory

| Component | State | Operations | Talks to | What is hard | Correct when |
|---|---|---|---|---|---|
| **Mesh dispatcher** `relay-node/mesh` | `sessions` (pubkey → streams, oldest first) under `d.mu`, round-robin cursor, per-session `writeMu`, TCP streams | accept, HELLO (+ token), register/evict, forward, unregister, shutdown | peers over TCP, key from the relay's registrar | a session used after the unlock, frames in two writes, evictions and failed writes racing with unregister, peers that do not read | the table lists exactly the live streams, frames stay whole, nobody blocks for ever |
| **Heartbeat long poll and broker** `control-plane/events`, `handler/node.go`, `service/node_service.go` | `b.subs` (account → one-slot channels), held responses | Subscribe, Publish, unsubscribe; heartbeat: write, build, publish, hold, wake / time out / hang up | settings handler, cleaner, other heartbeats | publish outside the lock, coalesced wake-ups, build-before-subscribe | no slot leaks, no wake-up is lost, a wake-up shows what it announced |
| **Account settings** `handler/settings.go`, `db/account_repo.go` | `account_settings` | get, update field by field | publishes | a later statement fails | an acknowledged change reaches every device |
| **Node registry** `RegisterNode`, `DeregisterNode`, `IPAllocator` | `nodes`, `ip_allocations` | register, re-register, migrate, delete, allocate, release | handlers, sweep | several statements and no transaction, dropped errors, no unique index | allocations are true, addresses and devices are distinct, limits and account binding hold |
| **Node liveness** `scheduler/` | `nodes.status`, `last_seen` | heartbeat, mark offline, sweep | broker, registry, `routes` by foreign key | marks from a stale list, failed reads and updates, restarts, blocked deletes | a silent node is offline in bounded time, the sweep takes only what is offline, expired ones go |
| **Route cache** `service/route_service.go`, `db/route_repo.go` | `routes` | store, serve, expire, recalculate | node table, route search | routes stored from an old read, TTL | no route through a node long dead |
| **Route search** `routing/` | a graph per calculation | BuildGraph, ShortestPath | route service | ties, free edges, a path longer than a route can say | optimal, one relay at most |
| **Relay registry, mesh tokens** `db/metrics_repo.go`, `handler/relay_allowlist.go`, `service/route_service.go`, `relay-node/registration` | `relay_servers`, the allowlist file, the relay's copy of the HMAC key, tokens on their way | register every two minutes, upsert with credentials, list recent, issue token, check hello | dispatcher, devices | overlapping upserts, lost answers, key rotation, restarts of either side | credentials never change, a relay that beats is offered, a fresh token is accepted |
| **Account provisioning** `handler/auth.go`, `handler/devices.go`, `remnawave/` | `accounts`, users in the Remnawave panel | register, roll back, re-link, login, quota, reprovision | external panel | two systems, no transaction, lost answers, retries | an account comes to its own user and keeps it |
| **UDP relay** `relay-node/relay` | session table under an RWMutex, one receive buffer | receive, GetOrCreate, CleanStale, handlePacket | sockets | buffer shared with goroutines, double-checked lock | capacity kept, packets not mixed |
| **TCP relay** `relay-node/transport` | two goroutines per connection | copy both ways, close | sockets | deadlines inside a frame, one side ends, the other lingers | framing kept, both end |
| **Exit node** `exit-node/` | interface, iptables rules, token file, WireGuard peers, the VLESS flag | login, register, set up, heartbeat, apply peers, take down | control plane, OS, systemd | killed between two commands, peers that left, expired token | serves on a sound host, routes to present keys |
| **STUN** `control-plane/stun` | one receive buffer | handle | sockets | same buffer sharing as the UDP relay | the answer matches the request |
| **Migrations** `db/postgres.go` | `schema_migrations` | apply in order, each in a transaction | database | two processes at once | each applied once |
| **Other**: JWT middleware, SSH setup proxy, connection logs, configuration, scripts | little or none | – | – | – | – |

The hazards, each at its line, are in `PROJECT.json`, with the properties that
would catch them; the four without a property say why none is stated. Some more
are seen in the models and left as they are, because the code promises nothing
about them:

- every heartbeat publishes to its own account (`node.go:235`), so that two
  devices that long-poll wake each other again and again;
- two re-registrations of a device with ghost rows can each keep the row the
  other deletes (`node_service.go:93`): the device is then in no row until it
  registers again;
- an address whose node row was deleted by the sweep stays allocated
  (`001_initial.sql:102`), and the pool of addresses drains;
- a node that never sent a heartbeat has no `last_seen`, and stays online;
- a heartbeat between the cleaner's read and its mark is overwritten
  (`stale_node_cleanup.go:62`), and the node looks offline until its next one.

## 2. Modules

| Module | Models | Role |
|---|---|---|
| `MeshDelivery` | – | abstract: datagrams are accepted, then delivered whole and at most once to a stream of their destination, or dropped |
| `MeshDispatcher` | `dispatcher.go`, `protocol.go` | goroutines, locks, streams; implements `MeshDelivery` (`DeliversFrames`) |
| `MeshDispatcherProofs` | – | TLAPS proofs about it |
| `HeartbeatPoll` | `broker.go`, `Heartbeat`, `BuildHeartbeatResponse`, `UpdateSettings`, the cleaner's publish | composes the broker with everybody who uses it |
| `HeartbeatPollProofs` | – | TLAPS proofs about it |
| `NodeRegistry` | `RegisterNode`, `DeregisterNode`, `DeleteStaleBefore`, `IPAllocator` | one SQL statement a step |
| `NodeRegistryProofs` | – | TLAPS proofs about it |
| `NodeLifecycle` | `StaleNodeCleaner`, `OfflineNodeDeleter`, heartbeats, storing and serving routes | time in ticks; composes the schedulers with the tables they share |
| `NodeLifecycleProofs` | – | TLAPS proofs about it |
| `RouteSearch` | `BuildGraph`, `ShortestPath` | an algorithm, against the enumeration of all paths |
| `RouteSearchProofs` | – | TLAPS proofs about it |
| `RelayRegistry` | `RegisterRelay`, `UpsertWithCredentials`, `checkRelayAllowed`, the relay's registrar, `GetBestAvailable`, `issueMeshToken`, `verifyMeshToken` | composes relays, control plane and devices around one row, one key and one token |
| `RelayRegistryProofs` | – | TLAPS proofs about it |
| `AccountProvisioning` | `Register`, `Login`, `Quota`, `Reprovision`, the panel's answers | two systems without a transaction |
| `AccountProvisioningProofs` | – | TLAPS proofs about it |
| `UdpRelay` | `ListenAndServe`, `handlePacket`, `SessionTable` | one buffer, goroutines, two locks |
| `TcpRelay` | `handleConnection` | two goroutines and two sockets |
| `ExitNode` | `main`, token file, registration, `Setup`/`UpdatePeers`/`Teardown`, `Enable`/`Disable` | what outlives a process, and the process that is started on it |
| `MCServices` | – | the five service modules above in one run |
| `ServicesProofs` | – | TLAPS proofs about `UdpRelay`, `TcpRelay`, `ExitNode` and their composition |
| `MC…` | – | symmetry and constants for TLC |

### Mesh dispatcher

One action per step of a stream's goroutine: `Accept`, `HelloAccepted` or
`HelloRejected`, `Register` (one critical section of `d.mu`: evict the oldest,
close it, append), `CheckContext`, `ReadDatagram`/`ReadIgnored`/`ReadError`,
`PickTarget` (read lock) or `PeerOffline`, `LockTarget`, `WriteHeader`,
`WriteBody`, `WriteFails`, `Unregister`, `CloseConn`. `PickTarget` chooses a
session under the lock and every later step uses it without, as the code does.
The remote end is a free choice: it may send anything, read nothing, or go.
Bytes are pieces: a header with sender and datagram, a body, or a torn rest.
`authenticate()` accepts or rejects as it likes.

### Heartbeat

`pc[d]` follows `NodeHandler.Heartbeat`: `idle → settings → peers → publish →
waking → waiting → (refreshSettings → refreshPeers → refreshed | kept) → idle`,
with the timeout, the hang-up and every failing query as actions. `Publish` is
two halves, because the code copies the channels under `b.mu` and sends outside.
Settings and peer list are revision numbers; `acked` remembers the newest
revision answered with 200, `since[d]` the revision when `d` subscribed or took
its last token. Both are history variables.

### Node registry

Each handler takes one SQL statement per step, since there is no transaction, so
the steps of two registrations, a deletion and the sweep interleave; any
statement may fail, and the code's reaction to it (dropped, logged, answered) is
in the action. `alone` is a history variable: the registrations that no other
overlapped and whose lookup did not fail. With it the properties say exactly
which guarantees survive concurrency and which hold only without it.

### Node lifecycle

Ages are counted in ticks. The cleaner's ticker fires at least every `ScanEvery`
ticks. What becomes of the pass is open: it reads who is stale (`Scan`) and then
marks them, node by node, with heartbeats in between (`MarkOffline`), each update
may fail (`MarkFails`), the read may fail and the pass is dropped
(`ScanFails`, `stale_node_cleanup.go:51-55`), or the control plane restarts and
its new ticker waits a whole interval first (`Restart`). `lost[n]`, a history
variable, counts the passes lost in this way for `n` since a pass last found it
fresh or it was last heard of; a longer downtime is several restarts in a row.
The properties are stated with it: `SilentBound(n)` is `StaleAfter` and one
interval, and one more for each lost pass, so that no failure is assumed away.
Passes and route calculations take less than a tick. A row that a route relays through cannot be
deleted (`Pinned`: `relay_node_id` has no `ON DELETE`), and a `DELETE` of several
rows succeeds for all of them or for none.

### Route search

Initial states are all graphs over the nodes; the search is one pop per step
(`Relax`, then `Finish` at the destination or the end of the queue), entries of
equal cost in any order, and the path is traced back one node a step (`Prepend`,
`Return`). An edge costs the sum of its ends instead of
half of it, so that costs are integers. `RelayIsMiddle` does not follow from
`ShortestPath` but from the graphs `BuildGraph` makes: of two nodes that can only
be joined through others, one inner node always reaches both. For the same reason
a distance is never improved once found, and the branch of `optimizer.go:47` for
outdated entries (in `Better`) is never taken on these graphs. The graph argument is a proof (section 5).

### Relay registry

A registrar `Ask`s when its beat is due and waits for the handler that works for
it; a restart or a failure makes it stop waiting while the handler goes on, so
two handlers meet on one row. `UpsertWithCredentials` is four statements:
`FindCredentials` or `GenerateCredentials`, `Refresh` or `Insert`, `ReadBack`.
`Kept` is the `COALESCE` of the conflict clause. Credentials carry the number of
the generation they were made in, column by column. The key goes to the relay
with `Answer`; `Fetch` mints a token, `Dial` presents it, `Rekey` replaces the
device's key pair in between. Time passes in minutes (`Minute`), and only when
nothing is left that takes less than one. Every JWT is made without a node id
(`auth.go:129`, `:168`), so that `GetRelay`, which takes the node from the JWT,
never has a public key to mint a token for, whatever `handler/route.go:49-51`
says: `GetRelay` fetches `NoToken`.

### Account provisioning

`client[c].at` follows one request through its statements: `create → settings →
provision → (lookup) → link` or `rollback`, and `reprovision → relink`. The panel
may take effect and lose its answer (`NoAnswer`). Ids are never used twice. The
model shows, beyond the properties: `Reprovision` answers 502 on a conflict
although `devices.go:116` says it heals orphans; a rollback can delete an account
that another request has logged in to in the meantime; linking an account that is
gone updates no row and answers success; and, as rollback and link use the
request's context, a client that hangs up makes both fail (`DbFault`).

### UDP relay, TCP relay

In `UdpRelay` the buffer is what the last completed receive left there and what
the receive in progress is putting in (`buf`, `incoming`): a read by a goroutine
returns bytes of either, field by field of the header, and any mixture of the
payload. That is the outcome of a data race on bytes, not a choice of the code.
`GetOrCreate` is `Lookup` under the read lock and `Create` under the write lock.
In `TcpRelay` the stream is a sequence of numbered chunks, lengths and bodies in
turn; a read ends at its deadline whenever nothing is there. The read of the
header has no deadline, so `ConnectionsEnd` starts after it. A client that is
silent for a minute ends `up` alone: the connection stays one-way while its
destination keeps sending.

### Exit node

`proc` is the place in `main` and the number of the next command, so that a kill
falls between any two commands of `Setup`, `Enable`, `Disable`. `iface`, `rules`
and `tokenFile` outlive it. `iface.owner` says which key gets the traffic of an
address after the `wg set` commands so far: `UpdatePeers`, which "replaces all
peers" (`wireguard.go:75`), adds peers and removes none (its "flush", line 78, is a
`wg set` that names no peer), and a command
that names an address takes it from the peer that had it. An answer gives each key
an address or none. Keys are unique (`001_initial.sql:25`) and addresses are not
(`:28`; section 2, node registry): if an answer lists two nodes at one address, the
later command takes the traffic of the first, whoever that is, and
`CurrentPeersRouted` promises no more than that it goes to one of them. The log-in
is a prompt (`login.go:17-25`): it may fail any number of times or never be
answered, and there is no fairness for it. `net.ipv4.ip_forward`, which `Enable` sets
and nothing resets, is left out. The model also shows: after an
unclean stop every restart registers a new node row and then dies at `ip link
add`, until the host reboots; a token is never renewed (`main.go:30`), so after a
day heartbeats answer 401 and restarts fail; a node whose row the sweep deleted
never registers again while it runs.

## 3. Runs

| Run | Instance | What it shows |
|---|---|---|
| `mesh_safety` | 3 streams, 2 pubkeys, cap 2, 2 datagrams | table sound, live sessions routable, frames whole, removal closes or ends, `MeshDelivery` implemented |
| `mesh_live` | 2 streams, cap 1 | closed streams leave the table; every forward returns |
| `heartbeat_safety` | 2 devices, 1 writer, 3 channels, 2 settings revisions, 1 peer revision | no slot leaks, no wake-up missed after Subscribe, a wake-up shows what it announced (devices and the writer publish; the cleaner, whose publish follows a change of the peer list, does in `heartbeat_live`) |
| `heartbeat_live` | 1 device, 1 writer, cleaner, 3 settings and 2 peer revisions | every committed change, of settings or of peers, acknowledged or not, announced or not, reaches the device |
| `heartbeat_stale_hold` | 1 device | **violation**, finding 1 |
| `registry_safety` | 2 registrations, 1 deletion, 2 accounts, 1 device, 3 rows, 2 addresses, limit 1 | what the tables guarantee under interleaving and failing statements |
| `registry_ghosts` | 2 registrations of 1 device, limit 1, no failing lookup | **violation**, findings 2 and 3 |
| `lifecycle_safety` | 2 clients, 1 exit node, retention 4 ticks, 1 lost pass in a row | silent nodes offline in time, routes fresh, what the sweep may take is offline |
| `lifecycle_sweep` | the same, shorter times | **violation**, finding 4 |
| `route_search` | 4 nodes, 3 costs | ends, with a cheapest path; one relay |
| `services` | see below | the properties of the five service modules |
| `udp_shared_buffer` | 2 goroutines, 2 datagrams | **violation**, finding 5 |

What `services` shows, by component:

- *Relay registry* (1 relay, 2 handlers, 1 device, 2 keys, 1 restart of each
  side): credentials never change once complete (`StoredStays`), every answer is
  what the row holds, of one generation (`AnswersStored`); a relay that misses no
  more than one beat stays listed (`StaysListed`), one struck off leaves the list
  (`StruckOffUnlisted`); a token just minted is refused only for the reasons
  `FreshTokensAdmitted` names.
- *Account provisioning* (2 clients, 2 emails, 4 ids, 1 database fault, 2 panel
  faults, 1 deletion): an account is shown its own traffic (`QuotaOwn`); without
  database faults an account nobody works on is linked (`QuietMeansLinked`), and
  its link does not move (`StoredStays`); clients that retry end linked
  (`ClientsEndLinked`).
- *UDP relay* (1 source, 2 destinations, 2 goroutines, capacity 1):
  `SessionsSound`.
- *TCP relay* (2 frames up, 2 datagrams down): `FramesInStep`, and both
  goroutines end (`TcpConnectionsEnd`).
- *Exit node* (2 addresses, 2 keys, 2 troubles): nothing is served on what an
  unclean stop left (`HostSound`), traffic goes to present keys
  (`CurrentPeersRouted`), a node that is down and has a saved, valid token serves
  again without anybody's help (`ExitNodeServes`). An expired token is excepted:
  nothing renews it, and the log-in that would replace it is at a prompt.

The five share one run and no variable. `part`, chosen in the initial state and
never changed, names the component that runs; the others keep an initial state.
The states of the run are thus the disjoint union of the five state graphs, each
invariant is checked on all states of its own component (and on an initial state
of it elsewhere), and liveness is required of the behaviours of its component
only: the fairness conditions have `part = …` in their action, and hold trivially
elsewhere. The keys being alike, the control plane starts with the first or none.

**Bounds.** A session table needs three streams for one to be evicted while
another of the same pubkey lives and a third forwards to both. Two datagrams let
two frames meet on one stream. Two devices are each other's publishers; three
channels are one more than the handlers hold, so a channel is freed and taken
again while a publisher still refers to the old one. Two registrations show
every race of a pair; three rows leave room for a ghost next to two fresh ones;
two addresses make the pool run out. `MaxDevices` 1 puts the limit within reach
of one overlap. `StaleAfter` 1, `ScanEvery` 1, `RouteTTL` 2 and `Retention` 4
keep the order of the real values (90 s, 15 s, 60 s, 30 d): stale, plus a scan,
plus a route's life, ends no later than the retention does, and so does stale plus
the two scans of a node that lost a pass. `MaxLost` 1 lets a read, an update or a
restart fail a node once; the proofs leave it open. Four nodes let a path have
two inner nodes, which is what `RelayIsMiddle` excludes. `MaxDatagrams`,
`MaxSettings`, `MaxPeers`, `NumChans`, `NodeIds` are the bounds the code lacks.
In `services`: two handlers are what a relay that restarts leaves on one row; two
keys are needed for a rotation that a relay can miss; `Beat` 2 and `Fresh` 5 are
the code's minutes. Four ids let both clients lose an account and register again,
two panel faults let an answer and the retry after it fail. A table of capacity 1
is full with one session, while two goroutines want two, or the same. Two frames
and two replies show any loss of step. Two troubles are a kill and a clean-up
command that fails, or two kills in a row. `MaxPairs`, `MaxRekeys`,
`MaxRestarts`, `MaxRotations`, `MaxIds`, `Max…Faults`, `MaxDeletes`, `MaxFrames`,
`MaxReplies`, `MaxTroubles` bound what the code does not.

**Symmetry** is used in safety runs only, over streams, pubkeys, devices,
accounts, addresses and handlers, none of which the specifications order.
`NumChans` is a range of numbers and gets none.

**Deadlock** is checked except in `route_search`, which ends, and in `services`
and `udp_shared_buffer`, where a closed relay, an ended connection, or a world
whose bounds are used up has nothing left to do. The dispatcher may stop only in
`Stopped`: cancelled, and every goroutine has returned.

**Fairness.** `MeshDispatcher`: goroutines that can run do; a HELLO and each
write end by their deadline (`HelloRejected`, `WriteFails`), a read ends once its
connection is closed; `sync.Mutex` starves nobody (strong fairness of
`LockTarget`). Nothing is assumed of peers. `HeartbeatPoll`: handlers and
publishers go on, the wait ends by a token or by the timer, devices poll again,
and from some moment on queries succeed and clients wait for their answer — a
device whose every query fails can be shown nothing. `NodeLifecycle`: time
passes, the schedulers run (a read of the cleaner ends, if only with an error), a
sweep that is possible time and again is done.
`RouteSearch`: the loop goes on. `RelayRegistry`: handlers and
registrars go on, calls end within their timeouts, and a minute that could pass
time and again does. `AccountProvisioning`: requests go on, and a client that was
told to try again does; nothing is assumed of the panel beyond the bound on its
faults. `TcpRelay`: goroutines go on and reads end, at the latest at their
deadline; nothing is assumed of client or destination. `ExitNode`: systemd starts
the process again (`node.sh`, `Restart=always`), and commands and calls end;
the log-in, `Signal`, `Heartbeat`, kills and expiry are left free.

## 4. Findings

1. **A stale response is held** (`heartbeat_stale_hold`). `Heartbeat` builds its
   response and only then subscribes. A settings change that commits and
   publishes in between wakes nobody, and the old settings are held for the whole
   wait (up to 30 s), where `settings.go:134-135` promises milliseconds. The next
   heartbeat reads the change (`ChangesReachDevices`).
2. **Two rows for one device** (`registry_ghosts`). Lookup and insert are
   separate statements and the unique index is gone (migration 009), so the
   invariant stated at `node_service.go:51-53` does not survive two overlapping
   registrations. What does hold is `DevicesDistinct`.
3. **More devices than the limit** (the same run). `node_service.go:46-47` says that
   `maxDevicesPerAccount` "caps" the "nodes with device_id" of an account, line 57 "at
   most". Count and insert are separate statements too, so registrations that overlap
   one below the limit all pass, of the same device or of different ones, and nothing
   takes the extra rows back. What does hold is `LimitOvershootBounded`: at most one
   too many for each further registration that overlaps.
4. **An expired relay blocks the sweep** (`lifecycle_sweep`). A route between two
   nodes relayed through a third refers to it with no `ON DELETE` action; routes
   are never deleted, so the single `DELETE` of the sweep fails every time, for
   all expired nodes.
5. **One packet's bytes are sent for another** (`udp_shared_buffer`). The loop
   receives the next datagram into the buffer that the goroutine of the last one
   still reads (`forwarder.go:81`): the payload, or the destination, can be
   another datagram's. `stun.go:53` shares its buffer in the same way.

## 5. Proofs

Every invariant and every action property of a passing run is also proved, for
every value of the constants that the assumptions admit.
The modules do not assume that streams, devices, nodes, relays, clients or
addresses are finitely many, unless said below; the bounds of section 3 are
constants, so the theorems hold for each of their values.

| Module | Theorems | Properties of the runs |
|---|---|---|
| `MeshDispatcherProofs` | `TypeCorrect`, `TableSound`, `LiveRoutable`, `FramesStayWhole`, `RemovalCorrect`, `DeliveryImplemented` | `TypeOK`, `SessionTableSound`, `LiveSessionsRoutable`, `FramesWhole`, `RemovalClosesOrEnds`, `DeliversFrames` |
| `NodeRegistryProofs` | `TypeCorrect`, `AllocationsCorrect`, `AddressesUnique`, `DevicesUnique`, `LimitBounded`, `DeviceStays` | all of `registry_safety` |
| `HeartbeatPollProofs` | `PollTypes`, `SlotsNeverLeak`, `NoWakeMissed`, `WakeIsFresh` | all of `heartbeat_safety`; `TypeOK` is in no run |
| `NodeLifecycleProofs` | `LifecycleTypes`, `SilentNodesGoOffline`, `RoutesStayFresh`, `SweepTakesTheOffline` | all of `lifecycle_safety` |
| `RouteSearchProofs` | `SearchTypes`, `OneRelayIsEnough`, `FoundIsCheapest` | `TypeOK`, `RelayIsMiddle` |
| `RelayRegistryProofs` | `RelayTypes`, `AnswersAreStored`, `CredentialsStay`, `RelaysStayListed`, `FreshTokensAreAdmitted` | `AnswersStored`, `StaysListed`, `FreshTokensAdmitted` |
| `AccountProvisioningProofs` | `AccountTypesHold`, `QuotaIsOwn`, `QuietAccountsAreLinked`, `LinksAreStable` | `QuotaOwn`, `QuietMeansLinked` |
| `ServicesProofs` | `UdpSessionsSound`, `TcpFramesInStep`, `HostStaysSound`, `PeersStayRouted`, `ServicesTypes`, `StoredIsKept` | `SessionsSound`, `FramesInStep`, `HostSound`, `CurrentPeersRouted`, `ServicesTypeOK`, `StoredStays` |

**Mesh dispatcher.** Assumptions: the cap is a positive number, the bound on
datagrams a number, and the null values are no streams or keys. `TypeOK` also
says what a goroutine holds at each point: a pubkey from `register` on, a datagram
inside `forward`, a target once picked. The invariant is built in layers.

- `TableInv` is the two table properties and the types. Neither is inductive
  alone: that a registered stream is new to the list needs that every listed
  stream is past `register`; that `unregister` hides no other stream needs that
  a stream is listed once and under its own key. Lemmas about sequences carry the
  two steps that change the table (`KeptMakesRoom` and `AppendFresh`,
  `WithoutTyped` and `WithoutRemoves`); `TableUntouched` disposes of the others.
- `ForwardInv`: the datagram a goroutine forwards is its own, the target it took
  from the table announced the destination, and who writes holds the target's
  `writeMu`. The target is used after the unlock, when it may have been evicted:
  the invariant speaks of what it announced, which stays, not of the table.
- `WireInv`: what is on a stream was read from somebody who had announced a key,
  and a goroutine between its two writes finds its own header last. With the lock
  (`OneWriter`) this makes `FramesWhole` inductive: `FrameInv` is all of them.

`DeliveryImplemented` maps the steps to `MeshDelivery`: `FrameInv` and its primed
form turn each action into the abstract action with the same effect on accepted
and delivered datagrams, or into a stutter (`DeliveryStep`). Its specification has
no fairness, so initial states and steps are all there is to show.

**Node registry.** Assumptions: `LimitAssumption`, `NullAssumption`, and
`HandlerAssumption`, whose finiteness (of the handlers and of the node ids) only
the device limit needs. `StepRows` (a row that is there after a step was there
before, with the same address, device and, under antifraud, account, or was just
created) and `StepWaits` (every registrar but the one that moves waits) say what
any step does, so that no invariant goes through the actions again. On them rest

- `HeldInv`: a registrar at `assign` holds the address of its row, and one at
  `update` under antifraud the account of its row. `AllocationsTrue` is not
  inductive without the first, `LinkedDeviceStays` does not follow without the
  second; both need that a node id a handler still holds is not used again;
- `AloneInv`: a registrar that nothing overlapped is the only active one, the
  address it was given is free until `Create`, and the device it did not find is
  in no row. This is what a row marked `alone` inherits when it is created;
- `LimitInv`: devices of an account plus registrations of it that passed the
  check and have not created their row stay within `MaxDevices` plus the number
  of registrars less one. The count of rows alone is not inductive.

**Heartbeat.** Assumptions: positive bounds on channels and revisions; devices,
writers and the cleaner are different processes. `PollInv` adds to the types

- `SlotInv`: `subs` is exactly the channels of the handlers between Subscribe and
  return, and no two have the same. Every return path must restore it;
- `WakeInv`: while a handler waits, a PUT that committed after its Subscribe has
  put a token into its channel if it was answered, and has put it there or still
  has the channel in the copy it took under `b.mu` while it publishes. The second
  half is what makes the property inductive: the send happens after the unlock,
  to channels that may have been given up and made again in between;
- `RefreshInv`: a refreshed response reads its settings after the token.

**Node lifecycle.** Assumptions: times are numbers, scan interval and route life
are positive, `StaleAfter < Retention`, `MaxLost` is a number. `LifeInv` adds to the types `SilentInv`
(an online node is within the bound, and if it is not on the cleaner's list, even
within the threshold plus the time since the ticker fired and an interval for each
lost pass), `PlanInv` (the nodes a calculation has read are within the bound,
although they may have been marked since) and `RouteInv` (the nodes of a route are
within the bound plus the age of the route). The bound moves: a lost pass adds an
interval just when the ticker starts a new one, and a node that is found fresh, or
heard of, falls back to the first bound. `RoutesFresh` follows from the last since a
served route is younger than its life. `ExpiredAreOffline` follows from `SilentInv`:
who is online is within its bound, and who expired is past the retention.

**Route search.** Assumptions: the two ends are different nodes, costs are
natural numbers. The graph theorem is `Shortcut`: two edges of `BuildGraph` in a
row can be replaced by one edge next to `Src`, or the node in between can be left
out. From it `TreeInv` is inductive: nodes next to `Src` hang from `Src`, every
other node that was reached hangs from one of those, and a node that others hang
from has been relaxed. The tree is thus never more than two deep, although
nothing in `optimizer.go` says so, and `TraceInv` follows the trace through it.
The strict comparison of `optimizer.go:53` is what keeps it.

`FoundIsCheapest` is the safety half of `FindsCheapest` for any graph:
`RouteCheapest` says that the route is a walk in the graph with the cost it names,
and that no walk, of any length and with any repetitions, costs less; an error
means that every walk costs as much as "no path". A walk comes with its running
costs, so that no sum is needed. The invariant is `CostInv`: what was shortened and
not popped since is in the queue with its present cost, and once the search has
stopped, no node nearer than `Dst` can shorten anything (`FinishCosts`, the early
exit of `optimizer.go:43`). `WalksCostMore` takes the first node of a walk at which
the walk is cheaper than the distances, and finds none.

**Relay registry.** Assumptions: `2 * Beat < Fresh`, and the null values.
`RequestsInv` (types, and a registrar that asks waits for the handler of its own
request) is under all of the following.

- `CredInv`: the columns of a row are of one generation, what a handler is about to
  insert is complete, and what it refreshes or answers with is in the row already,
  whoever wrote it. `AnswersStored` and `CredentialsStable` follow.
- `ListedInv`: the age of a row is at most one beat more than the beats missed, less
  the minutes left to the next one; a row that a handler has written is of this
  minute, so that an answer that counts as a beat finds it young.
- `KeyInv`, `TokenInv`: a relay that missed nothing has the control plane's key,
  unless that changed since its last beat; a token in hand was signed with it, or
  the restart is recent.

**Account provisioning.** Assumptions: at least one id, natural bounds, and the
null email. `AccountInv` adds to the types that emails are unique on both sides
(`EmailsInv`), that a request is for the account with its client's email and is
about to link a user with that email (`ClientInv`; the account may be gone, and
ids are not used twice), that a link leads to the user with the account's email
(`LinkInv`), and that while the database has not failed an account without link
has a registration at work (`WorkInv`). `QuotaOwn` follows from uniqueness and
`LinkInv`; a link stays because both sides are unique, so that a late `Reprovision`
can only write what is there.

**UDP relay, TCP relay, exit node** (`ServicesProofs`). Assumptions: there is a
source and an address, targets are addresses, and bounds are natural numbers. The
goroutines of the UDP relay may be infinitely many.

- `UdpInv`: the sessions in the table are a finite set no larger than the
  capacity (re-checked under the write lock, `session.go:50`), a goroutine that
  forwards has a session used within this period, and a session older than the
  timeout is there only while the cleanup of this period is still due. It holds whatever bytes the shared
  buffer mixes; finding 5 is not about the table.
- `TcpInv`: `UpInv` says how many chunks were taken at each place of the upward
  goroutine (an even number where a length comes next), `OutInv` that what was
  sent lies before it, `DownInv` that what was written is whole while the downward
  goroutine goes on, so that only the last frame can be torn.
- `ExitInv`: `IfaceInv` (the interface is up exactly from the last command of
  `Setup` to the first of `Teardown`, and a process that ended left it only if a
  clean-up command failed or it was killed), `RulesInv` (a rule has one copy more
  than commands failed only while it is held, or while the interface left behind
  blocks the next start) and `PeersInv` (what was applied of an answer went to
  its key, or to one that the answer lists at the same address). `HostSound` is not inductive
  without the count of copies, since the next process adds the rules again.

`SpecOfParts` shows that a behaviour of `MCServices` is a behaviour of each of the
five components, whichever runs; `ServicesTypes` and `StoredIsKept` follow.

**Only model-checked.** The liveness properties (`ClosedStreamsLeave`,
`ForwardReturns`, `ChangesReachDevices`, `StruckOffUnlisted`, `TcpConnectionsEnd`,
`ClientsEndLinked`, `ExitNodeServes`): they rest on fairness, hence on `ENABLED`, which the provers do
not handle. `FindsCheapest`: that the search ends is liveness, and its reference,
an enumeration of paths whose costs are folds, would take an induction over data;
`FoundIsCheapest` proves the same of walks.
The violations of section 4 are counterexamples, found by TLC.

## 6. Not modelled

Bytes, JSON, HTTP and SQL syntax; cryptography (HMAC, JWT, X25519, bcrypt) —
whether a check passes is a choice; floating-point costs; operating-system
commands beyond their success and effect. Single-column updates (rename, order,
shared folder, LAN address) that nothing else reads. Loading of STUN servers:
nothing in the repository registers one, and `relayRepo.GetAll` is called by no
handler. The STUN server answers each request from the request alone; its one
hazard, the shared buffer, is `UdpRelay`'s. Migrations run one after the other at
start-up, each with its record in one transaction: that each is applied once
follows from the database and not from the order of the code. The token refresh
exchanges one token for another and touches no state. The seven days a mesh token
is good for (a device dials within a minute), metrics and byte counters, the SSH
proxy, connection logs and scripts are sequential I/O or read by nothing.
`http.DefaultClient` in the relay's registrar has no timeout; the model assumes
that a call ends (fairness above), which a silent control plane could deny it.

## 7. Plan

1. *Done*: mesh dispatcher with its abstract specification, registry, heartbeat and
   broker, lifecycle, route search, relay registry, account provisioning, UDP relay,
   TCP relay, exit node; proofs of every safety property of the passing runs, and
   that the route found is the cheapest.
2. An abstract specification of the relay registry (a key and credentials that are
   set once) and of the heartbeat (a device sees every announced revision), each
   shown to be implemented, by TLC and by a proof of its steps.
3. The migration runner, if two control planes start at once is taken to be a
   supported case.
