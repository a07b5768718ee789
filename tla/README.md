# tailscale-derp: models, checks and proofs

TLA+ models of the parts of tailscale-derp that keep state and run concurrently,
TLC configurations that check them on small instances, and TLAPS proofs of their
main properties for instances of any size. Source paths are relative to the
repository (`src/`); `PROJECT.json` maps every definition to the lines it models.

To repeat a check: `tlc -config ep_loop.cfg MCEndpointManager`;
to repeat a proof: `tlapm EndpointManagerProofs.tla`. The module and the
configuration of every run are in `PROJECT.json`.

## 1. The system

`tailscale-derp` is one process on a router. It runs a DERP relay with STUN, keeps
the relay reachable from outside (port mapping at the gateway, certificate,
validation), lists it in the DERP map of the owner's tailnets, decides which
clients may use it, and answers a local management API.

| Component | State | Operations | Meets |
|---|---|---|---|
| endpoint manager (`internal/endpoint/manager.go`) | active mapping, current endpoint, network fingerprint, failure count, `withdrawRetry`, next renewal and sync, status; locks `mu`, `opMu` | the loop's `maintain`; `Check`, `Sync`, `Reconcile` for requests; `fail`, `releaseActive`; `SetLocalBindings` | calls the gateway, validator, certificate manager, policy publisher |
| port mapping (`internal/portmap`) | the PCP nonces; the gateway's entries | `Map` over PCP, NAT-PMP and UPnP with fallback, `Release` of a lease | gateway, endpoint manager |
| certificate manager (`internal/cert`) | served certificate, its addresses, `key.pem`, `cert.pem` | `NewManager`, `UpdateEndpointIPs` | TLS listeners, endpoint manager; the certificate's hash is pinned in the DERP map |
| DERP server: registry (`internal/derpserver/derpserver.go`) | `clients`, duplicate sets, flags, gauges, mesh watchers, peer-gone watches, forwarders; lock `Server.mu` | register, unregister, frames of two goroutines per connection, forwarder changes | peer tracker, mesh peers |
| DERP server: data path | send queues, counters, contexts, channels; no lock | `sendPkt`, `sendLoop`, `onSendLoopDone`, `requestPeerGoneWrite` | registry |
| DERP server: admission | none | `verifyClient` in `accept` | tailscaled, verify URL, the ops API's verifier |
| traffic totals (`internal/traffic/traffic.go`) | persisted total, session offset, file | `Load`, `Save`, `Total` | DERP server's counters, shutdown in `main.go` |
| DERP map sync (`internal/ops/derpmap.go`) | policy file per tailnet, per-tailnet lock | `Publish`, `Withdraw` | Tailscale API, policy editor (`tailnet_api.go`) |
| device store (`internal/ops/devices.go`, `device_management.go`) | cached devices per API instance with their age; locks `mu`, `refreshMu` | refresh loop, manual refresh, management requests, `allowed` | Tailscale API, admission |
| peer identities, tracker (`internal/ops/peers.go`, `internal/tracker`) | identity cache, known peers | resolve, prune | DERP server, tailscaled |
| ops API, start-up, configuration, service actions | listeners, contexts | HTTP handlers, `main`, `startDERP` | everything |

Where it is hard:

* **Locks that do not cover the whole operation.** The endpoint manager's `opMu`
  serialises operations, but `maintain` calls `fail`, and the stopping loop
  releases the mapping, without it. The device store changes the API and then the
  cache with nothing in between. `noteClientActivity` reads flags before it takes
  `Server.mu`. `Save` and `Total` read counters before they take `mu`. The send
  queues have no lock at all.
* **Calls to others.** Gateway, validator, certificate, policy API: each may fail,
  halfway through an operation that already changed something, and an answer may
  be lost after the call took effect.
* **Others who write.** Policy files and devices are edited elsewhere.
* **Ends.** Shutdown races the ticker's save; a connection's two goroutines end in
  either order; a key leaves while packets of it are queued; the process dies
  between two file writes, or while the gateway holds its mappings.

What makes the parts correct: no port mapping is left open and no unreachable,
uncertified or unsupported address is published, and the loop recovers by itself
(endpoint manager, port mapping); clients that pin the published certificate find it
after a restart (certificate manager); a connected key is always routable, counters
and mesh views are exact, departures are announced (registry); every packet is counted
once and order is kept (data path); nothing is counted twice or lost (traffic totals);
no edit of what is not the node's is overwritten and success means success (DERP map sync); admission is
never based on knowledge older than promised, and a revocation takes effect in the end
(device store, admission). The hazards behind these, line by line, are in
`PROJECT.json`.

## 2. Modules

| Module | Models | Notes |
|---|---|---|
| `EndpointManager` | `manager.go`, the interface of the validator, port mapper, certificate manager and publisher | a step is one critical section of `mu` or one outside call; `pc`, `op` and `loc` are the goroutine's position, method and locals |
| `PortMap` | `portmap.go`, `pcp.go`, `natpmp.go`, `upnp.go` and the gateway | a step is one request and its answer |
| `CertManager` | `cert/manager.go` | a step is one file operation |
| `Provision` | `reconcile` over the two, with `PortMap` and `CertManager` extended | one goroutine; the process may die and start again at any step |
| `ClientRegistry` | registry, duplicates, watchers, peer-gone watches and forwarders of `derpserver.go` | a step is one critical section of `Server.mu` or one read of atomic flags; a reader and a sender per connection |
| `Recency` | the order of last activity in a duplicate set | operators only |
| `DupHistory`, `DupClientSet` | `dupClientSet`: the abstract order, and the log the code keeps | `DupClientSet` implements `DupHistory`; a step is one method, and one round of the loop that trims the log |
| `SendQueue` | the data path of one client: the readers that send to it, its sender, its end | a step is one channel operation, one look at a context or one frame |
| `TrafficPersister` | `traffic.go` with the persister's part of `main.go` | processes come and go; the file stays |
| `PolicySync` | `derpmap.go`, the policy requests of `tailnet_api.go` | a policy file is the configured region and the text around it |
| `DeviceStore` | the cache and refreshes of `devices.go`, the cached management requests | time in ticks; the ages of entries and requests |
| `Admission` | `verifyClient`, `accept` and `verify`; extends `DeviceStore` | one step is a whole handshake |
| `MC...` | instances for TLC | values of constants and symmetry sets only |
| `...Proofs` | theorems | one per proved module |

The components meet at narrow interfaces, and each module has the other side as its
environment or composes with it: `Publish` and `Withdraw` in `EndpointManager` succeed
or fail, and `PolicySync` shows what a success means (`SuccessIsListed`);
`EndpointManager` has mappings as handles and the certificate as a set of names, and
`Provision` puts the real steps of both under the order of `reconcile`;
`ClientRegistry` uses the order of `Recency`, `DupClientSet` shows that the code's log
implements it, and a theorem that each key of the registry takes the steps of that
specification (`HistoriesKept`); `Admission` asks the very store that `DeviceStore` refreshes.

### State and code

**EndpointManager.** `active`, `endpoint`, `network`, `withdrawRetry`,
`failureCount`, `state` are the fields of `Manager`; `renewDue` and `syncDue` say
that `nextRenew` and `nextSync` have come. A public IPv4 address is named by the
network it belongs to; the DERP and STUN ports are one. `held`, `wan`, `pub` and
`sans` are the world: the mappings at the gateway, the network the WAN is on, what
the policy lists, what the certificate names. `Discover` obtains the mapping and the
candidate; `UpdateEndpointIPs`, `Fingerprint`, `ValidateCandidate`, `Commit`,
`UnmapOld` and `Publish` are the rest of `reconcile`, `PartialCert`,
`PartialCommit`, `UnmapPartial` those of `applyPartialValidation`, and `Fail`,
`Withdraw`, `ReleaseActive`, `UnmapActive` those of `fail`.

**PortMap, CertManager, Provision.** `entries` is the gateway's table. Under PCP and
NAT-PMP an entry belongs to an internal port, under UPnP to an external one, so two
leases with different external addresses can be one entry. The gateway may refuse,
grant another port, or do what it was asked and have the answer lost; a UPnP request
that is repeated after a lost answer meets the entry it made itself. The WAN address is
not a variable: each answer names any of the gateway's addresses. `update` is the step of
`updateLocked`; a write fails before or after its rename, and the files may be readable
or not at a start. Leases and certificates run out between reconciles only (`Ages`),
since they last for minutes and months. `stray` collects entries whose answer was lost,
whose release failed or whose process died. `published` and `crossed` are history: what
the last reconcile put in the DERP map, if it succeeded, no other has begun since, and a
start since then found its certificate; and whether the last commit released a changed old
mapping, which may delete the gateway's new entry.

**ClientRegistry.** `clients`, `active`, `dup`, `last` are the maps of `clientSet`s;
`spoke` is the order in `sendHistory`. `gauges` are the expvar gauges.
`changes` and `told` are a watcher's pending `peerStateChange`s and what it was told.
`queued`, `sawSrc`, `goneWatch`, `goneMsg` follow a packet and the announcement that
its sender left. In the repository nothing assigns `dupPolicy`, so only
`lastWriterIsActive` runs; `disableFighters` is modelled because the code has it.

**DupClientSet.** `sendHistory` is the code's array. `removeClient` filters it in place
(`trim := s.sendHistory[:0]`): `read` is how far its loop has read, `kept` is
`len(trim)`, and `trimming` keeps the other methods out, as `Server.mu` does. `Alone`
stands for `clientSet.dup == nil`. The refinement mapping sends the log to the order of
its last entries, of which, in the middle of the loop, only the part that was kept and
the part yet to be read count (`Live`).

**SendQueue.** `queue` holds the two channels of one client, `sendQueue` and
`discoSendQueue`; `at`, `hand` and `attempt` are where each other reader is in `sendPkt`.
`recv`, `sent` and `dropped` are the counters. `sender` and `reader` are the client's own
`sendLoop` and `run`, `open` its connection, `pong` and `asking` the channels beside the
queues. `rivals` (packets that others queued meanwhile) and `last` (what was written last)
are history.

**TrafficPersister.** Three byte and accept counters are added up alike; one stands
for them. `carried` is history: what all processes carried. A crash may come at any
step (`Exit`).

**PolicySync.** A region is absent or has the configured id or not, a code and name
(`label`), the own node or not, and other nodes or not; `patchDERPMap` is a function on
this. What the own node says (`own`) stands for its addresses, ports, host and
certificate name. `outside` is history: somebody else edited the file since it was read.

**DeviceStore, Admission.** `control` is the truth at the API, `cache` and `age` are
`deviceCache`. A management request is two steps, `Call` (at the API) and `Answered`
(in the cache), or `Call` and `Lost`; a refresh is `Lock`, then per instance `List`
and `Store`, `ListFails` or `Skip`. `sinceAuth` and `suspect` are history, for the
properties. Instead of clock values the model has ages, saturated where the code
stops telling them apart. Requests that only pass through to the API (routes,
posture attributes) change nothing here. A handshake is one step, because the store is
asked last and registration follows at once; what the URLs and tailscaled answer, and
whether they used up the callback's time, is a choice of the environment. `linked` is
the set of keys with a connection that only the store admitted.

## 3. Runs

| Run | Question | Result |
|---|---|---|
| `ep_nat_dual` | NAT, IPv4 and IPv6, the loop and a request: types, one port set, bound families only, no leaked mapping, only validated addresses published | holds |
| `ep_unvalidated` | validation off and a WAN that moves: no leaked mapping, and what a reconcile publishes is certified whatever other operations do to the certificate | holds |
| `ep_loop` | the loop alone: "ready" is backed by a mapping, "withdrawn" means unpublished, and the loop recovers once the world has settled | holds |
| `ep_threshold` | the node is withdrawn only after three failures | **violated** |
| `provision` | reconciles over PCP with UPnP behind it and an automatic certificate, with lost answers, failing writes and crashes: entries accounted for, the active mapping not released by its own renewal, the published pin served, `key.pem` never replaced | holds |
| `dup_history` | the log, trimmed in place, implements the recency order and always knows a successor | holds |
| `reg` | three connections of one key and a mesh peer: routable, expected, flags, gauges, watchers, mesh map, peer-gone watches | holds |
| `reg_gone` | departures are announced to everyone who was sent a packet | **violated** |
| `sendq` | two readers and the sender of one client: packets counted once and kept in order, a tail drop needs rivals, a failed connection is wound up | holds |
| `traffic` | totals over failing, overlapping and interrupted saves; the file catches up | holds |
| `policy` | no lost edit of what is not the call's to change, truthful success, serialised writes; `Publish` and `Withdraw` return with every tailnet dealt with | holds |
| `admission` | handshakes over a store that is refreshed and changed: admission is backed within ttl and timeout, the cache repeats management requests, a withdrawn device is refused in the end and not let in again, a usable one is admitted again | holds |

### Disagreements found

* `ep_threshold`: a withdrawal that failed leaves `withdrawRetry` set; a successful
  reconcile clears the failure count but not the retry, so the next single failure
  withdraws a healthy node (`manager.go:482`).
* `reg_gone`: a packet that is still queued when its source leaves is delivered
  afterwards, and its receiver is never told (`derpserver.go:2310`). `sawSrc` keeps the
  source, so if it comes back, sends and leaves again, that is not announced either.

Without a run, because they are plain from the code:

* The third comparison of `ConsistencyCheck` (`derpserver.go:2555`) is of the number of
  connections with the number of keys, so it complains about a healthy server that has
  a duplicate.
* The comment of `SetVerifyClientFunc` (`derpserver.go:508`) composes the callback with
  the built-in checks by "logical AND"; an unreachable URL with fail-open returns from
  `verifyClient` before the callback. `startDERP` never sets that URL.

### Limits of what holds

Some properties are checked where they hold and not beyond.

Endpoint, mapping and certificate:

* `WithdrawnIsUnpublished` fails in NAT mode with a concurrent request, because
  `maintain` calls `fail` without `opMu` (`manager.go:251`): `ep_loop` has no
  request. The proof shows that this is the only way: it holds as soon as there is no
  request, no NAT or no IPv4 wanted (`Serial`).
* `ReadyIsBacked` fails when the WAN may move between mapping and fingerprint
  (`manager.go:433`): `ep_loop` has one network. The proof has the networks free where
  there is no NAT (`OneWan`).
* `ReconcileCertified` is about reconciles. A reconcile that renews the certificate for
  its candidate and then fails leaves the old endpoint under a certificate that may not
  name it, and `Sync` and `Check` work on that endpoint without another update
  (`manager.go:427`); for the same reason the pin in the DERP map is outdated until the
  next publish. `PinServed` is therefore about reconciles that succeeded.
* A renewal that gets another external address or port releases the old lease
  (`manager.go:505`). PCP and NAT-PMP delete by internal port, so this deletes the new
  entry; the status stays "ready" until the next renewal or validation. `ActiveBacked`
  excepts that reconcile (`crossed`). Likewise a reconcile that fails after a renewal
  releases the entry it shares with the active mapping.
* When a PCP answer is lost, the nonce is gone, and the gateway refuses new PCP requests
  for the port until the entry runs out.
* A failed `chmod` after the rename, or a file that cannot be read at start, makes the
  next start serve another certificate than the one pinned. After a start the manager
  knows no endpoint addresses, although the certificate it loaded may name some.

DERP map synchronisation:

* A publish sets the code and name of the node's region to the configured ones
  (`derpmap.go:204`), also where the region has nodes of others: whatever people, or other
  nodes with another configuration, call it there lasts until the next publish. A test
  expects the overwrite where the node is alone (`derpmap_test.go:18`). `ForeignKept`
  therefore excepts them in a publish; a withdrawal leaves them to those who remain.
* After a withdrawal from a shared region the next publish is refused
  (`derpmap.go:193`).

DERP server:

* Readers that looked a client up earlier may put packets in its queue after the drain
  and before they see its context cancelled. These packets are never sent and not
  counted as dropped either: `PacketsAccounted` counts them as queued.
* In the third attempt of `sendPkt` a head is dropped and then the packet itself, so one
  packet may cost two. A drop from the head is counted for the source of the packet that
  displaced it.

Admission and device store:

* A refresh that listed before a management request and stores after it puts the old
  device back until the next refresh; a record can combine a stale `authorized` with a
  fresh `keyExpiryDisabled`. `AdmissionBacked` bounds how long the first can matter and
  is stated for the authorization only because of the second; `CacheExact` leaves out
  instances where requests and refreshes overlapped. A `SyncInterval` longer than
  `CacheTTL` makes the store refuse everybody between refreshes; nothing relates the two.
* Verify URLs are asked one after the other, each with five seconds of its own and
  without the callback's context; slow ones use up the time of tailscaled, which is
  asked after them.
* Nobody asks again about a client that is connected. `RevocationLands` says that its
  connection, once it ends, is not replaced.

### Bounds

* Endpoint manager: `failureCount` counts to `FailureCap`, one above the threshold;
  larger counts are never told apart. One or two networks and one or two ports: a
  route change needs two networks, a port clash two ports. One request beside the
  loop, since `opMu` keeps requests apart; the proofs are for any number.
* Provision: PCP with UPnP behind it have the two kinds of entry and a fallback; NAT-PMP
  has PCP's entries without a nonce, and the proofs are for any sequence of methods. Two
  ports and the requested one insisted on, so that another port granted is a failure
  after both leases; two addresses, so that a renewal can differ; two entries lost track
  of at a time (`MaxStray`), as many as one mapping has; three nonces (two in use and a
  fresh one), two keys and three serials (published, served and next), of which the
  serials are symmetric.
* Registry: three connections of one key are the least with which a last writer leaves
  and two remain; a fourth connection with another key is mesh peer, watcher and
  partner, and one forwarder sends for a key that roams. Two forwarders of a key are
  covered by the proofs. The runs and proofs have the policy that the server uses.
* `DupClientSet`: four connections, logs of at most `MaxLog` = 7 entries: long enough
  for a row to be removed from the middle and for its neighbours to meet. The proofs are
  for any of both.
* Send queue: queues of two, so that a head can be dropped and one packet remains; one
  reader with a packet of each kind, in either order or two of one, and one with three,
  enough to overtake all three attempts of the other; one `requestPeerGoneWrite`.
* Traffic: `MaxTraffic` = 3 units in all, over any number of restarts.
* Policy: two tailnets, as the loop over them must go on after a failure; one syncer
  and the editor contend for the lock, and edits come from elsewhere; a file without the
  region, one where it is shared, called otherwise than configured and with an outdated
  entry of the node, and one where it is somebody else's (that the node's own id is missing
  is refused on the same path and left to the proofs, as is a second endpoint to publish);
  three attempts, as in the code (`policyUpdateAttempts`). Two syncers at once
  (a request's `Publish` and the `Withdraw` of a `fail` without `opMu`) are covered by
  the proofs, which are for any number of each.
* Admission and device store: ttl and timeout one tick each, so that every boundary
  (fresh, just stale, late) occurs; two instances, of which one has no credentials and
  must not stop the other; the refresh loop, and one management request at a time
  beside it. Overlapping requests and manual refreshes are covered by the proofs.

### Fairness

`Spec` assumes none. `ep_loop`: the loop's timer is reset after every round, a
goroutine that is not blocked goes on, `sync.Mutex` serves a starving waiter (strong
fairness of taking `opMu`), the clock reaches deadlines; `Recovers` is about
behaviours in which failures stop. `traffic`: the ticker fires, and saves that are
tried over and over do not all fail. `policy`: requests have a timeout, mutexes starve
nobody; nothing is assumed of outside edits. `sendq`: a goroutine that is not blocked
goes on, and one of several ready cases of a `select` is taken in the end if it stays
ready; nothing is assumed of the client, of writes, or of a read that nobody
interrupts. `admission`: time passes, requests end, the ticker fires; no API needs to
answer and no client to come or go. Only `Readmits` has as its premise that the API of
the instance answers infinitely many of the requests. `provision` has no liveness.

## 4. Proofs

All for any values of the constants that satisfy the modules' `ASSUME`s.

* `EndpointManagerProofs`: `TypeOK`, `OnePortSet`, `OnlyBoundFamilies`,
  `LeasesAccounted`, `PublishesOnlyValidated`, `ReconcileCertified`, and under
  conditions `WithdrawnIsUnpublished` and `ReadyIsBacked`. The inductive
  invariant `IInv` says that every endpoint in the program, local variables included,
  has only bound families and IPv6 only on the local port, and that a local variable
  holds a mapping only at steps that commit or release it. `Vouched` adds that whoever
  works on an endpoint holds `opMu`, so that nobody else touches the certificate
  between a reconcile's update and its publish; the unlocked `fail` never does.
  The last two are about what the status says, and hypotheses of their theorems are
  that the operations exclude each other (`Serial`: no request beside the loop, or a
  configuration in which the loop never calls `fail` without the lock) and, for the
  second, that a NAT's WAN does not move (`OneWan`). Elsewhere they fail (section 3).
  `Serialised`: with several goroutines, whoever is inside an operation holds `opMu` and
  the loop never probes. `DownInv`: when the failure count has reached its threshold or
  the state is withdrawn, and no withdrawal is to be retried, nothing is published; the
  endpoint is then gone or someone is at the steps that drop it, and nobody is at a
  step that works with an endpoint. `ReadyInv`: a ready endpoint's mapping is held, and
  an active mapping is on the current network. `PhaseInv` says what each step has in
  hand: the mapping of a candidate is held, the state is not ready while the active
  mapping is being released, and a replaced mapping is not the endpoint's. TLC
  checked both on six configurations: the loop alone, and requests in direct mode and
  without IPv4.
* `ProvisionProofs`: `EntriesAccounted`, `ActiveBacked`, `PinServed`, `KeyStable`. For
  the entries: the gateway has one entry for a port, so that a renewal is the entry it
  renews (`Unique`), and what `Map` obtained stays at the gateway until it is released
  (`Held`); a release takes nothing of the active mapping unless `crossed`. For the
  certificate: `cert.pem` is always for the key of `key.pem`, and what is served is
  `cert.pem` but for the update under way (`CertOK`, `PinOK`).
* `ClientRegistryProofs`: `TypeOK`, `AlwaysRoutable`, `NeverUnexpected`,
  `DupFlagsExact`, `WatchersInformed`, `MeshConsistent`, `NoDanglingWatch`,
  `GaugesExact`, and that each key's part of the registry is a `DupHistory`
  (`HistoriesKept`: its first connection makes the initial state, every step until its
  last one leaves is a step of that specification or none). The
  registry's theorems assume the policy the server uses. The conjunct everything rests
  on: at most one member of a duplicate set never spoke, so when the last writer of
  three or more leaves, the history names another. `GaugeInv` has each gauge count a
  finite set that a step changes by one or two elements (a pair becomes duplicates or
  stops), so that nothing need be assumed of `Conns` and `Keys`.
* `DupClientSetProofs`: `SuccessorKnown`, and the refinement `ImplementsOrder`. The
  order of the last entries is chosen, so the argument needs that it is unique: two
  orders of the same entries have no first place where they differ (`OrderUnique`, from
  the well-foundedness of the naturals), and that it has as many places as there are
  speakers. Then each step exhibits the new order: `WithoutOrder` for a connection that
  leaves, `SpokenOrder` for one that speaks or joins, `TrimOrder` for a round of the
  loop, which moves an entry to the front past entries that no longer count, or drops
  one that repeats the last one kept, and so changes nothing. `LogInv` also says that
  two members always have an entry between them that counts (`Heard`), from which at the
  end of the loop there is an entry to be `last`.
* `SendQueueProofs`: `TypeOK`, `PacketsAccounted`, `TailDropNeedsRivals`,
  `SentInOrder`. `Raced`: a queue that was full when a reader looked at it has room after
  the drop of its head unless somebody queued a packet since. `Ordered`: the numbers of
  one reader's packets increase along the queue, above the last one written and below the
  one in its hand. `Balanced` is the sum of the counters, which each step keeps.
* `TrafficPersisterProofs`: `NothingInvented`, `BackwardsOnlyAtEnd`, `TotalsMonotone`,
  with the module's `TypeOK` and `NothingForgotten`. While the server runs,
  `persisted - offset` is what was loaded, whatever snapshot a save came with.
* `PolicySyncProofs`: `OwnWritesSerialised`, `ForeignKept`, `SuccessIsListed`. Who is
  about to write holds the lock, and a draft is the patch of what was read; the
  conditional write then amounts to patching in one step. What a patch leaves alone is
  `PatchForeign`: all but the own node and, in a publish, the code and name of the region.
* `DeviceStoreProofs`: `TypeOK`, `AdmissionBacked`, `CacheExact`. Each place where a
  device is held as authorized is bounded by its own age: the entry, an answered list,
  a request on its way. `Admission` implements the store, since a handshake only reads
  it, and has both properties, too (`AdmissionServed`, `CacheServed`). From the first
  follows what it is for (`AdmittedCorrect`): the step that registers a client which
  only the store vouches for has an authorization of at most a ttl and one timeout ago
  behind it, whatever the built-in checks and the other sources answered.

Every invariant and every action property of a passing run is proved. Only
model-checked is what is temporal (`Recovers`, `WindsUp`, `CatchesUp`, `CallsReturn`, `RevocationLands`,
`Readmits`): the prover does not do liveness under fairness.

## 5. Not modelled

* Receive rate limits (`rateLimitWait`): they delay a reader and change nothing else.
* Which of several forwarders is used: `multiForwarder` compares `uint8` connection
  numbers that wrap; the models have the set of forwarders. Nothing in the repository
  adds a second one.
* The HTTP upgrade, the WebSocket adapter and the handshake's frames: one sequential
  exchange before a connection is registered.
* The encoding of certificates, and the bytes of PCP, NAT-PMP and UPnP messages: what
  they say is modelled, not how. `network.go` reads routes and addresses; what it may
  answer is the environment.
* The identity cache of `peers.go` and the merged device list: best effort, for display.
* The start order of `main`, beyond the traffic persister and the certificate. The ops
  server is started before the DERP server exists; `startOps` hands the metrics function
  over by value (`main.go:1141`), so if it is still nil then, `/clients` answers 503
  until a restart (`ops.go:278`). In production nothing cancels the context that the
  loops wait for; `LoopStop` exists for the tests and embedders.
* Loss of power: `Save` and the certificate's writes do not sync, so a rename might
  survive without the content. A device that changes its node key counts as another
  device.
* Configuration parsing, service actions, formatting of answers: sequential code
  without shared state. `ListenUnix` (`unix.go`) looks before it removes, which
  matters only to two processes started at once.

## 6. Plan

1. The start order of `main` and `startDERP` against the ops server; `multiForwarder`
   with its wrapping numbers.
2. `ClientRegistry` and `SendQueue` composed: whose queue a packet that was looked up
   before a change of the active connection ends in.
3. Theorems: the `DupHistory` of a key under `disableFighters`, for which the registry
   has no proof; the certificate's addresses between `EndpointManager` and `Provision`.
