# OPN-Box in TLA+

OPN-Box routes DNS-resolved addresses through a proxy on OPNsense. Its own core is
the path from a DNS answer to a kernel PF table entry with a lifetime: a MosDNS
plugin extracts the addresses of an answer and asks the daemon `pf-aliasd` to put
them in a PF table before the answer leaves; the daemon installs them through
`/dev/pf` and removes them when their TTL is over. Around that core are three web
controllers (xray, mosdns, hev), an HTTP/HTTPS front they share, service scripts
and the OPNsense GUI glue.

This directory models that core, checks it with TLC and proves what matters most
about it with TLAPS.

## 1. The system

| Component | State | Operations | What makes it correct |
|---|---|---|---|
| TTL tracker, `pkg/ttlcleaner` | map table -> IP -> entry, a min-heap of the same entries with back pointers, four counters, one mutex | `AddOrRenew`, `PopExpired`, `Delete`, `Flush` | heap and maps agree; a renewal never shortens a life; oldest first; nothing counted twice |
| Daemon, `cmd/pf-aliasd` | the tracker, the PF tables, one goroutine per connection, one collector | ADD, DEL, FLUSH, GC tick, exit | what is in the kernel has an owner that will remove it; what is tracked is in the kernel; expired addresses go; every request is answered |
| Plugin, `pkg/plugin`, `pkg/plugin_mosdns_x` | local cache of expiry times, pool of connections, sequence counter | `Exec`, `sendToAddDaemon`, `getConn`, `putConn`, `Close` | the cache never outlives the tracker; no query reads another's ACK; a DNS answer is never held up for ever |
| Protocol, `pkg/protocol` | none | encode, decode | what one side encodes the other can receive and decode |
| C daemon, `cmd/c-daemon` | PF device, a list of lifetimes | ADD, sweep, one request per connection | answers as the Go daemon does, as far as the plugin can tell |
| HTTP front, `pkg/httpserver` | listener, certificate and its modification times | accept and classify, reload certificate | one bad connection stops no other; a pair of files is served only if it belongs together |
| xray-controller | nodes, subscriptions, active node, rules; config file; service | CRUD, import, subscription update, ping, apply | no lost update between handlers; references name nodes that exist; file, state and process agree after an apply |
| mosdns-controller | settings, rule files, config file, service, one mutex | post settings, generate, edit rules, service actions, simulate a query | MosDNS runs with what is on disk; settings and configuration are a pair; a configuration never names a missing file; the simulator agrees with the generated pipeline |
| hev-controller, `scripts/`, `rc.d/` | pid files, processes | start, stop, restart, status | at most one instance; stop then start ends running |
| `update_rules.sh` | the managed rule files | download, placeholders, restart | MosDNS runs with the rules it has downloaded |
| GUI glue, packaging, sing-box patches | files | forms | no logic modelled |

`src/` holds the plugin twice, for MosDNS v5 (`pkg/plugin`) and for mosdns-x
(`pkg/plugin_mosdns_x`), with the same logic line for line.

The parts interact like this. A query goroutine of MosDNS calls `Exec`, which
reads the cache under a read lock, takes a connection from the pool or dials one,
writes one SEQPACKET message and reads the ACK under a deadline. On the other end
the connection's handler goroutine calls the tracker once per address (one lock
each), then one ioctl (another lock), then writes the ACK. The collector wakes every
two seconds by default (`gcInterval`), pops a batch under the tracker's lock and deletes it table by table after
releasing the lock. The tracker and the kernel are the shared state; no lock covers
both.

What is hard: handlers and collector interleave between the tracker and the kernel;
an ioctl may fail after the tracker has changed; the daemon may restart over a kernel
table that survives it; ACKs arrive after the deadline; two clocks' worth of expiry
times (plugin and tracker) have to stay in order. Between plugin and daemon, buffers
fill up, packets are cut and processes end with requests in their queues. In the
controllers files are rewritten in place while processes start from them, requests
overlap with scripts, and one bad client shares an accept loop with the others.
`PROJECT.json` lists each hazard at its line.

## 2. The modules

```
TTLTracker        what the tracker promises   <--implements--  TrackerHeap
   |  EXTENDS                                                  TrackerHeapProofs
AliasDaemon       handlers, collector, kernel, faults, restart
   |  EXTENDS
AliasPipeline     plugin + daemon                         AliasPipelineProofs (of both)
AliasChannel      sockets, sync and async, both daemons, crashes    AliasChannelProofs
ConnPool          the plugin's pool and Close             ConnPoolProofs
XrayController    store, apply, service                   XrayControllerProofs
MosdnsController  files, rule update, MosDNS, simulator   MosdnsControllerProofs
DualListener      accept loop  --+ EXTENDS
CertManager       certificates --+--> HttpFront           HttpFrontProofs
ServiceControl    scripts, pid files, hev-controller      ServiceControlProofs
MCAliasDaemon, MCAliasPipeline, MCTrackerHeap, MCMosdnsController    instances for TLC
```

A definition that differs from the one next to it by a plausible slip (`PingNoLock`
beside `PingLock`) is there to be put in its place: each property of a passing run has
one that breaks it (`mutants` in `PROJECT.json`).

**TTLTracker** is the abstract tracker. An entry is a (table, IP) pair; `left[a]` is
the time an entry has left, cut at 0, or `Untracked`. Every method runs under one
mutex, so every method is one action.

**TrackerHeap** is `tracker.go` as written: maps, heap array, back pointers, counters,
absolute time, with the `up`/`down`/`Fix`/`Remove` of `container/heap` (external,
positions counted from 1). A step is one iteration of a loop, under the mutex (`op`, `pc`):
a swap of a sift (`Down`, `Up`), an entry of `PopExpired` or `Flush` (`Pop`, `HeapRemove`,
`Cut`). So the algorithm needs no recursion, and the clock may pass in the middle
of a method. `ImplementsTracker` is the refinement to `TTLTracker`, where a method is one step.

**AliasDaemon** extends `TTLTracker` with `pf` (the kernel), per connection the
program counter of `dispatchMessage` and its locals (`cmd`, `ttl`, `asked` = msg.IPs,
`todo` = the part of the loop ahead, `batch` = newIPs, `status`), and `gcBatch` (the
popped addresses not yet deleted). One action per lock-protected call:
`Register`/`Install`/`Reply` for ADD, `Forget`/`Remove`/`Reply` for DEL,
`Forfeit`/`Remove`/`Reply` for FLUSH, `CollectPop` and `CollectDelete(t)` for the
collector. msg.IPs is a set walked in any order: the order of the loop is the
sender's choice. An ioctl adds or deletes all its addresses or, on an error, none.

**AliasPipeline** composes it with the plugin. A query is `idle`, about to `send`,
waiting (`wait`) or has its ACK (`acked`); `life[q]` is `now + ttlDuration` seen from
the present, where `now` is read at the start of `Exec`. `cache[a]` is what is left of
the local cache's entry. `Receive` (write, read, decode) is one step: until its first
tracker call a handler touches nothing shared. A connection closed by a timeout leaves
its handler working; the name is used again only after that handler is back in
`conn.Read`, which is when the real one would notice and exit. A query whose addresses
are all fresh changes nothing and is not a step.

**AliasChannel** looks at the same two sides from the sockets. Lifetimes are left out
(nothing expires, neither in the cache nor in the table), and what the other modules
leave out is in: a buffer of `BufCap` packets each way, the `sync` option, packets
that the receiver cuts (`AddSize`, `Cut`, with the limits of the encoder), a daemon
that closes its listener, its device and then ends (`Shutdown`, `CloseDevice`,
`Exit`), or crashes, and comes back with an empty tracker over the same table. `engine`
chooses the daemon. The Go daemon has a handler per connection; `Install` fails
after `CloseDevice`; `SendAck` waits for room. The C daemon takes a connection, reads once
(`CTooEarly` when nothing is there yet, because the accepted socket does not block on
FreeBSD), adds, writes an ACK that says OK and closes; a write to a closed connection
ends it (SIGPIPE). `lost` is history: what the plugin may count on
although its request came to nothing, and why is in the action that adds to it.
A module of its own, not an extension of `AliasPipeline`, since the product of
lifetimes and queues is out of TLC's reach and the two have only the names in common.

**ConnPool** takes `getConn`, `putConn` and `Close` of the plugin apart, at the steps
where another goroutine may come between: the check of `closed`, the `select` on the
channel, the send that races the `close`. `AliasPipeline` has the same pool with its
users but no `Close`; `ConnPool` has `Close` with users that may do anything with the
connection they hold. A goroutine that panics stays `panicked`: Go would end the
process.

**XrayController** has the store on disk (`file`, possibly `Torn`), the three generated
files, what Xray runs (`running`: the configuration it read when it started, or
`Stopped`), and per handler its program counter and its locals: `data`,
what `loadData` returned and the handler edited; `todo`, the files an apply has not
written. The mutex `mu` is held from a handler's load to its save, except in
`handlePingNodes`, which gives it up while it dials, and `handleService`, which never
takes it. Node links, ports and rule bodies are data: a node is its tag and its
subscription, a rule set is the outbound tags it names. What a subscription returns is
any set of nodes, the empty one of an error page included. A start of Xray (`Launch`,
external) may fail with files that pass `xray run -test`, which opens no listener: a port that
is taken, an address that is not local.

**MosdnsController** has what the controller, `rc.d/mosdns` and `update_rules.sh` share:
`settings` and `config` on disk (possibly `Torn`), the rule files (`there`, `lines`) and
`proc`, the running MosDNS, which is the route of every domain under the configuration
and the rules it read when it started. `Generated` is `generateMosdnsConfig` as data: the
files of each domain set and the sequence of rules, with the files that are absent left
out; `Answer` runs a sequence, rule by rule, as MosDNS does (external), and `Route` names what comes
out: block, direct, proxy, or astray for an answer that no branch meant.
`TestDomain` is `handleTestDomain`, on the settings as `loadSettings` reads them
(`Loaded`). Handlers are goroutines of the controller, scripts are other processes; a
script's stop of MosDNS kills the controller as well, whose command line its `pkill -f`
matches, and a command the controller had started goes on without it (`Orphan`).
`owed` is history: a restart or a configuration that a failure, a kill or a request
without restart has left undone.

**DualListener** is `dualListener.Accept` under the loop of `net/http` (external): one
goroutine takes a connection, waits up to three seconds for its first byte and hands
it over; nobody else is accepted meanwhile. `waits` and `ahead` are history.
**CertManager** is `getCertificate` and `reload`, a step for each access to the files,
to `cached` and to `lastMod`. A certificate and its key have a name in common if they
belong together; `Torn` and `Gone` are a half-written and a missing file. `lastMod` is
compared without the lock while a reload stores it: the outcome of that race is
any (`Newer`). **HttpFront** puts the two together: a connection handed over as TLS
starts a handshake, and an exit of the process ends all of them.

**ServiceControl** is one service (hev-socks5-tunnel) under everything that starts and
stops it: a command is the sequence of the steps its script takes (`RcStop`,
`ControlStart`, ...), each of which reads or changes once what is shared: the
processes, the pid file with the lock of `daemon(8)` (external), the configuration file and
the mutex of hev-controller. `StopWeb` is `opnbox-control` stopping the controller under
its requests; a script one of them has started goes on without it (`Left`). A POST whose write fails
(`SaveFails`) ends with 500 and no restart, the file as it was, cut or complete. `alone`,
`tame` and `last` are history. The other six services have the same scripts with other names.

## 3. The runs

| Run | Instance | Shows |
|---|---|---|
| `daemon_faults` | 2 connections, 2 addresses of one table, TTLs 0 and 2, batch 1, all commands, failing ioctls, restart, stalls | `NoSilentLeak`, `NoSilentLoss`: every way an address can leak or go missing is one of the named ones |
| `daemon_expiry` | 2 connections, 2 tables, ADD only, no faults | `NoOrphan`, `SingleInstaller`, `EventuallyEvicted`, `EveryRequestAcked` |
| `pipeline` | 2 queries, 2 connections, 1 address, TTLs clamped to 1..3, pool of 1, failing ADD, stalls | `CacheBacked`, `PooledConnsIdle` |
| `channel` | 1 query, 2 connections, 3 addresses, both modes, both daemons, buffers of 1 packet, pool of 1 | `ClaimsAccounted`, `NoStrayAck`, `ChannelReturns`, `QueueServed`, `HandlersEnd`, `ChannelTypeOK` |
| `tracker_heap` | 6 addresses in 2 tables, TTLs 0 and 1, 7 AddOrRenew calls, batch 2, clock to 1 | `HeapConsistent`, `MetricsConserved`, `OldestFirst`, `ImplementsTracker` |
| `conn_pool` | 3 goroutines, 4 connections, pool of 1, `Close` at any moment | `OneOwner`, `ClosedReleasesAll` |
| `xray_store` | 2 handlers, 1 tag, 1 subscription, at most 1 node, failing writes and restarts, crashes | `NoStaleEdit`, `DanglesOnlyBy`, `AppliedAsStored`, `ApplyRunsStored`, `RequestsEnd` |
| `mosdns` | 2 handlers, 1 script, 1 domain, 2 settings, 3 drafts, failing writes, kills | `RunsLatest`, `ConfigFollowsSettings`, `WholeConfigLoads`, `SimulatorExplained`, `MutexReturned` |
| `http_front` | 2 clients, 2 certificates, 2 modification times, one file or two | `NoMissedCert`, `NewPairServed`, `WaitBounded`, `HeardOrDown`, `HandshakesEnd`, `FrontTypeOK` |
| `services` | 2 callers, 2 process numbers, 8 commands, failing writes, crashes | `OneInstance`, `Started`, `StopLeavesNothing`, `ServiceTypeOK` |
| `gc_race` | 1 connection, 1 address | violated: the collector deletes an address that was requested and installed again |
| `front_down` | 2 clients, 1 certificate | violated: a client that hangs up before its first byte ends the accepting of all others |

The type invariants of the daemon, the pipeline, the pool and the controllers for xray and
mosdns are proved (section 5) and not among the runs' invariants; that of the heap
is part of `HeapConsistent`.

**Bounds.** Only `MaxTime` and `MaxCalls` of `TrackerHeap` cut behaviours short; the
other modules use relative time and are finite as they are. Two handlers and the
collector are the interesting actors: each race of the daemon is between two of them
over one address. Two addresses are enough for a batch that takes one and leaves
one, and for a message that is half new and half renewal; two tables (one
address each) for the loop over `expiredMap`. Six entries give `TrackerHeap` (691,515 states) a
heap of three levels, in which the entry that takes the place of a removed one may have to go
`up`, since it comes from another branch; seven calls fill it and renew one entry. TTL 0 makes an entry expire before its ADD installs it, which only a
stalled handler or a zero TTL can reach; the plugin clamps to `MinTTL` >= 1, so the
pipeline does not see it. The cache threshold of a fifth of the TTL is kept as
`5 * cache[a] >= t`.

`xray_store` has one tag because its state space is that of two handlers times a store
each, a file, three generated files and what Xray runs: 517,150 states. The case it lacks, another node to make
active when the active one is deleted, is in the invariants of the proofs and was
checked once with 2 tags, 2 nodes and no liveness (10.7 million states). `MaxNodes`
bounds the store and is a guard of `Edit`; `Picks` are the tags a client may name as
active, rules included.

`mosdns` has 2,938,759 states and takes two minutes with two workers; handlers are
symmetric and no property is temporal. Two handlers are two requests that overlap, the
script adds an actor that can kill both. One domain is enough, since a route is a
function of the domain alone; the two settings differ in mode and default
route, and the drafts put the domain into one file of each set. A third post, with the default route `direct`, was
checked once (6.7 million states, no error). `Samples`, the lines of the files
`initDirectories` creates, list the domain as direct.

`channel` (219,782 states) has one query at a time, which is enough for a late ACK, a
full buffer and a stuck handler, because a query that is over leaves its
connection, and in async mode its request, behind; two connections let a new one be
dialled while the old one is stuck. With two queries at a time the safety properties
hold too (2,119,162 states, checked once; liveness over that graph is too long a run), and
they are proved for any number. The three requests are one that fits, one that is
cut and one that cannot be encoded; `GoBuffer` = `CBuffer` = 40 stands for 4096 and 2048
with addresses scaled down to match, and `SmallRequestsWhole` does the arithmetic with the
real numbers. `BufCap` = 1 packet makes every buffer fill up; the kernel's is larger, which
delays a case and removes none.

`http_front` has 252,704 states, `services` 2,868,400. Two clients are a silent one and one that
is behind it, or a handshake that reloads and one that reads meanwhile; two
certificates and two times are a replacement dated later, the same or earlier. Two
callers are two commands that overlap; two process numbers let a number be used again.

**Time.** A tick is an action like any other, so a handler may be overtaken by any
amount of time. `Stalls = FALSE` adds the one timing assumption of the project: an
ADD reaches its ioctl before an entry it created is due. The code justifies it by
orders of magnitude (microseconds against a `MinTTL` of 60 s) but nothing enforces it,
so the runs that do not need it set `Stalls = TRUE`.

**Fairness.** Handlers that have a request are weakly fair: the Go scheduler runs them
and nothing they wait for depends on another one. `CollectDelete` is weakly fair for
the same reason. `CollectPop` is strongly fair per expired entry: the ticker fires for
ever, and `PopExpired` takes the oldest first (`OldestFirst`, proved of the heap), so
an entry is not passed over for ever. `Tick` is strongly fair: time does not stop,
the guard only orders it after a handler that is about to finish. Clients owe nothing.
In `AliasChannel` the goroutines of MosDNS run and their deadlines fire (weak fairness of
`QueryStep`, all that `ChannelReturns` uses), handlers of the Go daemon run,
and the C daemon, which takes its backlog in order, comes back to each connection (strong
fairness of `CStep`: between two visits it is busy with others). Nobody launches a daemon
again or stops it for certain. In `HttpFront` the accept loop is weakly fair as a whole,
and each handshake strongly, because `mu` comes and goes: a Go RWMutex lets a
waiting writer keep out new readers and a finished writer let in the waiting readers, so none starves.
Clients, files and operators owe nothing. `ServiceControl` states no fairness: its commands
are finite sequences and only the mutex can hold one up; its properties are safety. In `ConnPool` every
goroutine that is in one of the three functions is weakly fair. In `XrayController` a handler past its load
is weakly fair (disk, dial timeouts and `xray -test` come back) and the second `Lock`
of a ping is strongly fair, because Go's mutex hands over to a waiter that starves.

**Deadlock** is checked everywhere except in `tracker_heap`, where the bounds on time
and calls stop the system, and in `conn_pool`, which stops after `Close`.

## 4. What the code does against what the documents say

* `gc_race`. `README.md:22-24` promises eviction of expired addresses with renewal. An
  address popped by the collector, requested and installed again before the collector's
  `DelAddresses`, is deleted while its new entry is alive, and further ADDs are only
  renewals.
* `front_down`. `dev.md:133` says that the first byte decides between TLS and plain HTTP.
  `Accept` returns the error of the peek as its own: a deadline is a temporary error, after which
  `net/http` accepts again, but the `io.EOF` of a client that closes before its first byte ends
  `Serve`, and `log.Fatalf` the controller with all its other connections. `rc.d` does not
  supervise the controllers.

`NoSilentLoss` and `NoSilentLeak` say that there is no other way an address is lost or
leaked: they are checked with every fault switched on, and proved. `ClaimsAccounted` does
the same for what the plugin counts on, `DanglesOnlyBy` for the active node,
`SimulatorExplained` for the simulator.

Without a run of their own, each a case a property names as an exception or a step
of the models:

* The comment at `pkg/plugin/pf_alias.go:176` says a skipped query's
  addresses are active in the table. After a failed ioctl the entry stays in the
  tracker, the next ADD is a renewal with an OK ACK, and the plugin caches it (`Register`).
  `docs/01-design-philosophy.md:48` lets the answer go only after `DIOCRADDADDRS`.
* The comment at `pkg/plugin/pf_alias.go:182` says that a failure to
  reach the daemon does not fail the query. `getConn` reads `closed` and then receives
  from `connPool`; if `Close` comes between, the receive gives a nil connection and
  `SetDeadline` on it panics (`NilFromClosed`, `UseNil`). `putConn` has the same window before its
  send (`SendOnClosed`). `ClosedReleasesAll` makes an exception of such a query.
* The comment at `cmd/xray-controller/main.go:1147` reserves the direct
  fallback of `proxy-default` for "no node selected". Renewing a subscription gives its
  nodes new tags and leaves the active tag behind; the next apply reports success and
  sends the default traffic out directly (`DanglesOnlyBy` names the renewal).
* An apply answers that the test passed and Xray was restarted smoothly
  (`cmd/xray-controller/main.go:1338-1340`) whatever the two restarts did. With an inbound that cannot be
  bound the test passes, the old Xray is stopped and no new one comes up (`Launch`); only the field
  `running` of the same answer says so. `ApplyRunsStored` is what is left: Xray then runs the
  stored configuration or nothing, never an older one or files of two generations.
* The page of the simulator (`cmd/mosdns-controller/main.go:1554`) says it
  follows the mode in effect. `saveSettingsLocked` writes the JSON names of the fields,
  `loadSettings` decodes them with yaml.v3, which looks for other names: only `mode` and
  `concurrent` come back. After a post of custom/direct MosDNS sends an unmatched domain
  directly and the simulator says proxy (`ReadBack` in `SimulatorExplained`). `dev.md:67-69` tells
  of the same slip, since repaired, in the arguments of the plugin.
* In async mode nobody reads the ACKs. When the plugin's buffer is full the handler waits in its
  write for good, as long as the connection stays in the pool, and the requests behind it are never
  read while the plugin counts on them (`Stuck` in `QueueServed`). The comment at
  `pkg/plugin/pf_alias.go:35` calls sync the default, but the zero value of the YAML field is async.
* A largest ADD of the encoder, 256 addresses, may have 17 bytes each and does not fit the daemon's
  4096: it is cut, does not decode and gets no ACK (`ReadPacket`); in sync mode the query times out.
* The C daemon says OK whatever happened: a cut packet, a failed ioctl, a DEL or a
  FLUSH, which it does not do. It closes a connection after its one ACK, so a plugin that puts
  it back into its pool fails its next query with it; and it dies of SIGPIPE when
  an ACK comes after the plugin's timeout (`CAck`).
* `dev.md:134` says the certificate is reloaded when its modification time changes. The code asks
  for a later time than the last one: a file that is older than the one it replaces is
  not loaded (`hidden`). `lastMod` is compared without the lock, a data race (`Storing`). A handshake
  that has read `cached` when another one's reload stores a new pair finds nothing newer and serves
  the old one (`excused` in `StoreCached`).
* When commands of `opnbox-control`, of `rc.d` or of the GUI overlap, two instances of a service
  can run: `prestart` reads a pid, the instance dies and another start writes its own, the `rm`
  then removes that one, and the next start sees no pid file; the last `rm -f` of `do_stop`
  does the same. `OneInstance` holds as long as only POSTs of a configuration overlap (`tame`), and an undisturbed stop
  repairs what is left (`StopLeavesNothing`).
* `opnbox-control` stops hev-controller before the service, in the middle of a save too:
  half a configuration stays, and the service does not start until the next save (`Started`).
  So does a write that fails halfway, which the controller answers with 500 (`SaveFails`).
* A pid file may name a process number that a stranger has by now: `kill -TERM` then hits it. The
  models have no strangers.
* A second ADD of an address is acknowledged OK while the first is still before its
  ioctl, because the tracker counts it as known (`Register`): `docs/01-design-philosophy.md:47-48`
  promises otherwise. `NoSilentLoss` names the case.
* An update by a script leaves the controller dead: `rc.d/mosdns:68` kills everything
  that matches `/usr/local/bin/mosdns`, which `/usr/local/bin/mosdns-controller` does, and
  `rc.d/mosdns_controller` has no supervisor (`ScriptStop`). `docs/05-rules-and-maintenance.md:42`
  speaks of a smooth restart of `mosdns` and `xray`. A restart by the controller itself
  spares it, as pkill passes over its own ancestors.
* The installed configuration blocks nothing, while the simulator follows
  `block_enabled`; a `keyword:` line matches in MosDNS and not in the simulator; a
  configuration generated before `cn.txt` or `gfw.txt` exists leaves it out until the next post.
  These are causes `SimulatorExplained` names.
* `docs/03-dataplane-tun-xray.md:197-199` describes a test in
  `/tmp` before the files are replaced, while `handleApplyConfig` writes them in place
  first and tests them there, so a failed test leaves the bad files to the next start of
  the service (`PartFails`, `PreflightFails`, `ServiceStart`).

## 5. What is proved

For every set of addresses, tables, connections and queries, every TTL, batch size,
clamp and pool capacity:

| Theorem | States | Assumes |
|---|---|---|
| `DaemonTypeCorrect` | `DaemonTypeOK` | - |
| `LeaksAccounted` | `NoSilentLeak` | - |
| `LossesAccounted` | `NoSilentLoss` | - |
| `OrphanFree` | `NoOrphan` | `Undisturbed` |
| `InstallersDisjoint` | `SingleInstaller` | `Undisturbed` |
| `ChannelTypeCorrect` | `ChannelTypeOK` | - |
| `ClaimsAlwaysAccounted` | `ClaimsAccounted` | - |
| `NoAckStrays` | `NoStrayAck` | - |
| `SmallRequestsWhole` | no request of up to 238 (Go) or 117 (C) addresses is cut | buffers of 4096 and 2048, names of up to 31 bytes |
| `FrontTypeCorrect` | `FrontTypeOK` | - |
| `ReloadExclusive` | `ReloadHoldsMu` | - |
| `CertsNotMissed` | `NoMissedCert` | - |
| `NewPairReachesHandshakes` | `NewPairServed` | - |
| `WaitsBounded` | `WaitBounded` | - |
| `PipelineTypeCorrect` | `PipelineTypeOK` | - |
| `NoForeignAck` | `PooledConnsIdle` | - |
| `CacheNeverAhead` | `CacheBacked` | - |
| `ConnsHaveOneOwner` | `PoolTypeOK`, `OneOwner` | finitely many connections |
| `XrayTypeCorrect` | `XrayTypeOK` | - |
| `NoEditLost` | `NoStaleEdit` | - |
| `DanglesAccounted` | `DanglesOnlyBy` | - |
| `AppliedFromStore` | `AppliedAsStored` | - |
| `RequestsRunStored` | `ApplyRunsStored` | - |
| `MosdnsTypeCorrect` | `MosdnsTypeOK` | - |
| `MosdnsRunsLatest` | `RunsLatest` | - |
| `MosdnsConfigFollows` | `ConfigFollowsSettings` | - |
| `MosdnsConfigLoads` | `WholeConfigLoads` | - |
| `MosdnsMutexReturned` | `MutexReturned` | - |
| `MosdnsSimulatorExplained` | `SimulatorExplained` | - |
| `HeapStaysConsistent` | `HeapConsistent` | - |
| `MetricsStayConserved` | `MetricsConserved` | - |
| `OldestLeavesFirst` | `OldestFirst` | - |
| `HeapImplementsTracker` | `ImplementsTracker`: every behaviour of the heap is one of `TTLTracker` | - |
| `ServiceTypes` | `ServiceTypeOK` | - |
| `OneInstanceRuns` | `OneInstance` | - |
| `StartsLeaveAnInstance` | `Started` | - |
| `StopsLeaveNothing` | `StopLeavesNothing` | - |

`DaemonInv` adds `HandlerShape` to the types: what a handler's locals mean at each
point (a handler at its DELADDRS for a DEL carries the addresses of the message, an
idle one carries none). The two action properties follow step by step from it.

`Undisturbed` (ADD only, TTLs above 0, no failing delete, no restart, no stall) is
needed because both properties are false without it. `NoOrphan` and `SingleInstaller` are not
inductive: nothing in them says that the entry an ADD created is still there when it
reaches the ioctl. `NewAlive` says that it is, with time left, and the timing
assumption `InTime` keeps it through a tick.

For the pipeline `ConnInv` says who holds which connection and where its handler is:
a waiting query's handler is busy, a query with its ACK has an idle one, a pooled
connection is neither. `CacheBacked` alone is not inductive, as it does not see the
promise on its way: `Leases` follows it from the request (the TTL the handler will
register is at least what the query has left) through the tracker entry to the ACK.
It needs no timing assumption: however long a request or its ACK takes, the query's
own count has shrunk as much as the tracker's.

For the sockets `ChannelInv` has four parts besides the types. `Owned` says who holds a connection: at
most one query, or the pool, and only with its plugin end open. `Shape` says what is left of a
connection one end of which is closed, and that the C daemon leaves no ACK behind. `SyncInv` is about
sync mode: a connection in the pool or about to be written to is `Quiet`, and
one on which a query waits is at one point of the exchange: the request in its buffer, in the handler's
hands, or its ACK on the way back, with the addresses the ACK speaks for in the
table or `lost`. A deadline that kept the connection would break it, and it gives `NoStrayAck`. `Claims`
says the same of the addresses in async mode, where they may still be in flight, and of the query between
its ACK and the cache, which `ClaimsAccounted` alone does not see. `SmallRequestsWhole` is arithmetic
over `AddSize`.

For the front, `HandshakesAreTLS` joins two invariants. `NoMissedCert` and `NewPairServed` rest on
`Noticed`: unless the last write is `hidden`, nothing that has been noted is later than the file, and what was
noted of the file as it is now goes with its contents, in `lastMod` and `cached` as in the hands of
each reload. `Settled` is its counterpart for a handshake under which nothing has changed (`excused`), and `Holding`
says that what such a handshake has read is still in cache when it compares.
`WaitBounded` becomes inductive as `Turn`: the deadlines a client has waited for and those that can
still come, one for each connection before it and one for the peek, are no more than
`ahead`; `BacklogShape` says that everybody is in the backlog once.

For the pool, `OneOwner` needs to know which queries hold a connection at all: an idle
one holds none, one about to put holds a real one (`HoldsInUse`). For the xray
controller everything rests on the lock (`MutexHeld`: `mu = h` exactly when `h` is
between a load and its save): while a handler is there no other one writes the store,
so its `data` is still one edit away from the file (`NoStaleEdit`), and the files
written so far come from the store (`Written`), which `xray -test` has accepted when
the restart comes (`Tested`), so that this is what the restart makes Xray run, if anything
(`ApplyRunsStored`). `ServiceStop` is outside the lock and breaks none of it.

For the mosdns controller too everything starts from the lock (`MutexReturned`).
`ConfigFollowsSettings` looks away while the mutex is taken, so `Follows` says it for every
state but the one between the two writes, and `Carries` that the configuration about to be
written was generated from the settings on disk. `WholeConfigLoads` becomes `Named`, set by
set. `RunsLatest` stands as it is but for one point: the controller creates files when it
starts, and `Created` says that none of them is one a running MosDNS has read.

The simulator and MosDNS evaluate a domain in different ways, one with nested conditions and one
with a sequence of rules. `Run` obeys the sequence rule by rule, as a function of how many it
has obeyed; that this function exists for a sequence of any length (`TraceExists`), that there is one
(`TraceUnique`) and that a sequence in two parts is obeyed part by part (`RunJoined`) follow from
the least number at which they would fail. `BlockPart`, `DirectPart`, `ProxyPart` and `LastPart` then say what
each part does with a query nobody has answered: it ends it, or passes it on as it came. So a
generated configuration sends a domain the `Way` of its mode (`GeneratedAnswers`), the simulator goes the
same way over the files (`ListedMatches`), and `RunsLatest` and `Follows` say that the running
configuration is the one generated from the settings on disk (`ConfigIsGenerated`).

For the heap, `HeapInv` says what holds between two swaps. `Pointers`: every back pointer is right,
even while the heap is out of order. `Contents`: the heap holds what the maps hold, but for
what the method at work has taken out (`gone`). `Ordered`: no position is earlier than its parent, except
where the sift is; down leaves the children of the entry open, up the entry itself, and
`Grandparent` is what the next swap needs, that the children of the gap are no earlier than its parent. An
`up` that follows a `down` that moved is not needed because `Ordered` then has no gap left.
`Removals` and `Collects` say what the removed entries are, in particular that the one `PopExpired` has swapped
to the end is the oldest; that the top of an ordered heap is the oldest entry is
proved with the least position that would be younger than the top (`TopFirst`). In the refinement a
`PopExpired` is one step of the abstract tracker, at its return: until then the entries
it has popped count as held and expired (`Held`).

For the services, a script is a sequence of steps and a caller's `todo` is an end of one (`Todos`). `OneInstance`
is not inductive: nothing in it says that the pid a script has read is still in the file when it
acts on it. `Master(c)` is the caller between whose steps nobody else's come, because it is
alone or a POST with the mutex (`OneAtATime`); `Knows` says that what a master has read
still holds where the script relies on it, and `Chained`, a fact about the scripts, that the step before was
the one that read it. A POST that could not write has nothing left to do but
give back the mutex it has (`FailedHolds`). `Clears`, `Brings` and `Saves` give what a stop, a start and a save with restart
will have done at their ends: either it holds by now or the step that does it is still ahead. The
facts about the scripts are proved by joining their pieces (`WellJoined`). `ServiceInv` and `HeapInv` were
checked by TLC on the instances of the runs before they were proved. `ServiceAssumption` says that
`Commands` are among the eight scripts there are.

Only model-checked: liveness (`EventuallyEvicted`, `EveryRequestAcked`,
`ChannelReturns`, `QueueServed`, `HandlersEnd`, `HeardOrDown`, `HandshakesEnd`,
`ClosedReleasesAll`, `RequestsEnd`), because ENABLED is beyond the prover. Every invariant and every
action property of a passing run is proved, and so is the refinement.

## 6. Not modelled

* Lifetimes and sockets in one model: a cut packet, a stuck handler or a restart while entries expire.
  After a restart of the daemon the plugin's cache stays ahead of the empty tracker until it runs out;
  `AliasChannel` has the restart without the expiry, `AliasDaemon` the expiry without the plugin.
* The sweep of a cache above 10000 entries (it deletes only entries that are stale anyway); a partial
  effect of an ioctl that reports an error; the address buffer `pf_freebsd.go` hands to the kernel as a
  `uintptr`, which the garbage collector does not follow.
* Of the C daemon: its list of lifetimes and the sweep, which ask the kernel for nothing the
  plugin could see; the bytes left of a cut IPv6 address, which it goes on to read as addresses.
* Linux: a close with unread data resets the connection there; the models follow FreeBSD.
* Of the xray controller, what links, rules and ports mean to
  Xray beyond whether the configuration passes its test; of the mosdns controller, `pf_aliasd` as the target
  of a service action, addresses and ports, and Xray's part of `update_rules.sh`; a stop that
  outlives its controller is done at the moment of the kill.
* Of the front, the headers of an answer and the making of the self-signed certificate; of hev-controller
  the status, which reads the configuration without the mutex, logs and the page. A hev-socks5-tunnel
  that cannot use a whole configuration is a `Crash` right after its start.
* The order in which `opnbox-control` starts and stops seven services, the directories and samples it makes.
* The components marked `not_modelled` in `PROJECT.json`: forms, manifests, patches to another program.

## 7. What could follow

1. Lifetimes in `AliasChannel` for one address and one query: what the cache may claim after a restart,
   and until when.
2. That `AliasDaemon` without faults implements an abstract table of leased addresses.
3. The steps of the liveness arguments that need no ENABLED: that the work ahead of a handler, a collection
   or a script shrinks with each of its steps.
