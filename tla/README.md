# CatTag in TLA+

CatTag is a Go library for Bluetooth applications: a client and a server over an
adapter, a connection pool, sessions with timeouts, reliable messaging, device
discovery and pairing, security, configuration and monitoring.  Almost everything in it is a map
guarded by a mutex, a set of goroutines that serve it, and channels between them.
This project models those maps, goroutines and channels in TLA+, checks them with
TLC and proves their main properties with TLAPS.

Source paths below are relative to the repository; `pkg/` stands for
`pkg/bluetooth/`.

## Inventory

| Component | State | Operations | Hard behaviour | Correct when |
|---|---|---|---|---|
| Client `pkg/client.go` | connection map, status, context, receive channel, wait group | Connect, Disconnect, Send, Start, Stop, one monitor per connection, processor, manager | monitors outlive their entry in the map; Stop runs against all of them | every entry is watched, Stop returns and no goroutine or entry is left, no send on a closed channel |
| Reconnection `pkg/reconnect_manager.go` | task per device (enabled, attempts, backoff), its own context | ScheduleReconnect, StopReconnect, the worker | works from a snapshot, calls back into Connect; schedules from three places | attempts respect the limit; a device the application gave up stays down |
| Server `pkg/server.go` | connection map, status, context, channels, wait group | Start, Listen, Stop, DisconnectDevice, acceptor, monitors, processor, manager | Stop holds the lock while it waits; monitors remove by device ID | limit, every entry watched, every end reported, no send on a closed channel |
| Mock adapter and connection `pkg/mock_*.go` | active flag, channels | Close, SimulateDisconnect, Listen, AcceptConnection | a lost link leaves the channel open | part of the client's and the server's modules |
| Pool `pkg/connection_pool.go` | pooled connections, priorities, limit | Add, Remove, Get, Select, SetMaxConnections, SetConnectionPriority, Close, maintenance | eviction against priorities set before and after; limit lowered below the occupancy | limit, nothing leaks, the least important goes first |
| Load balancer `pkg/load_balancer.go` | counters and weights | select by strategy | depends on map order | selects a healthy member, fair shares |
| Sessions `pkg/session_manager.go` | session per device | Create, Authenticate, Close, expiry, one goroutine per session | closing by device ID hits newer sessions | an entry belongs to a running session |
| Timeouts, resources `pkg/timeout_manager.go` | timeout entries, resources with counts | Add, Remove, Refresh, check; Allocate, Release, cleanup | callbacks run later in goroutines of their own | what has a timeout ends; limit and use agree |
| Server connection handler `pkg/server_connection_handler.go` | ties the three above | OnConnected, OnDisconnected, OnMessage, timeouts | a late timeout or cleanup of an old session; a link that is lost and a device that comes back | no session that cannot serve its device stays |
| Reliable messaging `pkg/reliable_message_handler.go`, `pkg/message_handler.go` | pending messages, received IDs, bounded queue | SendReliable, retry timer, acknowledgement, receive | loss, duplicates, retry against acknowledgement | delivered at most once, acknowledged or reported |
| Concurrent messaging `pkg/concurrent_message_handler.go` | four queues, weights, counters, worker pool, limiters | distribute, schedule, work | starvation, limits | every priority is served |
| Devices and pairing `internal/device/` | cache, connected, paired; pairing sessions | Add, Remove, Pair, Unpair, StartPairing, Confirm, Cancel | concurrent pairings, session IDs that collide, stale objects | the sets agree; limits hold |
| Default adapter and connection `internal/adapter/` | flags, channels, wait group | scan, listen, connect, Shutdown, Close | Shutdown waits with the lock held | shutdown ends, no send on a closed channel |
| Health checker `pkg/health_checker.go` | verdicts, monitoring flag, its loop | start and stop, heartbeat | loops that overlap after a restart; a check and a report hold no lock | every change of a verdict is reported, once, in any order |
| Component, coordinator `pkg/component*.go`, `pkg/state_manager.go` | states, order | Start, Stop, SetState, event bus | a start that fails half-way; calls that overlap | after Stop everything is off; what is said to run runs |
| Security `internal/security/manager.go`, `encryption.go` | sessions, keys in use, stored keys | Authenticate, Authorize, generate and rotate a key, Encrypt, expiry | a key lives in three tables with three locks; a lock taken twice | the three tables agree |
| Key store `internal/security/keystore.go` | keys in memory and in a file | Store, Delete, Backup, Restore, Close, the saving loop | failed writes, crashes, two savers with one temporary file | what was acknowledged survives |
| Configuration `internal/config/` | watchers, current configuration, subscribers | watch, load, notify, Subscribe, Close | a restart leaves old watchers; IDs that collide | no channel misused |
| Performance collector `pkg/performance_collector.go` | totals, samples, its loop | start, stop, collect | unlocked readings, loops that overlap | an increment is what was transferred |
| Framing `internal/protocol/protocol.go` | frames, MTU, retries | encode, decode | a link that changes frames | what is decoded was encoded |
| File transfer `examples/file-transfer/` | transfers, download directory | send, receive chunks, complete | loss, repetition, restart | only whole files are saved |
| Monitoring, builders, commands | measurements, settings | | data | |

How they interact: the client and the server own their connections and are told
of their end by the closed receive channel; the server calls a connection handler
(the server connection handler, or the application's) under its own lock; the
reconnect worker calls the client's Connect, which schedules the worker's tasks;
the component starts and stops all of them in order.  `PROJECT.json` lists every
component with its status, and under `hazards` what in this code is hard to test,
each at its line, with the properties that cover it.

## Plan

1. `ClientReconnect`, `ConnectionPool`, `ServerLifecycle` and their proofs: connections are
   what everything else hangs on.  **Done.**
2. `ServerSessions`: what the server's handler keeps of a connection.  **Done.**
3. `ReliableMessaging`, `PriorityScheduler`, `MessageFraming`: the way of a message.  **Done.**
4. `DeviceCache`, `DeviceServices`, `DefaultAdapter`: devices and the adapter.  **Done.**
5. `BluetoothComponent`, `ComponentCoordinator`, `HealthChecker`, `SecurityManager`,
   `FileKeyStore`, `ConfigReload`, `LoadBalancer`, `PerformanceCollector`: the parts started,
   watched and configured beside them.  **Done.**
6. `FileTransfer` as an implementation of `DownloadFolder`.  **Done.**
7. Proofs about the modules of 2 to 6.  **Done** for every safety property and action property that a
   passing run checks.
8. Left: abstract specifications of the pool, of the server's sessions and of the component, in the way
   `DownloadFolder` is one of the file transfer, and the refinements; inductive invariants that say more
   of `ComponentCoordinator` and `SecurityManager` where calls overlap.

## What is modelled

**Steps.**  A critical section of a mutex is one step.  What a goroutine has read
before it asks for a lock, and still uses after, is in its state: the worker's
snapshot, the accepted connection, the tick that was taken, the closed channel, the
session a message was found for, the key that is still to be stored.  A lock that is held
while something else is waited for is a variable.  Messages are abstracted to what their
handlers tell apart; time is left out, so that every timer may fire whenever it is armed.

**Mutations.**  Definitions whose comment begins with "Mutation" or "A plausible bug" are in no
specification; `PROJECT.json` names, for every property, one of them that breaks it.

### ClientReconnect (client.go, reconnect_manager.go)

| Module | Code |
|---|---|
| `Connect` = existing, succeeds, fails, rejected, refused | `Connect` and its early returns |
| `Disconnect`, `Send` | the same, with the close and the reconnect a failing Send causes |
| `MonitorReceives`, `MonitorRemoves`, `MonitorSchedules`, `MonitorCancelled` | `monitorConnection`, `handleConnectionClosed`: the entry is removed under the lock, the retry is scheduled after it |
| `WorkerTick`, `WorkerAttempts`, `WorkerSettles`, `WorkerExits` | `reconnectWorker`, `processReconnectTasks`, `attemptReconnect` before and after its call of Connect |
| `CleanupInactive`, `ProcessMessage`, `LoopExits` | the two background loops |
| `StopBegins` ... `StopFinishes` | `Stop`, which takes the lock three times and waits twice in between |
| `PeerCloses`, `LinkDrops` | the remote side: Close, SimulateDisconnect |

Both endpoints give every device `Slots` connection objects.  An object has the flag `active`,
the state of its channel, and its monitor.  A slot is used again only when nothing refers to the
old object.  `connections[d]` is the slot in the map, 0 for none, so "the entry has been replaced
meanwhile" is a different slot.  `wanted` is a history variable: the devices the application has
asked for.

### ServerLifecycle (server.go)

| Module | Code |
|---|---|
| `AcceptorAccepts`, then `AcceptorRefuses`, `AcceptorAdmits`, `AcceptorRejected` | `connectionAcceptor`, then `handleNewConnection` and its returns |
| `MonitorReceives`, `MonitorSeesClose`, `MonitorRemoves`, `MonitorCancelled` | `monitorConnection`; between seeing the close and `handleConnectionClosed` the monitor waits for the lock |
| `ManagerTicks`, `CleanupInactive` | `connectionManager`, waiting for the lock in between |
| `DisconnectDevice`, `Start`, `StartFails`, `Listen` | the same |
| `StopBegins`, `StopCancels`, `StopFinishes` | `Stop`, which holds the lock from its first step to its last |

`overtaken` is a history variable: the devices that came back before the monitor of
their previous connection had ended.  `heard` records that the connection handler has
been told about a connection's end.

### ConnectionPool, LoadBalancer, PerformanceCollector

`ConnectionPool` (connection_pool.go) has one action per method and one for
`performMaintenance`.  An entry holds the copy of the priority the pool decides by, its use
count and what has expired.  `LessImportant` is the order of `makeRoomForNewConnection`; the
health score is written nowhere after the entry is made, so it never decides.  Ties are broken by
any choice, as Go's map order is.

`LoadBalancer` (load_balancer.go): one operator per strategy says what it may choose from the
connections offered; `Select` is the pool's call, with the adaptive balancer's change of strategy in
it.  Scores are tenths; the score of a strategy that was never tried is 0/0, which beats nothing.

`PerformanceCollector` (performance_collector.go): a reading without the lock and its recording
under it are two steps.  Counters are taken modulo `Modulus`, 2^64 in the code.  The second half of
the module is what is computed from samples: the window, minimum, maximum, percentiles, trend and
quality of a signal.

### ServerSessions (server_connection_handler.go, session_manager.go, timeout_manager.go)

| Module | Code |
|---|---|
| `NewConnection`, `CreateSession`, `AllocateResource`, `AddTimeouts`, `ConnectFails`, `ConnectSucceeds` | `OnConnected`, one step per table |
| `ConnectionClosed`, `DisconnectDevice` | the server's two calls of `OnDisconnected` |
| `Forget` | the server after a call that failed or disconnected: it closes the connection and deletes its entry |
| `CleanupClears`, `CleanupCloses` | `cleanup`, which names the device, not the session |
| `PeerCloses`, `LinkDrops` | the remote side: the channel is closed, or the connection is inactive with its channel open |
| `OnAuthMessage`, `AuthSucceeds`, `AuthFails` | `OnMessage`: the session is looked up, then looked up again |
| `SessionCloses` | `handleSessionClosed`, in the session's goroutine |
| `TimeoutExpires`, `SessionExpires`, `ResourceExpires` | `checkTimeouts` with the callback's start, the two cleaners |

A session stands for its connection, its resource and its timeouts as well: the module's question
is which of them a late cleanup hits.  `dropped` are the connections whose link was lost.  Close has
no effect on them (mock_connection.go:114), so that neither a monitor nor the session's goroutine ever
hears of their end: the session stays listed until a cleanup closes it by name, and a device that comes
back meanwhile is refused (`CreateSession`).  A session that is unlisted takes its `authed` with it.

### ReliableMessaging, PriorityScheduler, MessageFraming

`ReliableMessaging` (reliable_message_handler.go on message_handler.go): `chain[m]` says where the
transmissions of a message are - transmitting, sent with the timer still to be set, waiting for
the timer, in the retry interval.  `seen` are the messages whose own ID a peer has seen: each
transmission draws its ID from the clock, and only the first can have the pending message's.
`reader` is a device's call of `ProcessIncomingMessage`, between its three critical sections.
`sent`, `lateSent`, `queued` and `forgotten` are histories.

`PriorityScheduler` (concurrent_message_handler.go): queues, the scheduler, the distributor and the
workers are goroutines that each hold at most one message; `Serve(i)` and `NewRound` are
`scheduleNext`.  A receive from a closed queue yields `Empty`, the zero message.

`MessageFraming` (protocol.go): a frame is its payload, its true and its declared length, its
checksum, its magic number and the bytes too many or too few.  The link changes, cuts, loses and joins
frames, one fault for each.

### DeviceCache, DeviceServices, DefaultAdapter

`DeviceCache` (device/manager.go) is the manager's three maps with one action per method; the
age of a device counts cache timeouts.  A cleanup tick that was taken before Stop still runs
once (`lastTick`).  `DiscoverDevices` delivers with the read lock held, so the
lock is a variable there.

`DeviceServices` (pairing.go, discovery.go, and the manager's Start and Stop): sessions with their
goroutines, found under IDs that are the time to the second (`IsNow`: the current ID or one that
nobody has).  `managerLock` and `asking` are the two locks that are held while another is asked for.
`discovery` is where a scan's `DiscoverDevices` is: it holds the manager's read lock while it counts and
filters, and a filter that asks whether a device is paired asks for the read lock again (`FilterAnswers`);
`writerWaits` says that a writer waits for the readers, which keeps new readers out.

`DefaultAdapter` (adapter.go, connection.go): `lock` says which operation holds `da.mu`, what it
still has to close and which connection it waits for.  A scan, a listener and a timer are goroutines
with a place; the Bluetooth stack calls back or returns as it likes.  A connection is open,
closing (Close holds `dc.mu` and waits for the receiver) or closed.  `updateDeviceCache` and its
helpers are what advertisements make of a device's name and services; `Known` folds them over a
sequence.

### The parts beside them

`BluetoothComponent` (component.go): a step of Start or Stop is one of the eight parts in
`startupOrder`, with the part's calls to the one mock adapter they share; the application may call the
server and the client it got, past the component.
`ComponentCoordinator` (component_coordinator.go, state_manager.go): a call announces, acts and
settles, in three steps without a lock, and the transition rules may silently refuse a state.
`HealthChecker` (health_checker.go): each loop works through the list it read; the exchange of
verdicts is a step, the report another; `owed` is a history, what was changed and is not yet reported.
`SecurityManager` (security/manager.go, encryption.go): a caller's record holds the key between the
critical sections of a call; `contended` is a history, the devices whose keys two calls changed at once.
`FileKeyStore` (keystore.go): `file`, `tmp` and `keys` with the two steps of a save, which may
fail, and `Restart`.  `acked` is what the caller may rely on.
`ConfigReload` (config/manager.go, notifier.go): watcher and handler of every call of
`StartWatching`, and the subscribers with their channels.
`FileTransfer` (examples/file-transfer/main.go): the sender's loop, the receiver's handlers, a link
that loses, repeats and reorders.  `DownloadFolder` is what it promises of the directory:
under a name there is nothing, an announced file as a whole, or what a failed write left.
`FileTransfer` implements it with `announced` as the transfers whose sending has begun.

### Modules of instances

Five modules put side by side what is checked in one run and share no variable: `PoolParts` (the load
balancer and the collector), `ServerParts` (everything of the previous section but the file transfer),
`ServerAccess` (the server and its sessions), `DeviceParts` (`DeviceServices` and `DeviceCache`),
`MessageParts` (the scheduler, framing, files).  Each instantiates its modules, assumes of their
constants what they need, and gives their properties a name.  The `MC` modules and the proof modules
both extend them, so that a theorem is about the very definition the run checks.

The `MC` modules give the constants their values.  In five of them (`MCConnectionPool`,
`MCServerParts`, `MCServerSessions`, `MCDevices`, `MCMessaging`) `part` is chosen in the initial state
and says which of the modules moves; the others stay in their initial state.  The run's states are the
sum of theirs, not the product, and a property of one part is not touched by another.

## What the runs show

| Run | Modules and instance | Shows |
|---|---|---|
| `client` | one device, three connection objects, three retries | listed connections are watched and never swapped while alive, dead ones leave the map, no send on a closed channel, Stop returns, and then no goroutine runs and nothing is listed |
| `server` | the server with two devices, two objects each, one place; `BluetoothComponent`; `ComponentCoordinator` with two components and two callers; `HealthChecker` with two loops; `SecurityManager` with one device and two callers; `FileKeyStore` with two devices and keys; `ConfigReload` with two subscribers, two IDs, two calls of StartWatching | entries are watched, no send on a closed channel; a component that was stopped is off; states agree with instances; each change of a verdict is reported once, the first included; the tables of keys agree; acknowledged keys survive; no subscriber's channel is misused |
| `server_return` | the server with one device, three objects, limit two; `ServerSessions` with one device and two sessions | live connections are listed and kept, ends reported, dead ones leave; a listed session is served; a session whose connection ended or lost its link, or that does not authenticate, leaves |
| `pool` | three devices, two objects, limits 0 to 2, two priorities; `LoadBalancer` and `PerformanceCollector` with two devices | limit, no leak, least important first, dead connections leave; one of the connections offered is chosen; increments are traffic |
| `devices` | `DeviceCache` with two devices and room for one; `DeviceServices` with one device, two sessions, one ID | the connected are cached, the cache outgrows its limit only for protected devices; a listed ID has a goroutine that will unlist it; every session ends, unless one of two deadlocks stops it |
| `messaging` | `ReliableMessaging` with one message each way, queue of two, two deliveries; `PriorityScheduler` with two critical messages and a low one; `MessageFraming` with two frames on the way; `FileTransfer` with two files of one name | transmissions are bounded, one late one at most, queued once, resolved; no priority starves, Stop returns; what is decoded was encoded; `FileTransfer` implements `DownloadFolder` |
| `adapter` | `DefaultAdapter` with two scans, two listeners, one timer, one connection | channels are closed once; Shutdown ends unless a goroutine is asking for the lock it holds |
| `client_disconnect` | 1 device | **violated**: a disconnected device is connected again |
| `client_giveup` | 1 device, 3 retries | **violated**: giving up starts over |
| `server_stop` | 1 device, 1 slot | **violated**: Stop hangs |
| `server_limit` | 1 device, limit 1 | **violated**: two live connections |
| `component_start` | a new component | **violated**: Start fails |

Two runs also evaluate operators over all bounded inputs, as ASSUMEs: `pool` the window, the
percentiles, the trend and the quality of the collector's samples for all sequences of up to five
values, `adapter` what is known of a device after all sequences of up to three advertisements
(`KeepsOwnName`, `KeepsServices`).

**Findings.**
- `client_disconnect`: `Disconnect` says it stops the automatic reconnection
  (client.go:304).  The worker may hold a snapshot with the device, and the monitor of the
  connection just closed schedules the device again (client.go:426).
- `client_giveup`: a failed attempt is scheduled by `Connect` (client.go:262) and again by
  `attemptReconnect` (reconnect_manager.go:228).  When the first disables the task, the
  second enables it with its count reset: with the default limit of three the client never
  gives up.
- `server_stop`: `Stop` waits for the goroutines with `s.mu` held (server.go:143), while a
  monitor that has seen its channel closed asks for `s.mu` (server.go:413).  One connection
  is enough, and `Stop` itself closes it; the context's timeout is not looked at.
- `server_limit`: `handleConnectionClosed` removes by device ID (server.go:420).  If the device
  has come back meanwhile, the live connection drops out of the map, and of the limit.
- `component_start`: `Start` initialises the adapter, then starts the server, which initialises it
  again (server.go:76); the mock adapter refuses (mock_adapter.go:36), so a new component cannot
  be started, as integration_test.go:190 expects.

**Disagreements seen while modelling, without a run of their own.**
- Pool: a full pool evicts a more important connection for a newcomer (connection_pool.go:109).
- Devices: `ManagerReturns` and `DiscoveryReturns` state what the code does not do: the two locks are
  taken in both orders, and a filter asks for a read lock behind a waiting writer.
  `CancelledNeverPairs` fails, too: the answer and the end of the context may both be there.
- Adapter: a scan's goroutine always ends under the lock that Shutdown holds; a scan goroutine that is
  older than StopScan sends to a closed channel; Close waits for a receiver that wants its lock; an
  advertisement without a name replaces a generated name (adapter.go:709), so `KeepsOwnName` speaks of
  the device's own name only.
- Sessions: a session may be served that is no longer listed (session_manager.go:357), and the connect
  timeout ends a session that was established (server_connection_handler.go:105).  The same timeout is
  all that ends the session of a lost link for sure: a device that comes back before is taken out of
  the server's map (server.go:359), refused by `CreateSession` (session_manager.go:151) and dropped.
- Client: a connection that a stale monitor took off the list (client.go:419) is still open after Stop.
- Messaging: acknowledgements of retransmissions name an ID nobody waits for; a message that finds the
  queue full is lost, its retransmission being a duplicate; a scheduler with a queue size below four
  has queues without room.
- Security: `Authenticate` asks for a lock it holds (security/manager.go:154).
- Component: a second Start after Stop sends on a closed channel.  Health: the end of the caller's
  context leaves `isMonitoring` set.  Configuration: a version that finds the channel full is lost,
  its modification time having been noted.  Files: an empty file never completes, a failed write
  tears a file of that name.

**Bounds.**  `Slots`: two objects per device are the least in which an old monitor and a new
connection coexist, three add a second stale monitor.  `AttemptCap`: the attempt counter
saturates one above the limit, where the code has disabled the task already.  `InboxCap`: one
message makes the channel both empty and full.  `UseCap`: used or not decides a tie.  Three devices
and at most two places make the pool evict with a choice.  Two devices and one place make the server
refuse at the limit.  A limit of two with one device lets the device come back while its dead
connection is in the map: the code checks the limit before it looks at the device's own entry.
Two sessions of one device are the old and the new one, two callers, loops, pairs and subscribers
the least that overlap.  One ID for two pairing sessions is the collision.  A name, a slot or a key
is used again only when nothing refers to it, so that behaviours go on past these bounds; only
versions of the configuration, deliveries, records and bytes are counted up to a bound and stop
there.  `Modulus` is 4 where the code has 2^64: an increment comes round in a few steps.  `QueueSize` is
the least that is full and not empty.  `MaxRetries` and the weights are the code's.

**Fairness.**  A goroutine that can take a step eventually does (weak fairness on monitors' ends,
cleanup ticks, timers' callbacks, sessions' goroutines, the running call of Stop or Shutdown); a
select that is offered the cancelled context again and again does not pass it over for ever, since Go
chooses at random among the ready cases, and a mutex is handed to a goroutine that waits for it
(strong fairness on the loops' and workers' ends and on the steps of a pairing session that need
a lock).  Nothing is assumed of the application, the owner, the remote devices, the link or the
Bluetooth stack, nor of the cleaners of sessions and resources, which may find nothing to expire.  A
deadline passes: connect and auth timeouts expire, for each was armed by `OnConnected` and
`timeoutChecker` runs as long as the manager does (timeout_manager.go:302); a pairing times out, the
retry timer goes off.

**Deadlock** is checked where every part can always go on; the runs in which one hangs or dies as the
code does (Stop of the server, Shutdown of the adapter, the manager's two locks, a panic) turn it off.

## What is proved

TLAPS proves, for every number of devices, connections, callers, goroutines, retries and every limit:

| Proofs | About | Theorems |
|---|---|---|
| `ClientReconnectProofs` | `ClientReconnect` | `TypeCorrect`, `EntriesAreWatched`, `StoppedClientIsQuiet`, `NoPanic`, `LimitRespected`, `LiveConnectionStays` |
| `ConnectionPoolProofs` | `ConnectionPool` | `TypeCorrect`, `WithinLimit`, `NothingLeaks`, `PrioritiesAgree`, `EvictsTheLeastImportant` |
| | `LoadBalancer` | `AlwaysChooses` |
| | `PerformanceCollector` | `IncrementsAreTraffic` |
| `ServerLifecycleProofs` | `ServerLifecycle` | `TypeCorrect`, `WithinLimit`, `EntriesAreWatched`, `NoPanic`, `LiveConnectionsAreListed`, `EndsAreReported`, `LiveConnectionStays` |
| `ServerSessionsProofs` | `ServerSessions` | `TypeCorrect`, `ListedSessionsAreServed` |
| `ServerPartsProofs` | `BluetoothComponent` | `StoppedIsOff` |
| | `ComponentCoordinator` | `StatusIsTrue` |
| | `HealthChecker` | `FlipsAreHeardOnce` |
| | `SecurityManager` | `KeysStayTogether` |
| | `FileKeyStore` | `SavedIsDurable` |
| | `ConfigReload` | `ChannelsCloseOnce` |
| `DeviceProofs` | `DeviceServices` | `ListedSessionsLive` |
| | `DeviceCache` | `TypeCorrect`, `ConnectedStaysCached`, `GrowthIsProtected` |
| `MessagingProofs` | `ReliableMessaging` | `SendInvariant`, `RetriesRespectLimit`, `OneLateSend`, `QueuedAtMostOnce` |
| | `MessageFraming` | `NothingIsForged` |
| | `PriorityScheduler` | `MessagesAreWorkedOnOnce` |
| | `FileTransfer` | `ImplementsFolder`, the refinement of `DownloadFolder` |
| `DefaultAdapterProofs` | `DefaultAdapter` | `ChannelsCloseOnce` |

`LimitRespected` (the retry limit), `PrioritiesAgree`, the server's `WithinLimit` and
`MessagesAreWorkedOnOnce` are about properties no run lists; they hold for every instance.

*Assumptions.*  The named assumption of each module on its constants; TLC evaluates it for every
instance it runs.  They say of what kind the constants are, that the special values (`Nobody`,
`Garbled`, `Empty`, ...) are none of the others, and where something is counted, that there are
finitely many of it: goroutines, devices of a pool.  The client's and the server's theorems about the
shutdown also assume `~ReuseAfterStop`: the owner stops only what it started, and starts
nothing that was stopped.  Without it they fail: a restarted component keeps its cancelled context
and its closed channels.  The types, the server's limit, the client's retry limit and
`LiveConnectionStays` are proved for every owner.

*Inductive invariants.*  Few of the properties are inductive as they stand.

- Client and server: a panic is excluded only because the channels are closed after the last goroutine
  that sends on them has ended, and that in turn depends on the order of the shutdown.  `ShutdownOrder`
  states that order (what each step of Stop has left behind).  For the server, `MapCoherent` adds what
  relates the map to the objects: a connection that is not in the map has been reported, an open
  channel belongs to a monitor that has not seen it closed, and a device that was not overtaken has one
  monitor.  `LiveIsListed` needs all of it in the step where a monitor removes an entry: the device was
  not overtaken, so the entry, if any, is watched by this very monitor, and its connection is closed.
- Pool: the conjunction of its properties; the limit needs counting arguments on finite sets
  (`FS_AddElement`, `FS_Subset`).
- Load balancer (`BalancerInv`): weights and scores that were set are of use.  That the weighted
  strategies choose anybody is a fact about sums: a position below the total weight falls on
  a connection.
- Collector (`SteadyReadings`, `SteadyTotals`): a reading that nobody overlapped is the last total and
  what was transferred since, as long as the loop that made it is the only one that records.
- Sessions: the types need `CallHasSession`, the server is in a call of the handler only on behalf of
  a session.
- Component (`PassedIsOff`): what each step of Stop has passed is off, and nothing but a disturbance
  turns it on again.
- Coordinator (`UnregisteredRests`, `StatesAgree`): the agreement of state and instance *during* a
  call, where the rules may have refused the state that announces it.
- Health checker (`FlipsReported`): the changes of a device to a verdict that are not yet reported are
  as many as the loops about to report it, so that overlapping loops may report in any order.
- Keys (`ChangesAlone`, `ChangeGoesOn`, `RestingAgree`): a device's keys are changed by one call at a
  time, and the tables that call has passed hold its key already.
- Key store (`OneSave`, `MemoryAgrees`): one save at a time although there are two savers; memory
  stays while it runs, and holds whatever is acknowledged.
- Configuration (`SubscribedIsOpen`): a subscriber in the map has an open channel and its own ID.
- Adapter (`ChannelsOpen`): a channel is open while its flag is set.  The converse fails, for the
  channels are made before anyone scans.
- Transmissions (`CountAgrees`, `LateIsLast`): every transmission but the first was counted as a retry
  before it was made; after a late one the message is not in the table, so that its timer will find
  nothing.  Reception (`MarksAgree`): a mark allows one place in the queue, and forgetting it another one.
- Frames (`Genuine`): whose payload and magic number are still what they were was encoded, whatever was
  done to the rest of it.
- Scheduler (`Flow`, `HandlerLife`): a message is in one place, and in no place twice, until the queues
  are closed; then no worker is left.
- Cache: that a full cache evicts a device unless all are protected needs an oldest one: the ages are
  natural numbers (`NatLessThanWellFounded`, `WFMin`).
- Files: every message under way tells of a transfer that has begun, so that whatever is saved was
  announced; the comparison of the sums gives the rest, in each of the ways in which
  `completeTransfer` may end.

*Sums.*  The balancer's total weight and the collector's totals are folds over sets.
`ConnectionPoolProofs` holds what the proofs need of them: that the sum exists (`SumsExist`), what an
element adds (`SumAdd`), what changing one value changes (`SumChange`), bounds.  They follow
from `SubsetInduction`, which is stated of a set of sets, not of a predicate: of the subsets for which
a fact fails there would be a smallest.

*Only model-checked*: everything under fairness, and ENABLED, which this prover does not reach; the
operators over samples and advertisements, which fold over sequences of any length.

## What is not modelled, and why

- Message contents, metrics, callbacks to the application that change nothing here, logging.
- Calls the connection handler makes back into the server: it runs under `s.mu`, so a handler
  that calls `Send` waits for itself.
- Durations: timers are nondeterministic.  Rate limits (SendConcurrent), the cooldown of alerts
  (monitor_manager.go) and the backoff, whose conversion overflows (reconnect_manager.go:97), are
  about nothing but time or floating point.
- Data races on statistics and on the pool's use counts (connection_pool.go:325): they decide ties.
- Cryptography; the security manager's lists and policies, which only Authenticate would turn into
  permissions.
- The event bus and the message router of the component, restarts of the messaging handlers after
  Stop, heartbeats and data messages of a session.
- Builders, validation, the container of singletons, reports, log and alert handlers, the command line,
  the chat and the device monitor: data and formatting without a history.

## Running

    tlc -config server.cfg MCServerParts
    tlapm ServerLifecycleProofs.tla
