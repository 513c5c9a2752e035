# Panorama Secure Access: TLA+ models of the core

The program is a proxy client: a Flutter application (`src/lib`) that drives a Go core (`src/core`) built over mihomo.
On a desktop the core is a process of its own, behind a pipe or socket and, on Windows and Linux, a privileged helper
(`src/services/helper`); on Android it is a library inside the VPN service. This project models the parts of the core
whose order of steps can be wrong: what its goroutines, timers, hooks and callbacks do to shared state, what a crash or
a failed write leaves on disk, what the host may conclude from the answers and events it gets, and on Android the state
machine of the application that drives the core.

## 1. Inventory

| Component | State | Operations | Hard part | Correct when |
|---|---|---|---|---|
| route tracker (`route.go`) | version, epoch, last reading of picks, providers and rule sets, watch, poller | refresh, reset, watch, stop, poll, check | calls on a goroutine each; moves nobody announces; two mutexes | an answer with the stamp in force left by the route in force; the newest watch intent wins |
| config and lifecycle (`config.go`, `lifecycle.go`) | config, running flag, listeners | apply, update, start, stop, shutdown | nested effects under `configMu` | effects come in the order probes rely on |
| TUN settling, egress pin (`tun_settle.go`, `egress.go`) | nested hold, start hold and timer, aftershocks, pin | hold, release, wait, pin, release | timers racing operations; a wait over two mutexes | checks leave in the end, and not before the reset; nothing stays pinned |
| events (`message.go`) | three bounded queues, a batch, its timer | send, evict, batch, flush | senders racing for room | order per queue; state not lost; bulk not starved |
| request traffic (`request_traffic.go`) | watched requests, running flag | add, collect, clear | counters move beside the collect | the last totals of a request reach the queue |
| log (`log.go`) | the active pump and its subscription | start, stop, pump | mihomo emits under a lock, into a bounded buffer | no logger and no stop is held up |
| socket server (`server.go`, `method.go`) | connection, write mutex, position in a frame | read, dispatch, send, resume, close | timeouts inside a frame, panics | the stream stays in frames; every call ends |
| rule-set compiler (`rule_set.go`) | a source and an `.mrs`, their temporary files | download, compile, write, rename | overlaps on one temporary name; a crash between two files | no torn file; the `.mrs` matches what its source matches |
| profile merge (`profile_base.go`) | `config.yaml` | merge, encode in slices, replace | aliases; the seams between slices | reading the file back gives the merged document; what runs is on file |
| spilled replies (`spill.go`, `lib/core/spill.dart`) | files of replies | spill, fall back, read, clear | failures halfway; an `init` beside replies under way | a reply names a whole file |
| Android TUN (`lib.go`, `platform/protect.go`) | handler, callbacks, listener, locks | start, close, protect, DNS updates | dials beside start and close | no socket of the core enters the TUN |
| Android runs (`ServiceStateMachine.kt`, `ServiceController.kt`, `VpnService.kt`, exports of `lib.go`) | intent, transition, runtime, binding; running flag and ports of the core | start, stop, revoke, lose the service, attach and lose the engine | coroutines that act on what they read earlier; prompts | once all is quiet the newest request, the run, what is shown and the core agree |
| outbound address (`outbound_ip.go`, `slots.go`) | race, claims, slots | lookup, claim, cancel | losers and stale lookups | a failure is a real failure |
| resource updates (`provider.go`, `geo.go`) | claims | update, hook | mihomo's updater asks nobody | a lock for each resource; no claim leaks |
| file ownership (`ownership_unix.go`) | pending flag, targets of a sweep | schedule, collect, reclaim | files replaced under a sweep | no file stays with root for good |
| service checks (`service_check.go`, `service_rules.go`) | claims, slots, budgets | sweep, rules, retry | sweeps overlapping | the newest sweep has the service; verdicts rest on answers |
| host: route state and probes (`lib/providers`) | answers and their stamps | round, retry, confirm | answers landing late | no outdated answer is shown |
| host: desktop lifecycle and RPC (`lib/core/desktop`) | intents, pending calls | start, stop, call, reconnect | crash and reconnection | the last intent is reached; every call ends |
| helper (`services/helper`) | the core it owns | start, stop, adopt | two owners | one core |
| delay tests, share links, certificates, regions and other parts without a protocol | see `PROJECT.json` | | | |

How they interact: a method call is dispatched on a goroutine of its own, with a sequence number where order matters.
The config operations run under `configMu` and call into the tracker (`changeRoute`), the holds and the pin. The tracker
publishes through the state queue, the traffic watch and the updates through the bulk queue; the batcher hands batches
to the socket server, or to the listener of the library. Probes, lookups and service checks wait for the TUN, read a stamp, take a slot
and dial; the host compares the stamp with the state it last heard of.

## 2. Modules

| Module | Models | One step is |
|---|---|---|
| `RouteTracker` | `route.go` and every handler that reaches it | a critical section; `selectMu` and `configMu` span steps |
| `TunSettle` | `tun_settle.go`, `egress.go`, `exit.go`, TUN part of `lifecycle.go` and `config.go` | a section under one mutex, or a call of an operation |
| `MessageQueue` | `message.go` | one channel operation or one `select` of the batcher |
| `LogPump` over `MessageQueue` | `log.go`; mihomo's observable (external) | one lock, one event of the buffer |
| `RequestTraffic` | `request_traffic.go` | one section, and inside a collect one read of one request |
| `IpcServer` | `server.go` | one write to the pipe, with as many bytes as it took |
| `RequestFiles` over `IpcServer` and `RuleSets` | `method.go`'s dispatch, the files of `rule_set.go`, `config.go`, `profile_base.go`, `spill.go`, `spill.dart` | one system call on a file |
| `RuleSets`, `ProfileMerge` | `compileRuleSet` and `loadConfigWithBase` as operators | |
| `AndroidTun` | `lib.go`, `platform/protect.go`, `tun/tun.go` | one lock operation or one callback |
| `AndroidRuns` over `AndroidTun` | `ServiceStateMachine.kt`, `RunIntentArbiter.kt`, `ServiceController.kt`, `VpnService.kt`, exports of `lib.go`, `handleUpdateDns` | what a coroutine does between two points where another may run |
| `OutboundIp` | `outbound_ip.go`, `slots.go` | one `select` of a lookup, one stage of a probe |
| `UpdateClaims` | claims of `provider.go`, hook of `geo.go` | one section under the claims' mutex, one event |
| `ResourceLock` | abstract: a lock for each resource | acquire, release |
| `ResourceFiles` over `UpdateClaims` | `ownership_unix.go` | a file looked at, a file given back |
| `ServiceCheck`, `ServiceRules` | `service_check.go`; the rules of `service_rules.go` as operators | one claim, one slot, one request |
| `RouteTrackerProofs`, `TunSettleProofs`, `MessageQueueProofs`, `RequestTrafficProofs`, `RequestFilesProofs`, `AndroidTunProofs`, `ProbeProofs`, `UpdateClaimsProofs` | theorems about the module of that name and, in the same order, `LogPump`, `IpcServer`, `AndroidRuns`, `OutboundIp` with `ServiceCheck`, `ResourceFiles` | |
| `MCRoute`, `MCProbes`, `MCClaims`, `MCRequests` | symmetry, views and composition for TLC | |

**Views as a sum.** `LogPump`, `RequestFiles` and `AndroidRuns` hold parts that meet at one call only and share no other
state. A behaviour shows one of them, chosen in the initial state by `view`, and at the call the other part is
represented by every way it can come back: a send that ends, `sendMessage` that never waits, `StartTun` as one step
that succeeds or fails. The product would multiply the states and show nothing more. `MCProbes` puts `OutboundIp` and
`ServiceCheck`, whose claims and slots are apart, side by side in the same way.

Some correspondences that a reader will look for:

- **RouteTracker.** `world` is all that decides a route: picks, provider and rule-set content, and `config`, a counter
  for everything else. `tracked` is what `refreshRouteLocked` read last. The three steps of a refresh (`ReadRoute`,
  `CommitRoute`, `PublishRoute`) are one critical section of `selectMu`, so the world may move between them. A goroutine keeps the
  rest of its handler in `rest`. `ran`, `announced` and `dropped` are histories. `FlipBack` says whether a pick may
  return, unread, to the value last read.
- **TunSettle.** Operations exclude each other by `configMu`, so there is one `op`. Channels are numbers.
  `ResetPending` says that the operation under way has a reset after the TUN ahead of it; a channel closed in spite of
  it, or of an aftershock to come, is `early`, and `escaped` records a check that left by such a channel or, behind a
  start, while one of the two was still ahead. So a stale timer of an older start, an operation that lets go too soon and
  an aftershock that is not waited for are all seen. `raced` names the timers that had fired and waited for the mutex when
  the newest start took its hold: they end it early in the code as well. `gen` counts the states of the TUN's routes; a check
  remembers the one it dialed over. `AskAgain` is the host's `hasMovedSince`. A shutdown comes once (`isInit`,
  `exit.go`), and calls that wait for `configMu` still run after it. `stalePin` marks that a later apply left an earlier
  one's name in the pin.
- **MessageQueue.** A message is the number under which its channel accepted it. The channels are closed in tests only, and
  `deliverEvent` is the end of the model.
- **LogPump.** The channel to the observable has no buffer, so a log call waits until its event is taken; a
  subscription has a bounded buffer, which the observable fills under its own lock. Nothing is counted: loggers, starts
  and stops go on for ever. `Pumps` bounds the pumps that exist together, those that still drain included.
- **RequestTraffic.** What happens to a report once it is queued is the environment's choice. A second between ticks is
  long enough for a connection to join mihomo's manager. `swept` and `gaveUp` name the requests whose loss the code
  accepts.
- **RequestFiles.** A file is the call whose text it holds, whether it is whole, and who still writes it; it keeps its
  writer when it is renamed. The host does not serialise compiles, so any two of one rule set may overlap; the config is
  serialised by `configMu`. A panic is recovered in the handler and leaves everything but the deferred unlock as it is.
  `Restart` is the death of the core at any step and the next one's `init`, which clears the spilled replies. `InitAgain`
  and `RemoveListed` are an `init` in a live core, which `QuickSetup` (`lib.go:292`) and a host that attaches anew both
  run without a look at `isInit`: it lists the directory and removes what it listed, beside replies under way. A host
  whose file is gone by then gets `spill_error` (`spill.dart`). `swept`, `lone`, `overlapped` and `cutOff` are histories.
- **RuleSets.** A value is a member of a small set of shapes that the code tells apart (a plain name, one with each
  wildcard, a range, an address, junk); `Matched` says what mihomo's tries match for a key, and `Meant` what a classical
  rule matches for a value. A list is the set of its entries: the code classifies a source by what all its entries have
  in common, and neither their order nor a second copy of one changes what is matched. `Lists` is a constant; TLC takes
  the lists of at most one entry, so that a source made of two lists has any two.
- **ProfileMerge.** A document is a small tree with anchors and aliases. `Encode` and `ReadBack` stand for the YAML
  library: a list written in pieces reads back as one list only if every piece is complete.
- **AndroidTun.** `StartTun` and `StopTun` are called one at a time: the VPN service holds its own `tunLock`
  (`VpnService.kt:151-175,284-292`). A Go `RWMutex` lets no reader in once a writer waits, which is why `start` may not
  hold it while `t.Start` dials. The refusal at the descriptor limit and process resolution are left out.
- **AndroidRuns.** A job is a start, a stop, a revocation or a lost service. `latest` is the token of the arbiter,
  `shown` the published `runState`. `core` is the rest of an export that has looked at `isRunning` and not yet acted
  under `configMu`. Starts come from the application's Flutter engine or, with none attached, from a tile or intent.
  The engine attaches and goes at any time (`Attach`, `Detach`), to and from runs of either kind; one that goes refuses
  the prompts it was asked for, and its command ends where it stands, with what it had asked of the core still to come.
  `tunUp` is the interface, `tunRunning` the flag of `VpnService`: between `establish()` and the flag (`Establish`,
  `Adopt`) the interface stands alone. A revocation takes the interface whatever the flag says (`Revoke`), and
  `onRevoke`, a step of its own, stops the TUN there is and notifies in any case. A service that is lost before its TUN
  runs is left out.
- **OutboundIp.** `acquireWithin` never gives up before the lookup's own context, so the slot wait has no deadline of its
  own.
- **UpdateClaims.** mihomo's updater is external: one run per resource, and every geo update calls the hook twice.
  A request holds the abstract lock from its claim to its release; runs of mihomo's own updater are outside the lock.
- **ResourceFiles.** A file has an inode and an owner. A file created anew belongs to root, one written in place keeps
  its owner. Provider updates schedule no sweep, so their files wait for the next one.
- **ServiceCheck.** A sweep's budget is whole, short of one request, or spent; that decides the retry. `Lists` are lists
  after `selectedCheckers`.

## 3. Runs

All bounds are constants of the cfg files.

| Run | Checks | Instance | States |
|---|---|---|---|
| `route` | newest watch wins; one poller; the watcher is informed; answers describe the route | 2 callers, the detaching host, 2 pollers, 1 probe; 3 stamped calls and 1 move, or 2 and 2 (`Bounded`) | 579k |
| `route_live` | unannounced moves are noticed; calls return | 1 caller, 1 poller, 3 moves, fair | 46k |
| `route_flip_back` | *violated*: answers describe the route, when a pick may flip back | 1 caller, 1 poller, 1 probe, 3 moves | |
| `settle` | no early release; no answer outlives a toggle; pin released; an aftershock is skipped only over bound sockets; held checks leave | 3 operations, 2 start timers, 1 check, fair | 129k |
| `settle_pin_left` | *violated*: pin released, when the network changes between apply and start | 3 operations, 2 interfaces | |
| `messages` | events keep their order and state is never lost; bulk waits a burst at most; state arrives; log calls, starts and stops come back | 2 senders, 4 messages, queues of 2, batches of 3; 2 pumps, buffers of 1, fair | 48k |
| `traffic` | one loop; totals not lost | 2 requests, 2 engines, 1 retry | 750k |
| `requests` | stream in frames; sends end; a rule set is torn by overlaps only and healed by a lone compile; what runs is on file; a reply names a whole file; the `.mrs` keeps the meaning; the config reads back | 2 calls of a method, 1 event, frames of 2+2 bytes, 1 death of the core, any number of further `init`s; sets of 2 entries, slices of 2, fair | 64k |
| `android` | no socket loops; no call after close; calls end; once quiet, intent, run and core agree; stops end | 2 dials, one under `configMu`, the start's own, 2 starts; 3 jobs, an engine that comes and goes; 3 DNS updates, fair | 169k |
| `android_shown` | *violated*: a run shown as started has its TUN or its ports | 1 start, 1 revocation | |
| `probes` | failures honest; only stale cancelled; losers can leave; slots accounted; newest sweep has the service; verdicts rest on answers | 2 lookups of 0 or 3 sources, 2 at a time, 1 slot; apart from them 2 sweeps, every rule alone, overlapping and repeated lists, 1 slot | 899k |
| `claims` | the claims implement a lock per resource; no claim leaks; the host is told; no file stays with root | 2 requests, 1 automatic run, 2 resources, 2 sweeps, 2 writes | 512k |

Why the bounds are enough: each hazard of `PROJECT.json` needs at most two actors of a kind and one more to observe
them, and each queue, burst, retry or capacity is small enough to be reached and passed. Every property is shown to be
breakable in its instance by a mutant of the code (`PROJECT.json`, `mutants`). In `route`, a watch,
a stop and the watch that overtakes it are three stamped calls, and the two watches want two pollers; that takes one
move, which starts the core. With two stamped calls there are two moves: an apply and one unannounced move. The moves
while the poller runs are in `route_live` and `route_flip_back`, where a third one is available. In `probes` three
sources at two a time leave one that only a failed answer starts. In `requests` two compiles and one death are what it
takes to tear a file and to heal it. In `android` three jobs allow a start, what overtakes it and what overtakes that;
for any number of them there is the proof of section 4. In `claims` two sweeps allow one to be scheduled while another walks.

Views (`MCRoute`, `MCProbes`) merge states that differ only in what no later step and no property
reads: counters that only grow are compared, never read; histories enter by the comparison their invariant makes;
the sources of a lookup are interchangeable. The values of the invariants that read hidden parts are in the view.
No liveness property is checked under a view or a symmetry; `LockPerResource`, checked under a symmetry, is a
refinement without fairness.

`CHECK_DEADLOCK FALSE` stands where the bounds or the system itself let everything come to rest. `claims` and
`android` never come to rest and are checked for deadlock.

### Fairness

- `RouteTracker`: a goroutine that can go on does; strong fairness on the steps that take a mutex, because a Go mutex
  passes to a waiter that has starved for a millisecond; the poller's ticker keeps firing.
- `TunSettle`: the operation, timers that were set, and checks run on. The limit of a held check is not assumed: its
  wait must end because whoever holds it lets go.
- `MessageQueue`, `LogPump`: the batcher and a send under way run on; the flush timer fires. Observable and pumps run on.
  Strong fairness on a goroutine that waits for `logMu`, the observable's lock or its channel: Go hands all three to a
  waiter that others keep overtaking.
- `RequestFiles`: handlers run on. `IpcServer`: a host that stalls drains again, which is what `server.go:88-91` waits for; a dead one fails the write.
- `AndroidTun`: strong fairness on the call of the service, whose locks are handed over.
- `AndroidRuns`: weak fairness on the jobs together. A job has finitely many steps, so that is as much as fairness on
  each. The user's answers to prompts are not fair: a prompt may stay for ever.

Nothing is assumed of the host's calls, health checks, updates or the network.

### What the three violations show

`route_flip_back`: between two readings a health check moves a pick and moves it back. The comparison at
`route.go:98` finds nothing, the version stays, and an answer dialed in between keeps the stamp in force although it
left by another exit. `.agents/architecture.md:459` says a result "either describes the route in force or is being asked
again". The passing runs exclude exactly this case.

`settle_pin_left`: a config is applied on one network, and the listeners start on another. `pinEgressNow` then records
the new name, but its `CompareAndSwap("", name)` leaves the old interface bound, and `releaseEgress` finds a name that
is not its own. The passing run has one interface that may be absent.

`android_shown`: a start brings its VPN up, and the system revokes it before the start has set `runtime`. `onRevoke`
stops the TUN, `StopTun` the listeners; `handleVpnRevokeAction` (`ServiceStateMachine.kt:117`) finds no runtime and
returns; the start then sets `runtime` (`ServiceController.kt:110`) and publishes `STARTED`. Nothing is under way any
more, and there is no interface, no TUN and no listener. The comment at `ServiceStateMachine.kt:41` says the state is
derived from what the host really runs, "so no path can leave it claiming a service that is not there", and
`.agents/architecture.md:309` that "the Core listens exactly while `runtime` is set".

### What the properties leave out, and why

Some properties hold with an exception that the model names, because the code has it:

- `WatcherInformed`: an event of the tracker that found no room (`dropped`).
- `TotalsNotLost`: a request swept by a `clear` that raced a new listener (`swept`), and one whose reports found no room
  in all its retries (`gaveUp`).
- `SkippedMeansBound`: an apply that finds no interface, or wants none, unbinds the sockets but leaves an earlier apply's
  name in the pin; a later toggle then skips its aftershock although nothing is bound (`stalePin`).
- `TornOnlyByOverlap`: compiles of one rule set that overlap share `path.tmp`, and one may rename what the other is still
  writing. `LoneCompileHeals` says that the next compile alone repairs it.
- `RunningIsOnFile`: the config that runs is the one on file or the built-in one. A refused config stays on file while
  the built-in one runs, as the code means it (`config.go`); which of the two a setup must end with is not checked. A
  panic after `config.yaml` was replaced and before the config was applied leaves the older config running (`cutOff`). A crash there leaves a `.config-*.yaml` beside it that nothing sweeps.
- `NoEarlyRelease`: a timer of an older start that had fired, and waited for the mutex, as a newer start took its hold
  ends that hold before its reset (`raced`).
- `ReplyNamesWholeFile`: an `init` in a live core removes files of replies on their way (`swept`); the host then reports
  `spill_error`. `.agents/architecture.md` (375) says `init` clears what an earlier run left. The property says nothing of leftovers. A spill that fails leaves its file until the next `init`: `return "",
  err` in `writeSpilledResponse` empties the named result `path` before the deferred `os.Remove(path)` runs. A reply that
  is lost on the way leaves its file in the same way.
- `LockPerResource` is about requests. A run of mihomo's updater may go on beside a request for the same database: the
  hook ignores that its claim was not granted.
- `SettledAgrees`: at rest the state shown is that of the run, a run is wanted, and an interface has its run, in every
  behaviour. That the newest request, the run, the TUN, the ports and the flag all agree is said where none of six gaps
  was met (`missed`), each of several jobs:
  *FlagLeft* (`lib.go:298`): the setup of an overtaken start fails before it applies and leaves the running flag raised
  over closed ports, so a later start opens none. *TakenForUp* (`ServiceStateMachine.kt:252`): a start that overtakes the
  stop of a revoked VPN takes the run without a TUN for up. *TakenForRun* (`ServiceStateMachine.kt:275`): an overtaken
  start comes back while the intent of a lost run has not been reset, and leaves open what it opened. *HeardTooSoon*
  (`ServiceStateMachine.kt:117`): a revocation heard before the start has set `runtime` is forgotten; `android_shown`
  shows it. *CutShort*: an engine goes in the middle of a command, so that what it asked of the core comes late and
  what it would have asked next does not come. *ClaimedEarly*: with the engine gone, a start of native code claims the
  run before Flutter's stop has closed the listeners, and they are closed under the new run.

## 4. Proofs

Every invariant of the runs is a theorem for all values of the constants, with the exceptions named at the end. Each
proof is an induction with a step per action, and below it the conjuncts that the action can disturb. What follows
names the strengthening each one needs and why.

**`RouteTrackerProofs`**, from `RouteAssumption`, for any finite or infinite sets of callers, pollers, probes and groups:

- `TypeCorrect`. The induction needs `LocalsTyped`: a goroutine about to commit has a reading, one about to publish has
  a stamp.
- `NewestWatchHolds`, `DetachHolds` (a watch dispatched before the host let go never brings the watch back),
  `OnePoller`: from `WatchInv`, which adds that every sequence number in use lies at or below `methodCallSeq`, and that
  once the host has detached every call still under way has a place below the stop's. Without the last conjunct a late
  watch could overtake the stop.
- `EventsInOrder`, `WatcherHears`: from `PublishInv`, which adds that whoever is between the reading and the queue holds
  `selectMu`, and that a stamp about to be published is the version in force and newer than every queued one.
- `AnswersDescribe`, under `FlipBack = FALSE`; `route_flip_back` refutes it without. An answer of the stamp in force
  may differ from the world only while somebody still has to commit a change, so the induction follows three things:
  a change that was announced stays `Pending` with its goroutine until a commit moves the version (`StageInv`); no
  reading is ahead of the world (`ReadInv`); and the exit of an answer lies `Between` the tracker's last reading and the
  world, where a pick that agrees with the reading agrees with the exit. The last is where a pick that flips back
  breaks the proof.

**`TunSettleProofs`**, from `SettleAssumption`, for any checks, operations, timers and interfaces:

- `SkippedShockIsBound` from `PinBound`; `AnswersAreOfTheRoutes` from `Fresh`, which says in which places of an
  operation an answer may be out of date although its epoch is in force.
- `HeldUntilReset` from `HoldInv` and `EarlyInv`: the holders are counted exactly (pending aftershocks, the operation's
  hold and its listeners'), and the channels of toggle and start are never the same; whoever has a reset ahead of it
  holds (`PendingIsHeld`), the timer of a start's hold is its own, and every other one that has fired had done so before
  that hold began (`TimersApart`). So no channel is ever closed early.
- `PinIsReleased`, for one interface (`ASSUME \A a, b \in Egress \ {None} : a = b`); `settle_pin_left` refutes it for
  two.

**`MessageQueueProofs`**, from `QueueAssumption`, beside the log of `LogPump`: `MessagesKeepOrder` from `OrderInv` (what a
channel accepted and has not lost rises and stays at or below the last number given; no state message evicts), and
`BulkGetsItsChance` from `BurstInv` (the burst counts at least what a bulk message has waited, and is not full past the
place where bulk gets its chance).

**`RequestTrafficProofs`**, from `TrafficAssumption`: `OneLoopServes` from `LoopInv`, and `HostLearnsTotals` from `TellInv`: for
every request that is owed, the last report of it, queued or shown, is what its entry remembers. It needs that only a
closed connection counts as closed (`ClosedIsFinal`), that one the manager has yet to store is asked for at most once
before it counts as gone (`AskedOnce`), and what a collect under way has read (`ScanReads`).

**`RequestFilesProofs`**, from `IpcAssumption`, `FileAssumption` and `ListsAssumption`, for any calls, events, lengths of
frames and lists of entries:

- `HostStaysInSync` from `SendInv`: who writes holds `writeMu`, the host stands at the end of a frame or at the byte
  written last, and one that gives up inside a frame has given up the connection first.
- `NoTornRuleSet`, `LoneCompileSucceeds`, `ConfigInForceIsOnFile`, `SpilledReplyIsWhole` from `FilesInv`, with an `init`
  in a live core at any step: a reply's file is whole, or gone because an `init` removed it. Without overlaps
  the temporary file is its maker's (`OwnTemp`); a lone compile finds at each step what it left (`LoneFinds`); only the
  setup that holds `configMu` has the file ahead of the config (`ConfigKept`).
- `CompiledSetsMatch` and `RuleSetsMatch`. The key of an entry matches what the entry means, one lemma for each form an
  entry is classified by, and a key that the converter drops matches nothing. So the union over the keys is that over the
  entries, for lists of any length: what TLC sees for two entries of a source holds for all of them.

**`AndroidTunProofs`**, from `TunAssumption` and `RunsAssumption`:

- `CallbacksLive` and `SocketsStayOut` from `TunInv`: who calls back holds the handler's read lock; from the listing on
  every socket is protected, on its way to the handler, or listed.
- `NewestServersWin`: the half of `SettledAgrees` about DNS, for any number of updates.
- `SettledAgreesAlways`, for any number of jobs. `SettledAgrees` speaks only of rest, so it says nothing of the steps on
  the way there. `RunsInv` says, in nineteen named parts, who is on the way whenever something disagrees:
  - *Where a job can be.* The places at which a job holds each lock (`LocksFit`), and at which it may have the rest of an
    export to do (`CallsFit`); a job carries the token it asked with, and a run that is wanted is wanted by a start that
    has not given up (`TokensFit`).
  - *What the service shows fits what it has.* `TransitionFits`, `ShownFits`, `BindingFits`, `TunFits`: a state of
    transition is that of the lock's holder; the state shown is the derived one, or a job is about to publish it; a run
    has its service bound, and a TUN has a run or a start on its way to make it one.
  - *Nobody leaves early.* While the intent is to stop and something still runs, a job that will stop it is under way
    (`UnwantedStops`); while it is to run and nothing is up, one that will start it is (`WantedStarts`), with the stop it
    waits for before it (`StopsFirst`). A run that died is ended by somebody, and a start that was waiting for it hears
    (`DeadRunEnds`, `DeadStartHears`). A lost service remembers the intent it found (`LossFits`, `LossRemembers`).
  - *The core.* The running flag is raised and lowered by the export under way, and the ports agree with it after
    (`FlagFits`, `FlagRaised`, `FlagSettles`, `CoreCloses`).

  Seven parts, and pieces of `CallsFit` and `FlagFits`, hold while no gap was met (`~missed`): `LossRemembers`,
  `WantedStarts`, `DeadRunEnds`, `DeadStartHears`, `FlagRaised`, `FlagSettles` and `CoreCloses`; the state shown, a run
  nobody wants and an interface without a run need none of them. The proof needs a gap in the six places that section 3
  describes and in no other, so in this model there is no seventh. TLC checked `RunsInv` first, on all reachable states
  with three jobs. There is one lemma for each action (`...KeepsRuns`).

**`ProbeProofs`** treats the two users of slots.

- `OutboundIp`, from `OutboundAssumption`: `ProbesEnd`, `CutOffOnlyByNewer`, `FailureIsMet`. `Counted` says that `inFlight`
  is the number of probes under way plus the answers nobody took, and that a race with sources left has something to
  wait for. Without it a lookup could give up with a source unasked. `ClaimInv` says that only a race has a claim and
  that one that was cancelled has been overtaken by a newer stamp.
- `ServiceCheck`, from `SweepAssumption`: `SlotsComeBack` from `SlotInv` and `SweepInv` (a check begins when its sweep comes
  to its place and not before, so it has no slot yet); `NewestSweepHas` from `OwnerInv` (only what a sweep has come to
  is claimed or cancelled for it, and until it gives back exactly one of the two holds); `VerdictsRest` from `HeardInv`
  and a lemma for each rule: what it makes of one outcome more is a verdict that rests on an answer, or the wish to go
  on. For Netflix this needs `GoesOn`: the fourth request is only sent when the third was answered, and it is the third
  that the verdict rests on.

**`UpdateClaimsProofs`**, from `ClaimAssumption`, for any runs, resources and sweeps:

- `ClaimsImplementLock`, `NoClaimLeaks`, `ShownIsTakenBack` from `IInv`, which joins the properties with `ShownByRun`: where
  the run that shows a resource must be. `ClaimsImplementLock` is the refinement `Spec => LockPerResource`, where
  `LockPerResource` is `ResourceLock!Spec` with the holders of a resource mapped to the requests between claim and
  release: a request acquires only what no other holds, every other step (events, hooks, runs of mihomo's updater) is a
  stutter, and what makes it inductive is that a request under way has its resource claimed as a request.
- `NoFileForgotten` from `FileInv`: a request to sweep is left to another sweep only if that one has yet to look at the
  files. `ClaimsHoldBesideFiles` carries the other three over to `FSpec`.

**Assumptions.** They are about constants only, and TLC evaluates each on the run of its module. Bounds and sizes are
numbers, positive where the code's constant is. `None` differs from what it is told apart from (`TrafficAssumption`,
`FileAssumption`, `SweepAssumption`, `RunsAssumption`), and lists consist of entries (`ListsAssumption`). `OutboundAssumption` asks for a greatest number of sources and `SweepAssumption` for a longest
list of services, because probes and checks are indexed up to it; both lists are finite in the code.

**Only model-checked.** Liveness under fairness (`CallsReturn`, `MovesAreNoticed`, `HeldChecksLeave`, `StateArrives`, `LoggingEnds`,
`SendsEnd`, `CallsEnd`, `StopsEnd`) is outside the prover's reach. `ConfigReadsBack` says what
recursive operators over a document of any depth compute, which takes an induction over data. Every other property of
the passing runs is a theorem.

## 5. Not modelled

- Parsing and formatting without state: share links (right when mihomo's converter, which is outside the repository,
  reads them back), short ids, certificates, regions, QUIC options, and `protocol.go`, which declares types.
- System calls whose answer is an input here: the search for the egress interface, descriptor limits, process names, a
  `chown` that fails. Failure of the TUN to come up is left out of `TunSettle`.
- Pages of services are the outcomes the rules tell apart.
- Delay tests: one call of mihomo under a slot.
- Listing and side loading of providers, HTTP exchanges of probes and downloads.
- On Android: the suspension by Wi-Fi name, the service without a VPN, the permission of the local network, a service
  that is lost before its TUN runs, what an engine that attaches pushes to the core.
- The desktop application: RPC client, core lifecycle, helper, actions, database, user interface, plugins and runners.

## 6. Plan

1. `RoutedProbe` over `RouteTracker`: the host's cache of answers, refined to "what is shown describes the route in
   force or is being asked again".
2. `DesktopLifecycle`, `RpcClient` and `HelperHub`: intents, crashes, reconnection, pending calls.
