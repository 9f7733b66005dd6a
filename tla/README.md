# A TLA+ development of the Dune: Awakening self-host console

The repository runs a game battlegroup in Docker and administers it from a *console*: one Node.js
process (`console/api/src/`) with a web client in front of it. The console writes to a database that
the running game servers also write to, and restarts those servers while people play on them. What
makes that hard is in the few parts that keep state across requests, timers and restarts of the
console itself; they are what these modules model. Beside it, shell scripts start and stop one container per
map partition as players need them; those decisions are modelled too.

All TLA+ here is translated from the code. Names follow the code (`markEntryRestarting` is
`MarkRestarting`, `forceFresh` is `CallFresh`), and `PROJECT.json` maps every definition to its lines.

- [1. The system](#1-the-system)
- [2. The modules and how they correspond to the code](#2-the-modules-and-how-they-correspond-to-the-code)
- [3. The runs: what they check, their bounds, the fairness](#3-the-runs)
- [4. Where the code and its documentation part](#4-where-the-code-and-its-documentation-part)
- [5. What is proved](#5-what-is-proved)
- [6. What is not modelled, and the plan](#6-what-is-not-modelled-and-the-plan)

## 1. The system

The console is one JavaScript thread. Handlers interleave at every `await` and nowhere else, except
that the process can die anywhere: its container is restarted by its restart policy, memory is lost,
and the JSON files under `runtime/generated/` are not. `setInterval` timers start background work
whether or not the last round has ended.

### Components

| Component | State | Operations | Interacts with | Hard behaviour | Correct when |
|---|---|---|---|---|---|
| **Restart Queue** (`services/restartQueue.js`, `server.js` 5200–5380) | `restart-queue-state.json` (countdowns); one running flag of the tick | gate in front of every restart route, 10 s tick, Cancel, Restart Now, recovery at boot | TaskManager (creates restart tasks), database (who is online), RabbitMQ (warnings) | the gate awaits a count before it decides; the tick works on a copy across awaits; a battlegroup restart kills the console that runs it | conflicting countdowns never coexist; nothing dispatched runs twice or vanishes; a countdown ends; nobody is restarted early because a query failed |
| **Task manager, restart tasks** (`tasks.js`) | tasks in memory; log | `create`, `run` (stop half, `onMapDown`, start half) | runs the scripts; calls the flushes through a bounded wait | the flush between the halves may wedge | a restart always reaches its start half |
| **Single-flight guard** (`services/singleFlight.js`, `withTimeout.js`) | the tail of a promise chain, per queue | plain call (5 s poller), `forceFresh` call (restart) | wraps each of the five flushes | several callers waiting for one pass; a pass that never settles | passes never overlap; the poller never waits; a call returns |
| **Write window** (`duneDb.js` 12610–12714) | dwell timers `partitionDisconnectedSince`, in memory | `observeRefillPartitions`, `partitionWriteSafe` | reads `pg_stat_activity` and `world_partition` | a live server loses its connection for seconds, a stopped one for minutes: a sample cannot tell | no write to a partition a server simulates |
| **Base delete queue** (`duneDb.js` 12960–13195, `server.js` 6440–6600) | `pending-base-deletes.json` | delete, cancel, repeat requests; a flush pass with safety backup, retries, age-out, reconciliation | write window, single flight, poller, restart task, base backup tool | a pass works on a copy while requests change the file; backups of minutes inside a pass | no request is lost; only what was asked for is deleted, only on a stopped map; every entry ends |
| **Water refill queue**; generator, permission and vehicle queues (`duneDb.js`) | one file each | as above with their own outcomes | as above, and each other (a base whose delete is queued is frozen) | the same; and a check of one queue followed by an await and a write to another | as above; a frozen base does not change |
| **Auto-refill schedulers** (`services/autoRefill*.js`) | enrolled bases with their counts, next run, in a file; running flags | daily scan, toggles, first check | refill queues, queued deletes, database | the scan awaits on copies of three files; the count of a base and the attempts at its entry are kept apart | the last toggle stands; a base is filled, marked or forgotten, and not written to in vain for ever |
| **Memory balancer** (`services/memoryBalancer.js`) | baseline limits, enabled flag; one shared sampler | tick, switch on, switch off, live memory page | Docker (`stats`, `update`), `memoryStatus` | two updates move one gigabyte; switched off during a tick; a read shared with somebody who began it earlier | limits add up to what is configured; off means configured; nobody stays short beside one with room |
| **Addon deliveries** (`addonDeliveries.js`) | one file per request; keys of the open ones in memory | request, repeat, tick, attempt, uninstall | addons, the live grant commands, RabbitMQ | a crash during a delivery leaves it uncertain; ticks overlap | a reward arrives at most once, what is told is final, every open record is settled |
| Addon jobs and seeding (`addonJobs.js`, `addonSeedJob.js`) | job settings | scheduler | database | market pricing, mostly data | — |
| **Care Package** (`carePackage.js`) | claims, history and its receipts, pending returns | automatic and manual scan, single grant, compaction, clearing | deliveries, database | the claim is on disk before the grant; scans overlap; a scan writes back an old copy | one first package per player, one for a return; nobody is passed over |
| Chat services (`services/messageOfTheDay.js`, …) | who was online at the last scan | scans | RabbitMQ | a scan that fails halfway | one greeting per join |
| Caches and shared reads (`inFlightShare.js`, `services/*Cache.js`) | a promise and its lifetime | read, invalidate | every route | an invalidation during a read | no read older than its invalidation |
| Sign-in, roles, API keys, rate limit (`auth.js`, …) | sessions, second factors, keys | login, checks | every route | mostly sequential | — |
| Discord integration (`integrations/discord/`) | confirm-once nonces | prepare, confirm | routes | a confirmation used twice | a nonce is used once |
| World queries (`duneDb.js`, `db.js`, `baseBackups.js`, `blueprints.js`) | the game's database | queries, transactions | game servers | SQL over a schema the repository does not hold | — |
| Recorders (`deathPoller.js`, histories, directory, audit) | cursors, logs | poll, append | database | little | — |
| **Map servers** (`runtime/scripts/spawn-server.sh`, `despawn-server.sh`, `map-modes.sh`) | containers, `spawn-port-reservations.tsv`, partition locks, `world_partition.server_id` | spawn, despawn, adopt | Docker, database, each other | run side by side by three callers; fail and are killed halfway; some steps take no lock | servers have ports of their own; a partition is bound to the server in its container |
| **Autoscaler** (`runtime/scripts/autoscaler.sh`) | demand, demand events and idle times in files | follow the Director's log, scan idle servers, nineteen other scans | spawn and despawn, database, the Director's log | two loops share files and containers; a spawn takes longer than the window of the log | who asks is admitted; nothing is despawned under players; no server too many |
| Other runtime scripts | marker files | schedules, updates, protection | Docker | — | — |
| Web client, orchestrator, public probe | — | presentation; separate programs | console | outside the console's core | — |

The components in bold have modules; the others are listed in `PROJECT.json` as `not_modelled`
with the reason. `PROJECT.json` also lists the hazards, each at the line where it bites, and the
properties that would catch it.

### How the modelled parts meet

```
 restart routes --> gate --> Restart Queue --tick/boot/now--> restart task (tasks.js)
                                                               stop half
                                                                  |  onMapDown, bounded wait
 delete/cancel routes --> pending-base-deletes.json               v
                              ^       ^                    forceFresh call \
                              |       +--- reconcile ---- flush pass <--- single flight
                              |                              |            plain call /
                              +--- 5 s poller ---------------+--------------------
                                                             | observes each entry
                                                        write window <--- map servers
```

```
 Director's log --> follower --> demand file <-- idle scan      addon --> request --> record of the delivery
                       |                             |                      tick --^     attempt --> player
                     spawn                        despawn
                       |                             |          interval --> scan --> claim, delivery, history
                       +--> ports, containers, <-----+                         pending returns <--+
                            bindings <-- reconciler
```

## 2. The modules and how they correspond to the code

| Module | Models | Uses |
|---|---|---|
| `RestartQueue` | the Restart Queue | — |
| `SerialPasses` | what the single-flight guard promises (abstract) | — |
| `SingleFlight` | `createSingleFlight`, and that it implements `SerialPasses` | `INSTANCE SerialPasses` |
| `WriteWindow` | the observation of partitions, and the map servers around it | — |
| `BaseDeletes` | the delete queue: route, pass, poller, restart task | extends `WriteWindow`; takes from `SingleFlight` that passes do not overlap |
| `AutoRefill` | the water refill queue, the auto-refill scan over it, and what other requests do to a base meanwhile | takes from `WriteWindow` that a map is down or not, from `SingleFlight` that passes do not overlap |
| `AtMostOnce` | what the delivery service promises an addon (abstract) | — |
| `AddonDeliveries` | `createAddonDeliveryService`, and that it implements `AtMostOnce` | `INSTANCE AtMostOnce` |
| `MemoryBalancer` | `createMemoryBalancer` and its sampler | — |
| `CarePackage` | scans, grants and the four files of `carePackage.js` | — |
| `MapServers` | the spawn and despawn scripts and the reconciler's adoption | — |
| `Autoscaler` | demand and idle lifecycle of one map | takes spawn and despawn for what `MapServers` shows of them |
| `MCRestartQueue`, `MCBaseDeletes`, `MCMemoryBalancer`, `MCAutoscaler` | instances for TLC | extend the above |
| `RestartQueueProofs`, `SingleFlightProofs`, `BaseDeletesProofs`, `AutoRefillProofs`, `AddonDeliveriesProofs`, `MemoryBalancerProofs`, `CarePackageProofs`, `MapServersProofs` | theorems | extend the above |

**RestartQueue.** `queue` is the state file. An action runs from one await to the next: `GateCount` is
`maybeQueueRestart` up to the count and the count itself, `GateDecide` the rest, with `canQueue`
evaluated on the file as it is then. The tick is split at each await: `TickStart` reads the file into
`tick.todo`, `TickCount` awaits the battlegroup count, `TickScope` that of a map, `TickDecide` picks
between an early run, the warnings and the deadline, `TickSend`/`TickSendFails`/`TickRecord` send and
record one warning. `executeRestartEntry` runs without an await up to the removal of its entry, but the
process can die between its two writes, so `ExecMark` and `ExecFinish` are two actions and `ThreadFree`
keeps other handlers out meanwhile. `Boot` is `recoverRestartQueue` with `BootExecute` for each entry
it runs. A count is answered with some, none, or unknown (the query failed or the schema does not
support it); the gate takes unknown for nobody, as the code does, and the tick does not.

Abstractions: an entry keeps its target, deadline, status and sent checkpoints; the settings are
constants; a disabled queue and `restartQueue=immediate` are the one action `GateBypass`; one unit of
the clock is a minute, and the 10 s interval and the 5 s gap between two warnings are not told apart
from any other time between two steps; the task is created, and the entry removed, in one action
(`ExecFinish`): in the code they are two statements of one turn with only microtasks between; the
moment a count is sampled (in the await) is not the moment it is used. Writes of the file are whole:
a crash in the middle of `writeFileSync` is not modelled. `expediteEntry` has no caller.

**SingleFlight.** `tail` is the chain's tail, `after[p]` what pass `p` awaits before it runs,
`call[c].observed` the pass a `forceFresh` call found in flight. `CallPlain` answers *already running*
by doing nothing. `WaitOver` chains behind whoever has become the tail during the wait (`Behind`),
`WaitTimesOut` throws. `Wedge` is the pass that never settles, the reason for the timeouts. `SerialPasses`
is the abstract specification: passes run one at a time, each at most once, in order; the refinement
maps a pass that runs or is wedged to *running* and one that has settled to *ended*.

**WriteWindow.** `since` is `partitionDisconnectedSince`; `Observe` is `observeRefillPartitions` and
moves the timers, which nothing else does. `WriteSafe(p, trusted)` is `partitionWriteSafe`: the partition
is unresolved, or has no server assigned and none connected, or is disconnected for the dwell, or is
disconnected and in the set of partitions a restart task has just stopped itself. The servers (external)
are *live*, in a connection *gap* (running, not connected), *down*, or *booting* (connected to nothing,
with nothing of the world loaded). The one thing assumed of them is the code's own assumption: a gap is
shorter than a unit of the clock, hence than `Dwell` (`duneDb.js:12610`). Boots and outages may
last for any time.

**BaseDeletes.** `queue` is the file, `pass` the flush pass with its copy (`todo`), its decisions (`done`),
the partitions it trusts and the entry it is at. `RouteReserves` .. `RouteFails` are `baseDeleteRoute`: the
reservation before its first await, the target and observation, then the queued path or backup and delete, and
the `finally` block. `PassTurns` (age-out), `PassObserves` (`entryWriteSafe`, backoff), `PassProbes`,
`PassBacksUp`, `PassDeletes`/`PassIsRefused`/`PassDeleteThrows`, `PassEnds` (`reconcileQueuedBaseDeletes`) are
`flushBaseDeletes`, one action per await; `PassAborts` is its exceptions, `PassHangs` an await that is never answered. `RestartStops` .. `RestartStarts` are a
restart task: stop half, hook, bounded wait, start half. `PlayerMoves` is the owner in the game: pick up,
redeploy on a partition of the base's map, recycle, demolish.

Abstractions: `queuedAt` is a unique stamp (two requests for a base in one millisecond are not modelled);
the cap of 200 entries stands behind the bound on stamps; the inner wait of the single-flight guard and the
outer one of the task are the one `RestartTimesOut`; one restart task runs at a time; the pass's start
observation and its snapshot of the file are one action, and so are the route's query of the location and its
observation; an observation that fails aborts the pass, its fallback to the last good one
(`fresh || observed`) is left out; `restartService` for one container, which flushes after the start, is
not modelled; nor is the safety backup that several flushes share, or any other queue.

**AutoRefill.** `refills`, `deletes`, `enrolled` with `armed` are the three files, as far as a base is concerned. `scan` is one scan from await to await:
`Starts` copies the enrolment and reads both queues, once; then for each base `ScanTurnsTo`, `ScanChecks` (picked up?), `ScanReads` with `Levels`
(what to do about it), `ScanQueues`; `ScanEnds` is `persistRunCompletion` on the file as it is by then, `ScanThrows` and `ScanFailsFor` the two ways
it fails. `Due`, `TickArms` and `TickScans` are the tick, `TogglesOn` with `ScanNow` the toggle and its first check. `flush` is one pass: `FlushBegins`
copies the queue, `FlushPasses`, `FlushApplies` and `FlushFails` deal with an entry, `FlushEnds` reconciles, `FlushAborts` does not. `RouteAsks` and
`RouteRefills` are a manual refill, before and after its await, `DeleteReserves` .. `DeleteIsOff` a delete from its reservation to its end,
whoever carries it out. `flush.same` has the bases whose entry is still the one the pass copied (`queuedAt` in the code). `strikes`, `wanted` and
`slipped` are history variables: attempts that did not help, the operator's last word, what was under way as a delete came.

Abstractions: a map is down or not for all bases and all who look; a level is low or it is not; the age of an entry and its retry delay are over or not; the
retry of a failed scan and the interval are the one `Due`; the caps (500 entries, 200 bases) and a database without the queue are left out. A refill may help
only while the map is down, and need not.

**AddonDeliveries.** `status` and `due` are the records on disk, `keys` and `loaded` what the service remembers of them. An attempt is two
actions or three: `Begin` writes *processing* and the delivery is asked for, `Hand` is the moment the reward arrives, `Delivered`, `Failed` and
`Deferred` write the outcome. `RequestWaits` and `WaiterRuns` are `serialize()`: a request repeated during an attempt runs after it. `Sweep(t)` is
the tick from one await to the next; `Interval` starts one whether or not the last has ended, as `runBackgroundTick` does. `Crash` loses the memory,
`Unwritten` is an outcome that could not be written, `Uninstall` removes the records with an attempt possibly in flight. `AtMostOnce` has two
variables, what an addon is told and how often a reward arrived; under the refinement a request is *open* while an attempt is under way, whatever
its record says.

Abstractions: one addon and one permission; at most one repeat waits per request; the fingerprint check, the cap on records of an addon and the
reading routes are left out; the moment a message or an item "arrives" is one step.

**MemoryBalancer.** `limit` and `used` are Docker's. The sampler is a read under way (`flight`: asked, then taken) and the last one (`cached`);
`Join` is `read()`, which hands a read that has begun to anybody who asks, also with `fresh: true`. The tick is `TickStarts`, `Decide`,
`GiveFirst`, `TakeThen`, or `TickFails`; `SwitchesOn`/`Captures` and `SwitchesOff`/`Plans`/`RestoresOne`/`Restored` are `setEnabled`. `UpdateFails` is
an update that ends with an error or is given up after 15 s, and may have been made all the same. Gigabytes stand for bytes (a chunk is one), the
percentages are those of the code. `disturbed` is a history variable: whether something upset the sum since the balancer was last switched off.

Abstractions: containers neither come nor go; the order in which rows tie is any; one switch of each kind at a time; swap.

**CarePackage.** One action from await to await: `Lists` reads the players, `Begins` and `NextRule` the pending returns and the history (`Eligible`),
`Refuses` or `Reserves` is `grantCarePackage` up to its first delivery, with the claim written, `Delivers` or `FailsToDeliver` all its deliveries,
`Records` the row, the claim's release and the pending return, `Ends` the copy written back. `Manual` is a single grant or a retry. `Compacts` and
`Compacted` are `maintainCarePackageHistory`, which others await (`Maintained`). A history row keeps its player, kit, whether it counts as a
first_online grant and whether it succeeded. `why` is a history variable with what may excuse a kit given twice or not at all.

Abstractions: a player has one identity; one rule of each kind; the settings do not change; a kit's items arrive together; refusals
by an exception and by a skip look alike.

**MapServers.** `box` is the container of a partition, `origin` the port a server was started with, `alive` and `bound` the two tables of the
database, `reserved` the port file, `held` the partition locks that outlive a spawn (the publisher it leaves in the background has inherited the
descriptor). A spawn is `SpawnStarts` (reads the row), `SpawnLocks`, `SpawnReserves` (one section under `flock 9`), `SpawnRuns`, `SpawnBinds` or
`SpawnEnds`; `SpawnFails` and `SpawnCleansUp` are its exit trap, which reads and writes the port file in two steps without the lock. A despawn is
`DespawnStarts` .. `DespawnCleans` and keeps the lock of the port file to its end. `Adopts` is `adopt_live_unassigned_server`. History
variables name the steps after which a port or a binding may be wrong: `lost` has the servers, `dropped` the spawns without a container yet, whose reservation a
clean-up, an exit trap, a despawn or a new spawn of the partition has given up, each set in that step; `astray` the partitions that may have come to a wrong binding.
No guard reads them.

Abstractions: the two ports of a server are one, from a range (Survival has fixed ones); the partitions are of one map; the deadline of a bind is any time; the rows
that a spawn purges are of servers that are not alive and bound to nothing.

**Autoscaler.** One map whose dimensions admit one party each. `follower` is `follow_director_travel_demand`: `Scans` reads the log's window, `Answers` is
`handle_demand` for one line, then `SpawnStarts` .. `SpawnEnds` the awaited script, whose lock may outlive it (`LockEnds`). `scanner` is
`scan_idle_servers`: `ReadsRows`, one of `RowBusy`, `RowKept`, `RowIdle` per row (`handle_idle_row`), `Despawns`, `Despawned`. `recent` is the map's
row of the demand file, `other` another map's `forget_map_demand`, which takes no lock. `fresh` picks one of the two kinds of maps: those that start a fresh
process per visit (no idle time; summaries of the queue do not count), scanned by a loop of their own, and the others. `WindowPasses` is a spawn that outlasts the
window. The Director, the parties and their leaving (the reconnection grace included) are external. `cover` is a history variable: what protects a party from
having its dimension removed. It is *kept* from the answer to its request until the demand is forgotten, *late* if the answer came after the scan had decided to despawn
something and before the container was removed, and *seen* once a scan has read it as connected, until it leaves.

Abstractions: partitions of instances are there; one line per request and one summary per window; the Deep Desert, the hub, prewarming, reconnection demand,
the healing scans and the mode of the map changing are left out. The whole of a container's start is *warming*, of which `MapServers` has the details.

## 3. The runs

State spaces are those of TLC with the bounds in the `.cfg`; every bound is a named constant. Two workers need
two to three minutes at most for each (5.8 million states for `RestartQueueCrash`, the largest).

| Run | Question | Bounds, and why they are enough |
|---|---|---|
| `RestartQueueCrash` | Do requests that await their counts together, a tick and the recovery keep the exclusion rule? Does no request vanish, is nothing dispatched run again? | 2 clients in the gate, symmetric; a map and the battlegroup; 2 restarts, so that an old entry and a new one coexist; 1 crash, anywhere; a clock past T-0 and the grace window |
| `RestartQueueCountdown` | One warning per checkpoint and life? Nothing early unless its target was empty? Does every countdown end? | 1 restart, 2 checkpoints due together or apart, 2 crashes; 2 partitions, so that players can be elsewhere than on the target |
| `SingleFlight` | The chain invariant; no overlap; the poller never waits; every call returns unless a pass is wedged; the refinement of `SerialPasses` | 3 callers (one running, two waiting for it), 5 passes, 1 of them wedged |
| `BaseDeletesQueue` | Types; does a pass ever take along an entry that is not its own? | 1 base that is queued at first and 2 further stamps: after a cancel, a reservation and its real entry, around a pass that still holds the old one; 1 attempt, 1 fault (a crash, a hung pass or a failed statement) |
| `BaseDeletesBatch` | Does each delete rest on a disconnection of its own partition? | 2 bases on 2 partitions in one pass, which share one backup; 1 outage, by anyone; no faults, since a pass that crashes, hangs or fails to delete deletes nothing |
| `BaseDeletesEnds` | Is an entry given up only for its own permanent failures? Does every entry leave the queue? Does a restart go on beside a pass that hangs? | one entry, queued at first; 2 attempts and 2 faults, so that a transient and a permanent failure can be confused; a clock past the backoff and up to the maximum age; 2 outages |
| `AutoRefill` | How often is a base written to in vain; what does a queued delete leave under way; does the last toggle stand; is every base that is low filled or marked, and forgotten when gone? | 1 base (scans, passes and files treat bases one by one); 2 refills in vain and 2 attempts, where the code has 3 and 3, so that both counts run out and interact; 2 events of: switch, refill, cancel, delete, pick up, fault, crash. Ageing, levels and the map change freely |
| `AddonDeliveries` | The promise of `AtMostOnce`; does a tick find every open record; is each settled in the end? | 2 requests, 2 ticks at once, 1 attempt per tick, so that the second request waits for the first whenever that is due; 1 mishap: a crash, a lost write or an uninstall; a deferral of 2 intervals, so that one request before another is one fewer than would hold it up for ever (section 4) |
| `MemoryBalancer` | Do the limits add up; is whoever is short served; do the limits settle? | 3 servers of 2, 3 and 3 GB, so that there are two donors to choose from and a minimum to meet; any 3 of: switches, failures, restarts, changes of use |
| `CarePackage` | Who is given a kit twice, and who none? | 1 player (kits are given per player; the exception *overwritten* needs two, see below), both scans and 1 single grant; a window of 1 row and compaction at 2, so that a grant can slide out of the window; 1 move, 1 mishap |
| `MapServers` | Which steps can give a port twice, or a partition the wrong server, and is it only they? | 2 scripts, 2 partitions, 2 ports, 2 servers, symmetric; 1 script fails or is killed |
| `Autoscaler` | Is a container removed under a party that is in it or on its way; is there a server too many; is who asks admitted? | 2 parties, 2 dimensions; 2 faults on maps with fresh processes and none on the others |

In `Autoscaler` the two kinds of maps differ in what they keep (the idle times) and in how large their state space is; with one fault on both (`StandardFaults`), the
safety properties were checked too (2.3 million states), and `Served` with one dimension for two parties and with one party for two dimensions: the run itself has
no crash and no failed spawn on the maps for which `Served` says something. `EveryDeliverySettles` was also checked with 3 requests and one tick at a time (640,000 states,
without mishaps), where its bound on the deliveries ahead matters: without the bound it is violated there, and so it is with 2 requests and a deferral of 1 interval. Each exception that a property allows has been seen to be needed by leaving it out,
but for two: the map being full in `Served`, which two parties on two dimensions do not need, and *overwritten* in
`ReturnHonoured`, which needs two players (checked with `Players = {"p", "q"}`, 730,000 states).

`LastRequest` bounds when the last entry is queued, so that the clock, which is bounded too, can still run past
its age. With one base, an entry can be mistaken for an earlier or a later one of that base only; `BaseDeletesBatch` has two bases.
Deadlock is checked where something can always happen (players always come and go in `RestartQueue`), and not in
`SingleFlight`, `BaseDeletes`, `MapServers` and `Autoscaler`, which stop when all their bounds are used up.

The properties worth reading first:

- `QueueExclusion`: the answer of `canQueue` still holds when a request that awaited something appends.
- `NeverRefiredAfterCrash` with `NoSilentDrop`: the two sides of recovery.
- `NoEarlyRestart`: an early restart needs a moment *within that tick* at which its target had no player; a failed
  or wrong-scope count is none.
- `NoOverlap`, `Serial`: the single-flight guard, wedged passes included.
- `NoRequestLost`: an entry is in the file until something is known to have become of it.
- `GivesUpHonestly`: neither transient errors nor a base that is picked up use up the attempts.
- `PassDeletesAfterDisconnect`: an observation made before the pass turned to the entry does not count. That the map
  is *still* down at the delete is not so, see below.
- `BackstopHolds`: the product of two limits that two components keep in two files, one of which resets whenever an entry is replaced.
- `FreezeHolds`: the checks of three writers against the requests of a fourth, over their awaits.
- `KeepsPromise`: the refinement, repeats, overlapping ticks, crashes and an uninstall included.
- `LimitsAddUp`: nobody at work, and nothing that is known to upset it, and still the sum is what is configured, and each limit when it is off.
- `FirstOnlineOnce`, `ReturnKitOnce`, `Welcomed`, `ReturnHonoured`: twice or never, with every exception named.
- `PortsDistinct`, `BindingsLive`: two servers with one port, or a binding to a server that is gone, follow from the named steps only: what a step excuses is recorded
  when it is taken, and a reservation that goes in any other way (`KeptReported`) is not excused.
- `NoneStranded`, at the step that removes the container, with `NoExcess` and `Served`: the two ways an autoscaler errs, and that it does its work.

**Fairness, and why the code justifies it.** `RestartQueue`: the 10 s interval calls the tick again and again, its
awaits are database and broker calls that answer or fail, a thread finishes its turn, the clock runs, and the container's
restart policy starts a console that died. There is none for players, requests or tasks.
`SingleFlight`: the event loop runs what is ready and timers fire; a pass ends unless it is the wedged one.
`BaseDeletes`: the 5 s poller, the awaits of a pass, the timeout of a restart task and its own steps, time and the end of a connection
gap. There is none for map servers: `EveryRequestEnds` holds for a map that never comes down. A pass may hang (`PassHangs`) at
any of its awaits, and stays hung while the console lives, since the single-flight guard then lets no other pass begin:
`EveryRequestEnds` says so, and `RestartGoesOn` holds all the same.
`AutoRefill`: the intervals fire and the awaits of scan, pass and first check end; strong fairness for applying an entry, which the map coming up may
forestall. `Windows` assumes of the battlegroup that again and again a pass meets the map down with all that is queued: a map is restarted now and then, is down
for minutes, and a pass begins every 5 s. Without it nothing is ever written. There is none for toggles, requests, players or ageing.
`AddonDeliveries`: the interval fires, the event loop runs what is ready, an attempt ends (its commands have timeouts). There is none for
players or the addon: `EveryDeliverySettles` asks that the player stays reachable and the addon allowed from some time on, and that fewer deliveries
are open before this one than the ticks of one deferral can attempt.
`MemoryBalancer`: the interval, the reads and updates, which end or are given up; none for `ReadFails`, switches or use.
`CarePackage`: the automatic scan is started again and again, its steps and those of a grant end, compaction ends. None for moves.
`Autoscaler`: both loops run, a container that was started reports, a server that is gone is noticed, the Director logs its queue again while
somebody waits, and a party that was admitted connects. Strong fairness for `Allocates`: the Director admits a party if an empty dimension is there again and
again; the scan may take it away in between. There is none for crashes, expiry, leaving or asking.
`MapServers` has none, and no liveness property: a spawn that gets no lock or no port gives up, and so says its exit status.

`TypeOK` of `MemoryBalancer` and `MapServers` is proved (section 5) and holds on the same instances, as do those of `Autoscaler` and `AutoRefill`; these four are in
no run.

Each property of a passing run has a mutant in `PROJECT.json`: a plausible bug, written beside the definition it
replaces (`CanQueueUnderBattlegroup`, `BehindItself`, `ProcessedBase`, …), that the run refutes.

## 4. Where the code and its documentation part

The models have the following behaviours. The properties are worded so as to allow them, and no run is spent on them.

*Restart Queue and guard*

- A countdown cancelled while a tick awaits is executed by that tick, which looks at its copy only (`server.js:5321`;
  `docs/console/restart-queue.md:215`: "Cancel one active countdown").
- The console dies between a broadcast and its record, and the warning goes out again; hence the `1 + crashes` of `OneWarningPerLife`,
  where the comment at `restartQueue.js:332` says never.
- The console dies between the write-ahead marker and the task, and recovery clears the entry: the restart never runs. This is what `dead`
  stands for in `NoSilentDrop`; `docs/console/restart-queue.md:185` says that recovery prevents it.
- An entry leaves the file as its task is created, so that a battlegroup countdown is accepted while a map restarts; and two operations
  on one map (`experimentalTanksApply`, a restart of the Survival service) have different map keys and are queued together.
  `QueueExclusion` is the rule that the code keeps, over countdowns and keys.
- The bounded wait of a `forceFresh` caller is followed by an unbounded one, behind a caller that waited for the same pass
  (`singleFlight.js:46`, where lines 18-20 say that a caller throws on timeout). `EveryCallReturns` asks that no pass is wedged.

*Base deletes*

- A pass that its restart gave up on deletes on a map that came up during the pass's safety backup (`duneDb.js:13133`; `withTimeout.js:10-13`
  says that every queue observes again per entry, which it does, before the backup).
- A pass applies the reservation of a request that is still being resolved, whose partition 0 counts as safe (`duneDb.js:12695`;
  `server.js:6533-6535` says that the placeholder is replaced or removed), on a live map too.
- A base that was redeployed on another partition after its delete was queued is deleted when the old partition is down and the new one live:
  `entryWriteSafe` looks at the partition recorded with the request (`duneDb.js:12713`; the comment above it calls a write to a live map
  "the one thing these queues exist to avoid"). With several `Sites` per base the model shows it in a second.
- A dwell timer outlives a reconnection that nobody observed, and the next gap of seconds counts as a stopped map
  (`duneDb.js:12680`; the comment at 12613 says that the gap's persistence tells the two apart).
- A delete request that repeats one and fails takes the queued entry with it (`RouteReserves` replaces the entry and `RouteFails` withdraws what
  it finds), and a queued delete cancelled during a pass's backup is applied by that pass. `NoRequestLost` counts the former as a known ending and
  says nothing of the latter.

*Refills*

- A base is stalled after three refills that *helped*, if it is low again at each scan: only a scan that finds it healthy resets the count
  (`autoRefillWater.js:316`; `docs/operator-guide.md:158` speaks of a base that "stays low"). `strikes` counts what did not help, and is the lower of the two.
- A base switched off and on again during a scan is given the outcome that scan has for its earlier enrolment.
- A refill that asked about a queued delete before its await is queued all the same, and so is one a scan has decided on: `slipped`.
- An abort of a pass, or a crash, forgets the attempts made in it; a crash during a scan forgets that it queued. `BackstopHolds` does not count these.
- A reservation of a delete that a crash leaves behind freezes the base until a pass applies it.

*Addon deliveries and memory balancer*

- A delivery can wait for ever. A tick attempts the first 50 that are due, in the order of their keys (`addonDeliveries.js:11`, 144-145, 170), every 10 s, and one whose
  player is away is due again after 30 s (`:9`, 166): behind some 150 of them, of any addon, nothing is attempted, whoever is online.
  `docs/addons/addon-runtime-api.md:153` says "Offline deliveries remain `pending` and the Console retries them in the background". Hence the bound in
  `EveryDeliverySettles`.
- An attempt that outlives the uninstall of its addon writes the record back; no tick of this life of the console finds it (`revived`).
- A delivery that arrived and threw after that is told as *failed*: at most once, never exactly once.
- The target is given its gigabyte before the donor's is taken, so that for the time between the two, and for good if the second fails,
  memory has been created; `MapsPanel.tsx:2303` says of the balancer "It does not create additional memory."
- A tick that asks for fresh rows can be handed a read that began before its own last move, and moves on from limits that are no longer so.
- Switched off during a tick, the limits are restored and the tick then moves a gigabyte; nothing restores them again.

*Care Package*

- A pending return is cleared when the grant for it returns, and a delivery that failed returns as well: the player is not offered the kit again.
- Two scans at once can both deliver the kit for a return, which has no claim; and the one that ends last writes back the pending returns it read first.
- A delivery that cannot be verified counts as none: the claim is released and the kit may be delivered again.
- A single grant of any kit is recorded with the configuration's `grantWhen`, and so stands for the first-online kit.
- Clearing the history forgets which returns were honoured, unless compaction has made receipts of them; first-online claims stay.

*Map servers and autoscaler*

- Two servers can be given one port. A spawn drops the reservation of every partition without a container: also of one whose spawn is about to run it. The exit trap of a
  failed spawn releases the reservation of a container that may be running, and writes the file without the lock, over what was reserved since it was read. A despawn
  releases that of a container started since its `docker rm`, and a new spawn that of the container it has not replaced yet. These are the exceptions of `PortsDistinct`.
- A despawn and a spawn of one partition know nothing of each other; the row a spawn has read before it took its lock may be old; the
  reconciler may bind one partition's server to another.
- On maps with fresh processes two parties who ask while neither is connected yet are counted alike, and one server is started for both: hence `fresh` in `Served`.
- A spawn is awaited for longer than the 30 s of the log that are read: requests logged meanwhile are missed. On the other maps a summary follows.
- A despawn that cannot clean its row leaves a dead server that is counted as capacity (`stale` in `Served`).
- A dimension is despawned under a party: its request was not answered yet; or its demand was remembered, and it was sent there, between the scan's decision
  (`autoscaler.sh:2146`) and `docker rm`, since `despawn-server.sh` does not look again; or the hold on the map had ended, with the first connection
  to *any* of its dimensions (fresh ones only), after two minutes, or because another map's row was forgotten at the same moment. These are the exceptions of `NoneStranded`.
- A request is answered by the number of its players, not of parties (`NoExcess` counts players, too), where the comment at `autoscaler.sh:2047` speaks of
  one dimension for a new request.

## 5. What is proved

The eight proof modules prove the following with TLAPS for every value of the constants: any number of map keys, partitions, bases, clients, requests, callers,
passes, overlapping ticks, players, scans, servers, ports and crashes. The assumptions are the named `ASSUME`s. Those that say more than that a bound is a natural number:
the battlegroup is not a map key, and scopes are sets of partitions; `None` is not a base and `Nobody` not a player; the bases whose delete is queued at first
(`BacklogAssumption`) are finitely many, numbered from 1 in the order of their requests, each number given once; there are finitely many map servers, each with a limit; a scan is the automatic or the manual one.

| Module | Theorem | Statement | Argument |
|---|---|---|---|
| `RestartQueueProofs` | `TypeCorrect` | `Spec => []TypeOK` | inductive as it stands; one lemma per operator of the file, one step per action |
| | `Exclusion` | `Spec => []QueueExclusion` | only the gate adds an entry or gives one a target (`StepShrinksFile`), and `canQueue` is evaluated in the step that appends |
| | `NothingDropsSilently` | `Spec => []NoSilentDrop` | a conjunct of `RecoveryInv` |
| | `RecoveryNeverRefires` | `Spec => NeverRefiredAfterCrash` | from `RecoveryInv`: a dead id is in no tick's copy, not executing and, while the console is up, not in the file |
| | `WarnsOncePerLife` | `Spec => []OneWarningPerLife` | what the tick's copy may still send was not sent in this life |
| | `TickNeverEarly` | `Spec => NoEarlyRestart` | a count that let the tick run an entry was made in that tick |
| `SingleFlightProofs` | `Chained` | `Spec => []ChainInv` | inductive |
| | `PassesNeverOverlap` | `Spec => []NoOverlap` | from `ChainInv` |
| | `TickNeverWaits` | `Spec => []PlainNeverWaits` | from `ChainInv`, and that what has settled stays so |
| | `ImplementsSerialPasses` | `Spec => Serial` | each step maps to a step of `SerialPasses` or a stutter, under `ChainInv` |
| `BaseDeletesProofs` | `DeleteTypes` | `Spec => []TypeOK` | inductive with `Types`; window, file, route, pass and restart apart |
| | `DeleteNoRequestLost` | `Spec => []NoRequestLost` | from `DeleteInv` |
| | `DeleteGivesUpHonestly` | `Spec => []GivesUpHonestly` | from `DeleteInv` |
| | `DeletesAfterDisconnect` | `Spec => PassDeletesAfterDisconnect` | `SeenOK`: past its probe, a pass has seen the partition of its entry, or that entry has none |
| `AutoRefillProofs` | `StrikesAreCapped` | `Spec => []BackstopHolds` | from `Back`, the account of a base's load |
| | `DeletesFreezeRefills` | `Spec => []FreezeHolds` | `Freeze`: anything at hand for a base whose delete is queued was noted as the delete came |
| | `SwitchStands` | `Spec => []LastWordHolds` | with `Forgotten`: a scan takes off the list only who is gone |
| `AddonDeliveriesProofs` | `DeliveryTypes` | `Spec => []TypeOK` | inductive; one lemma per conjunct |
| | `DeliveriesFound` | `Spec => []NobodyForgotten` | with `AttemptSound`: a record is open where nobody looks only if an attempt wrote it after an uninstall |
| | `DeliversAtMostOnce` | `Spec => KeepsPromise` | each step maps to a step of `AtMostOnce` or a stutter, under `IInv` |
| `MemoryBalancerProofs` | `MovesNothingAway` | `Spec => []LimitsAddUp` | from `Undisturbed`; `OneMore` and `OneLess` for the sum |
| | `BalancerTypes` | `Spec => []TypeOK` | inductive with `Types`: rows that somebody looks at are those of a read |
| `CarePackageProofs` | `FirstOnlineClaimed` | `Spec => []FirstOnlineOnce` | from `Claims` |
| | `ReturnGivenOnce` | `Spec => []ReturnKitOnce` | from `Returns`; `KnownAppends` and `KnownKept` for the history |
| | `CareTypes` | `Spec => []TypeOK` | with `StoreOK` and `JobPlayers` |
| `MapServersProofs` | `ServerTypes` | `Spec => []TypeOK` | inductive with `Types` |
| | `ServerBoundOnce` | `Spec => []BoundOnce` | a server is bound where it was alive and unassigned |
| | `PortsGivenOnce` | `Spec => []PortsDistinct` | from `PortInv`: nothing but the steps named gives a reservation up (`KeptPorts`), and a spawn picks no port of those that stand (`ReservesOne`) |
| | `BindingsKnown` | `Spec => []BindingsLive` | from `SpawnInv` and `PortInv` |

The inductive invariants, and why the properties do not do by themselves:

- `RecoveryInv`. Neither recovery property says why an id that was dispatched cannot come back: that takes that ids are used once (all ids met are below
  `nextId`), that an entry leaves the file in the step that creates its task, and that what a crash makes dead is in the file only with the status
  *restarting*, which `Boot` drops.
- `ChainInv` says that a pass is chained directly behind the one made before it, or was made when all had settled. Without its second half a pass that
  starts at once could start over one still queued.
- `DeleteInv` adds `Entries`: every entry, in the file as in the copy of a pass, has attempts left and each of its attempts is a failure that was counted for its
  stamp (`Sound`); a decision to remove an entry has its reason, and the attempts it writes back are counted ones. Without it a pass could be thought to give an entry up
  for failures that never happened.
- `Back` is an account. The load of a base is what was written to it in vain, less what the scan has not recorded, plus the attempts that are still left to an
  entry a scan queued, and to a pass that holds an entry no longer in the file. It never exceeds what the base's recorded count allows (`Cap`), and once a scan counts one
  refill more it may exceed it by one entry's worth at most, until the scan writes its counts back. Neither file alone bounds anything: an entry that is replaced starts its attempts anew.
- `AttemptSound` ties what is in memory to what is on disk: an attempt under way has its record in *processing* or none, and has handed over once or not at all as its
  stage says. Without it an attempt could start on a reward that has arrived.
- `Undisturbed`: as long as nothing has upset them, a tick is at work only while the balancer is on and nothing is restored (`TickAlone`), the rows it goes by are the
  limits as they are (`RowsCurrent`) and so is the move it made of them (`MoveCurrent`); the sum is one more between its two updates (`AddsUp`). What a restore has still to
  set is what is configured, and the rest is set (`RestoresConfigured`). `LimitsAddUp` looks at the moments when nobody is at work, which are reached through those when somebody is.
  The sum of a function over a set is a recursive definition, of which the prover knows nothing; `Total` therefore counts gigabytes, as the elements of a set.
- `Claims`: a grant under way holds a claim (`HoldsClaim`), it is the only one for its player (`HoldsAlone`), nothing was delivered before it (`NothingBefore`), and the
  claim of what was delivered stays (`ClaimStays`). A history that is cleared, slides or is compacted plays no part in it.
- `Returns`: the kit for a return has no claim, and the history is all that tells of it. Unless something excuses it, one scan is at a grant for a player (`SeenAlone`), none
  was made before it delivers (`SeenFirst`), and what was given is known from the receipts or the newest rows, or is about to be recorded (`SeenKnown`). Compaction publishes the
  receipts of what it drops, so that only a row that slides out before, or a clearing, makes a grant unknown.
- `SpawnInv`: scripts that hold a partition's lock exclude each other (`Mutex`), and a binding that is older than the spawn is known as such (`AstrayKnown`).
- `PortInv`: who has not lost its reservation in one of the named steps still has it in the file, for the port it runs on (`BoxKept` for servers, `PortKept` for spawns), and the
  reservations that stand in this sense are of different ports (`ReservedOnce`). `PortsDistinct` speaks of servers only; a port is given to the spawn before there is one, and
  between the two the histories say whether the reservation is still there.

Two of the proofs changed a model. `BackstopHolds` did not follow for a base that is switched off and on again during the scan that had just queued a refill for it: the entry
outlives the switch, and when a crash took the scan, the bookkeeping gave back an attempt that the fresh enrolment had never been charged for. `TogglesOn` now ends the scan's account of that
base (a history variable; what the code does is as it was). And `BaseDeletes` needed `BacklogAssumption` to say that what is queued at first has stamps that were given out. Each
inductive invariant was checked by TLC on the instance of its run, or a smaller one, before it was proved.

Only model-checked:

- Liveness (`EveryCountdownEnds`, `EveryCallReturns`, `EveryRequestEnds`, `RestartGoesOn`, `EveryDeliverySettles`, `HotMapServed`, `BalancerSettles`, `Welcomed`,
  `ReturnHonoured`, `Served`, `EveryBaseSettles`), which is beyond the prover.
- `NoneStranded` and `NoExcess` of `Autoscaler`, whose demand is spread over the Director's log, a file and the copies of it that two loops hold: no inductive invariant has been
  worked out for them.

## 6. What is not modelled, and the plan

Not modelled: SQL and the game's schema, message texts, authentication, presentation, schedules and updates, the orchestrator (section 1).
Torn writes of JSON files are below the model. Of the 121,000 lines of the implementation most are queries, views, translations and adapters with no state
of their own between two requests; the modules cover the parts that keep one.

Left out of the components that are modelled in part: the Deep Desert and Hagga handoffs, story returns, prewarming and the healing scans of the autoscaler (each
reads the Director's log for other lines and sends its own commands); instance partitions that cannot be prepared; the identities of a player and several rules
of a kind in the Care Package.

The order of the work, most important first:

1. *Done:* `RestartQueue`; `SingleFlight` over `SerialPasses`; `WriteWindow`; `BaseDeletes` over it; `AutoRefill`; `AddonDeliveries` over `AtMostOnce`;
   `MemoryBalancer`; `CarePackage`; `MapServers`; `Autoscaler`.
2. *Done:* proofs of every safety property that a run checks, but for those of `Autoscaler`.
3. The permission and vehicle queues where they differ from base deletes and refills (blocked states, stale pieces), and the caps of the queues.
4. Smaller ones: shared reads and their invalidation, Discord nonces.
