# Beast Market Terminal: TLA+ specification, model checking and proofs

These modules specify the backend of the Beast Market Terminal
(`backend/beast_market`), a Hong Kong market-data service: one in-process
runtime per stock symbol, fed by xtquant callbacks and historical files and
served to trader terminals over WebSocket. Paths below are relative to
`src/backend/beast_market/` unless they start with `docs/` or `market-terminal/`.

Contents: 1 the system, 2 the modules, 3 runs, 4 findings, 5 fairness, 6 proofs,
7 abstractions and limits, 8 plan.

## 1. The system

### Threads

Two kinds of threads meet in one process. The *event loop* runs the supervisor
(`app_runtime.py`, `tick_once`: ingest, process raw events, broadcast, check
freshness, evict) and the connection handlers (`websocket_server.py`). Every
client request runs on a *worker thread* (`asyncio.to_thread(handle_message)`),
at most one per connection; xtquant callbacks arrive on vendor threads and only
append to a sink. Almost all shared state is guarded by the manager's condition
or by nothing at all, and the hooks, loaders and Redis sinks are called with the
lock released: this is where the behaviour is hard.

### Components

| component | state | operations | interacts with | hard behaviour |
|---|---|---|---|---|
| Symbol runtime manager, `symbol_runtime.py` | runtimes (state, subscribers, payload, degraded reasons, eviction clock, realtime flag), reserved hydration keys, active-hydration counter | attach, detach, activate, deactivate, seed, apply, apply_raw_event, retain, evict_expired | loader, attach/release hooks, Redis sinks, active pool | two-phase calls with unlocked gaps, singleflight, failure of any hook, eviction racing attach |
| Gateway sessions, `gateway_transport.py`, `websocket_server.py` | sessions, their subscribed and attached symbols, connections | connect, disconnect, subscribe, unsubscribe, broadcast, flush | runtime manager, client queue | disconnect while a request is in flight, fast path that checks and then retains |
| Client queue, `gateway.py` | bounded deque, statistics | enqueue, drain | sessions (any thread) | coalescing and priorities at the limit |
| Raw queue, buses, spools, `adapters.py`, `production_adapters.py` | bounded queue, event logs, offsets, spool files | publish, poll, commit, replay, coalesce | Kafka, disk | outage, replay, duplicates, restart |
| Workers and subscription manager, `runtime.py` | ingest queue, consumer position, dead letters, subscribed symbols, cooldowns | submit, poll_and_process, commit, subscribe, resubscribe | buses, xtquant client, freshness | crash between processing and commit; half-done resubscription |
| Freshness, `freshness.py` | per stream subscription and last event | subscribe, record, evaluate | collector | stale streams, missing market data |
| Active pool, `active_pool.py` | base, manual, temporary and pinned symbols | rebuild, note_query, pin, unpin, release | runtime manager, operations | limits and order of eviction |
| Supervisor, `app_runtime.py` | lifecycle, effective dates, process offsets | start, stop, tick_once, recovery | everything | start-up failure, tick order, recovery and dedupe |
| Pipeline, `pipeline.py` | per-symbol state and sequence numbers | ingest_event, process_raw_event, to_terminal_messages | buses, cache | two sources of sequence numbers; state changed before a publish that may fail |
| Runtime state store, `runtime_state.py` | per-day JSONL files | append, load, clear, prune | supervisor | crash during append, pruning |
| xtquant client, `xtquant_client.py` | reference-counted subscriptions, callback sink | start, subscribe, unsubscribe, drain | vendor library | callbacks while stopping |
| Frontend data source, `market-terminal/src/services/webSocketDataSource.ts` | socket, subscriptions, pending requests, backoff | connect, subscribe, unsubscribe, disconnect | gateway | reconnect and restore, unanswered requests |
| Frontend store, `market-terminal/src/stores/market.ts` | per-symbol view state | apply message | data source | out-of-order and repeated messages |
| Operations, `ops.py`, `ops_cli.py`, `shadow_run.py` | evidence files, shadow session files, spool | prepare, import, finalize, package, record, replay, cache clearing | files the backend rewrites at the same time | commands interrupted between two files, any order of commands |
| Cutover and evidence, `cutover.py` | none (files) | report, readiness, health, frontend, decommission, retirement, bundle | operations, runtime health | long gate conditions over files of different ages |
| Historical access, contracts, `mammoth_api.py`, `contracts.py` | none | read, validate | files | none |
| Tools and infrastructure, `tools/`, `infra/` | smoke health file | real_data_runner, export, watchdog and restart scripts | runtime, smoke directory | last health file of a stopping process |

### What makes each component correct

* *Runtime manager*: at most one hydration per symbol and never more than the
  configured number; no reservation is leaked by a failure; a runtime a client
  holds is not evicted; an abandoned one is; the realtime flag tells the truth
  about the upstream subscription; a snapshot once there is not lost.
* *Sessions*: a session's belief about what it has attached agrees with the
  manager's reference counts; every request is answered; a gone client holds
  nothing.
* *Client queue*: bounded; alerts and snapshots outlive normal deltas.
* *Buses and workers*: nothing accepted is lost but by the end of the process that
  held it; a committed offset covers nothing that nobody handled; a trade is counted
  once.
* *Freshness and subscriptions*: one upstream subscription per watched stream; a
  stale stream is subscribed again and never forgotten.
* *Pipeline and recovery*: a confirmed bar is the bar of the exchange; no chart of
  another day; what clients see survives a crash.
* *Active pool*: bounded, pinned symbols stay, evicted ones are released.
* *Cutover and smoke evidence*: what passes a gate was really so at the time the gate
  says, whoever rewrote a file in between; what one command made the next gate takes.
* *Frontend*: after a reconnect every wanted symbol is subscribed again.

The hazards behind these, each at its line, are in `PROJECT.json`.

## 2. The modules

| module | models | composed with |
|---|---|---|
| `SymbolRuntime` | `symbol_runtime.py` with the hydration service and the realtime hooks | |
| `HydrationSlots` | the abstract promise of hydration: a pool of slots | implemented by `SymbolRuntime` |
| `GatewaySessions` | sessions, WebSocket lifecycle, start-up and ticks as callers of the manager | EXTENDS `SymbolRuntime` |
| `SymbolRuntimeProofs` | theorems about `SymbolRuntime` | EXTENDS it |
| `GatewaySessionsProofs` | theorems about `GatewaySessions` | EXTENDS it and `SymbolRuntimeProofs` |
| `GatewayClientQueue` | `gateway.py` and its use by one client: tick, broadcast, requests, flushes, sends | |
| `GatewayClientQueueProofs` | theorems about `GatewayClientQueue` | EXTENDS it |
| `RawEventPath` | a callback's way through raw queue, publisher, spool, topic, consumer and day files, with the spool replay of `ops.py` | implements `EventLedger` |
| `EventLedger` | the abstract promise of that way: where a callback may be and where it may go | |
| `RawEventPathProofs` | theorems about `RawEventPath`, the refinement included | EXTENDS it |
| `UpstreamFeed` | `xtquant_client.py`, the subscription manager of `runtime.py`, `freshness.py`, and who calls them | |
| `UpstreamFeedProofs` | theorems about `UpstreamFeed` | EXTENDS it |
| `MarketState` | chart, alerts and books of a symbol in `pipeline.py`, the runtime and Redis; start, recovery, seeds of `app_runtime.py` | |
| `MarketStateProofs` | theorems about `MarketState` | EXTENDS it |
| `Cutover` | shadow session, reports, readiness and evidence bundle: `shadow_run.py`, `cutover.py` | |
| `CutoverProofs` | theorems about `Cutover` | EXTENDS it |
| `SmokeEvidence` | the smoke run: `ops.py`, `real_data_runner.py` and the verifier in `cutover.py` | |
| `SmokeEvidenceProofs` | theorems about `SmokeEvidence` | EXTENDS it |
| `MCSymbolRuntime`, `MCGatewaySessions`, `MCSmokeEvidence`, `MCMarketState` | symmetry sets for TLC | |

The modules meet at the boundaries of the code. `RawEventPath` says which events
reach a symbol's state, how often and in which order; `MarketState` says what a
state does with them. `SymbolRuntime` says when the attach and release hooks are
called and takes their result as an input; `UpstreamFeed` says what the hooks do at
the SDK. `Cutover` takes the counters of the running backend as faults that
happen or do not.

### SymbolRuntime

A thread of the model is a client's worker thread or the event loop. `pc[t]` is
the place between two locked sections where the thread stands, `job[t]` its
locals (`runtime`, `was_unreferenced`, `was_subscribed`, the continuation after
a sink write). One action is one `with self._condition` block, or one call made
with the lock released (hook, loader, sink). `runtimes` is the dictionary;
`heap` holds the runtime *objects*, because a call keeps its local `runtime` after
an eviction has deleted the entry and a later `setdefault` has put a new object
in its place. An object nobody refers to is collected (`Return`).

| code | actions |
|---|---|
| `attach` | `Attach`, hydration, `LeaveEvicting`, `AttachCheck`, `HookAttaches`/`HookSkips`/`HookFails`, `MarkAttached`, `Reply`, `PoolEvicts`/`PoolUnchanged`, `AttachFailed` |
| `activate_symbol` | `Activate`, then as `attach` |
| `_ensure_hydrated`, `_hydrate_once` | `EnsureHydrated`, `HydrateJoin`, `HydrateJoined`, `HydrateNotCold`, `HydrateRejected`, `HydrateStart`, `HydrateFinish` |
| `HistoricalHydrationService.hydrate` | `ServiceEnter`, `LoaderSeeds`, `LoaderReturns`, `ServiceLeave` |
| `apply_raw_event` | `RawEvent`, hydration, `RawRead`, `RawApply` |
| `evict_expired` | `EvictCheck`, `ReleaseNotAttached`/`HookReleases`/`ReleaseFails`, `ClearAttached`, `EvictDelete` |
| `detach`, `deactivate_symbol`, `seed_snapshot`, `apply_*`, `retain_existing_runtime` | `Detach`, `Deactivate`, `SeedSnapshot`, `Apply`, `Retain` |
| `_publish_state`, `_publish_snapshot` | `SinkWrites`, `SinkFails` |

### GatewaySessions

Adds the session's sets and the request a worker serves, and restricts the calls
to those the gateway makes: requests of one client are served one at a time, the
event loop connects, disconnects, applies raw events and evicts, and a broadcast
whose send fails disconnects a session with a request in flight. Start-up seeds
the pool, activates it and seeds it again before the service accepts anyone. Each
step is a manager step or leaves the manager alone.

### GatewayClientQueue

Follows one client's messages from the tick that makes them to the socket. The
deque has no lock and two threads: the event loop enqueues deltas and drains, the
worker thread of the client's request enqueues responses. So `enqueue` is cut
into one action for each place where it reads or writes the deque:

| code | actions |
|---|---|
| `_replace_latest`: `self.queue[index]`, `self.queue[index] = message` | `Search` (one index per step), `Replace` |
| the two `len(self.queue)` checks, `append` | `Check`, `Recheck`, `AppendMessage` |
| `_drop_one_non_alert`, `_drop_one_non_critical`: the loop, `del self.queue[index]` | `Scan`, `Delete` |
| `drain`, `flush` | `Pop`, `DrainEnd` |
| `tick_once`: events to messages, broadcast, `broadcast_once` | `TickStart`, `Publish`, `PublishEnd`, `Broadcast`, `BroadcastEnd` |
| `flush_client`, `_send` in two coroutines | `FlushStart`, `Send`, `SendFails` |
| `handle_client`, `handle_message` | `Ask`, `Join`, `Leave`, `Resume`, `Close` |

`index[t]` is what thread `t` has found and not used yet. `moved[t]` says that the
length of the queue has changed since: a CPython deque iterator raises then, an
index silently means another message. `pending[f]` is what a coroutine has drained and
not sent; coroutines run only while the loop is between its own steps
(`pc["loop"] = "free"`), the worker at any time. `spoiled` remembers that a stale
index was used, that two coroutines held messages at once, or that an alert or a
response was lost to the bound, so that each property says under which of these
it still holds. `shown` and `wire` are what the client has made of what it got.

### RawEventPath and EventLedger

| code | actions |
|---|---|
| `BoundedRawEventQueue.push`, `_reject` of the sink (SDK thread) | `ReceiveCallback` (`Push`, `Reject`) |
| `BoundedRawEventQueue.pop`, `IngestWorker.drain_once` | `DrainOnce` |
| `ReliableEventBus.publish`, `_spool`, Kafka `publish` and its delivery timeout | `Publish`: `Acknowledged`, `Retry`, `GiveUp` |
| `tick_once`: ingested events, or a poll of the topic | `TakeIngested`, `Poll` |
| `process_events`, dead letters | `Process` |
| `commit`, `commit_processed_raw_events` | `Commit` |
| append to the day's files | `Persist` |
| end of the process; `start`, `recover_symbol_intraday` | `Crash`, `Restart` |
| `replay_kafka_spool` | `LoadSpool`, `ReplayRecord`, `ReplayDone`, `OperatorStops` |

A publish whose acknowledgement comes too late is in the topic and counts as failed:
its retry is a duplicate, its spooling a third copy. `PlaceOf` reads a callback's
place off the variables, what survives the process first; a callback that is nowhere is
"lost" only if the process that held it has ended. `NothingDropped` says that under that
mapping every step is a step of `EventLedger`.

### UpstreamFeed

A call on the manager is a record of the thread that runs it (`call[t]`): an
operation, the stage it has reached, the period. One action is one SDK call or one
update of the containers behind it.

| code | actions |
|---|---|
| `client.subscribe`, `subscribe_symbol` | `SubscribePeriod`, `Mark`, `Sync` |
| `client.unsubscribe`, `unsubscribe_symbol` | `UnsubscribePeriod`, `MarkReleased`, `Sync` |
| `_resubscribe` | both, started by `Renew` |
| an SDK call that raises | `SdkRaises`, with what the callers make of it in `Raised` |
| `attach_symbol` as far as it reaches the hook, `detach_symbol` | `Attach`, `Detach` |
| `evict_expired` and the release hook | `Evict` |
| callback, `ingest_event`, `record_event` | `Deliver`, `Ingest` |
| ages, cooldown | `Age`, `CoolDown` |
| `record_queue_backlog`, "queue_backlog_exceeded" | `RecordBacklog` in `Deliver` and `Ingest`, `HeldBack` |
| `evaluate`, `check_freshness_and_resubscribe` | `BeginEvaluate`, `EndEvaluate`, `Renew` |
| `start`, `stop` | `Connect`, `StartSymbol`, `GoLive`, `Stop` |

`evaluate` and `_sync_freshness_health` iterate over a dictionary other threads add
keys to. The keys at the start are remembered; if they have changed at the end, the
iteration has raised. `backlogged` are the streams whose recorded backlog is over the
limit: a stream's number changes with an event of its symbol only, and a symbol with such a
stream is not renewed.

### MarketState

Three copies of one symbol's state: `octopus`, `snapshot`, `cache`. After
`seed_snapshot` the first two are one Python object, after `apply_processed_events`
they are two; `aliased` says which. A bar counts how often each trade is in it, so a
trade that is missing or counted twice is seen without prices and volumes.

| code | actions and operators |
|---|---|
| `apply_tick_to_state`, `upsert_minute_bar`, big-trade alert | `ProcessTick`, `AppliedTick` |
| `apply_minute_bar_to_state`, `is_current_or_future_minute_bar` | `ProcessBar`, `AppliedBar`, `Unclosed` |
| broker queue and L2 | `ProcessBook`, `AppliedBook` |
| `rollover_realtime_session`, `promote_snapshot_to_realtime_session` | `RolledOver`, `Promoted` |
| `_cache_set_terminal_snapshot`, `merge_existing_minute_bars` | `Stored`, `Merged` |
| `start`, `startup_cached_snapshot`, `recover_symbol_intraday` | `Start`, `Loaded`, `Recovered` |
| `hydrate_symbol_snapshot` of the first client | `Attach` |
| `_active_runtime_snapshot`, minute-bar backfill, full tick | `ClientSeed`, `Backfill`, `Publish`, `FullTick`, `Copy`, `Seeded` |

### Cutover

The runtime and legacy run over a few units of time, each with one event of the
exchange; every evidence file is a variable, every command that writes one an action
that may run at any time and as often as it likes. `hurt` remembers when v2 was down
or lost an event or a write: what the bundle has to find out from the files alone. A failed
hydration loses neither, and its counter goes with the runtime that `evict_expired` deletes.

| code | actions and operators |
|---|---|
| `ShadowRunRecorder`, `record_v2_runtime_tick` | `StartRecording`, `Handle` |
| `evict_expired` of a runtime with failed hydrations | `Evict` |
| `import-legacy` | `ImportLegacy`, `Imported` |
| `finalize`: `build_shadow_run_report`, `evaluate_cutover_readiness`, env file | `SaveReport`, `WriteReadiness`, `WriteEnv`, `FinalizeFails` |
| `build_runtime_health_snapshot`, `evaluate_runtime_health` | `WriteHealth`, `HealthSnapshot` and its `...Clean` parts |
| `evaluate_frontend_deployment`, `evaluate_legacy_decommission`, `evaluate_legacy_retirement` | `VerifyFrontend`, `ObserveLegacy`, `Retire` |
| `evaluate_evidence_bundle` | `BundlePasses` and its parts |

### SmokeEvidence

| code | actions and operators |
|---|---|
| `run_service` and its health file, SIGTERM, SIGKILL | `BackendStarts`, `BackendReports`, `BackendStops`, `BackendEnds`, `BackendKilled` |
| `prepare`, service probe, import of exports, workflow record | `Prepare`, `VerifyServices`, `Import`, `RecordWorkflow` |
| `finalize`: observation, evidence, manifest | `FinalizeStarts`, `FinalizeJudges`, `FinalizeLists` |
| package: validation, zip, description | `PackageStarts`, `PackageZips`, `PackageDescribes` |
| a command stopped between two files | `Interrupted` |
| `evaluate_multi_trader_smoke` | `Observation`, `SmokePasses` and its parts |
| a file copied below `clients/` without the import command | `CopyByHand` |
| what the package command asks | `MayPackage`, `ImportsCover`, `PackagePreflightClean`, `ManifestFresh` |
| the bundle's check of a packaged run | `BundleAccepts`, `PackedImportsCover`, `PackedPreflightClean`, `PackedManifestMatches` |

A hash is kept as a fact: `listed` are the names whose file is still the one the
manifest hashed, `same` what in the directory is still as it is in the zip. The time of an
observation is an argument of the command, so it may lie before or after anything in the
directory. The package command and the bundle's verifier are two validators: the first
counts the valid exports that lie in `clients/` and `performance/` themselves and looks at
no time, the second every JSON file below them in the zip and the time of the probe.

## 3. Runs

| run | question | bounds |
|---|---|---|
| `manager_capacity` | do reservation set, counter and threads agree, and is every step one of the slot pool? | 2 symbols, a client and the loop, 1 slot of capacity |
| `manager_races` | singleflight, eviction clock, references against EVICTING, snapshots, under every interleaving and failure | 1 symbol, a client and the loop, all nine calls |
| `sessions_safety` | do sessions and reference counts agree while two clients come and go? | 2 clients, 1 symbol |
| `sessions_eviction` | liveness: abandoned runtimes are evicted, requests are answered | 1 client, 1 symbol, start-up included |
| `client_queue` | bound, order, alerts and snapshot of one client, under every interleaving of worker, loop and flushes | 1 symbol, queue of 2, 3 deltas, 2 requests of all four kinds |
| `client_queue_two` | does coalescing keep symbols apart, what makes a delta go, is the queue drained and the client served again? | 2 symbols, queue of 2, 2 deltas each, 2 requests |
| `raw_events` | is a callback lost, counted twice, or covered by an offset nobody has earned? Is the queue drained? | 3 callbacks (2 where the topic is polled), queue, tick and poll of 2, 1 retry, 1 crash, 1 replay |
| `upstream` | do SDK, client, manager and tracker agree? Does a cut stream come back? | 1 symbol of 2 periods, 2 clients and the loop, 1 failing call, 1 period whose backlog may be over the limit |
| `upstream_failure` | finding, see section 4 | 1 symbol, no client |
| `market_state` | are confirmed bars exact, is the chart of today, does Redis have what clients see? | 2 minutes, 2 trades, one of them big, 2 sides of the book, 1 crash, 1 failing Redis call, 1 client seed |
| `cutover` | what does a passing bundle prove? | 1 session over 2 units of time, 2 policies, 3 kinds of fault |
| `smoke` | what does an accepted package prove, and is a made one accepted? | 2 machines, 2 times, 2 exports, 6 commands and copies by hand |

Why the bounds are enough.

*Manager and sessions.* A runtime's fields depend on its own symbol only;
symbols interact through the capacity counter and the pool evictions, so two
symbols, one over capacity, show every interaction. Two threads are enough for a
race on one runtime (one inside a gap, one that changes the state); two clients
with the loop, three threads, are used where one more actor changes the question
(references of a client against another's attach). `Slots` is the number of
objects a symbol may have at once: the current one and one a thread still holds.
A call that needs a third is not enabled until one is free; with two threads
there are never more than two held. Connections are not reused: a client id
is a fresh uuid, so a client that comes back is another client.

*Client queue.* A queue of two holds one message to drop and one to keep, three deltas are an old
and a new one of a kind and an alert between them, and two requests let the
second one's response meet the first one's flush. A queue of one has fewer cases:
nothing can stand behind or in front of an alert. The proofs cover every size.

*Raw events.* Three callbacks fill the queue of two and meet the refusal behind it, or
coalesce; one retry makes the duplicate, its failure the spool; a tick of two leaves a
rest for the next one; the one crash may come at each of the tick's steps and the replay
between it and the restart.

*Upstream.* Two periods let a call fail between them. Two clients let one attach
while the other holds or has just given up the symbol; symbols share nothing but the
tracker's dictionary, whose growth the period streams show. A failed call of one client, or
of the loop, is enough to cut a stream off. `Crowded` names the streams whose backlog may be
recorded over the limit: one period, whose record only its own events mend, is enough to
hold its symbol back.

*Market state.* A bar has two states that differ, before and after its minute; two
minutes let an event of the first arrive in the second and after it, two trades share
a minute or not, one seed of each kind overlaps with each event.

*Cutover.* The minimum duration is two units, so a session may be too short, long
enough, and hurt before, inside or after it. The faults are one that ends with its process
(a rejection), one that outlives it (a spooled record) and one that may go before it (a
failed hydration). A second session, the other faults (which end with their process), the
`hold` policy and unzoned times are parameters of the module and were left out of the
run for its size.

*Smoke.* Two machines are the minimum a run needs. One tick of the clock separates
before from after, two exports are one of each machine or two of one, and six commands are
one complete run (probe, import, workflow, finalize with package) and more to disturb it,
copies by hand among them.

Deadlock is checked in the manager runs. The others switch it off because their systems
stop: when every client has come and gone, when requests, deltas, callbacks, crashes or
commands are used up, when an error has ended the loop, or when the session's time is over.

## 4. Findings

The violation run checks one sentence of the documentation.

* `upstream_failure`: the guidance (`docs/terminal-runtime-architecture-guidance.md:268`)
  says that Kafka, Redis and xtquant failures degrade the affected symbols "without
  blocking unrelated symbols". `_resubscribe` (`runtime.py:159`) records the failure of
  the SDK call and raises it again; nothing between it and `run_supervised_runtime`
  catches it, so one failing renewal of one stale symbol ends the runtime of all.

### Other behaviour the models show

A reader of the documents may not expect the following. No run is kept for it;
the properties of the passing runs are stated so that they hold in spite of it. Names in
code type are properties kept in the modules that do not hold for the reason given.

Manager, sessions, client queue:

* `EvictedIsReleased`: after a failed release (`DEGRADED`, still attached), a
  second detach makes the runtime `EVICTING` again while `evict_expired` is
  between release and delete; the delete's re-check does not look at
  `realtime_attached`, so the runtime goes and the upstream subscription stays
  (`symbol_runtime.py:265`).
* `LiveMeansAttached`: `retain_existing_runtime` reads `realtime_attached` between
  the release hook and the write that clears the flag; the runtime becomes `LIVE`
  without a subscription and its subscriber waits for deltas that never come
  (`symbol_runtime.py:590`).
* `GoneIsReleased`: a session disconnected while its attach runs; the reference
  is taken afterwards and nobody gives it back (`gateway_transport.py:94`).
* `AbandonedIsEvicted` with degraded raw events: one of them during the grace period
  moves an abandoned runtime out of `EVICTING` for ever (`symbol_runtime.py:688`).
* A hydration that ends stores `WARM` or `DEGRADED` over whatever state the runtime has reached
  meanwhile, `EVICTING` included (`symbol_runtime.py:654`); eviction then leaves it alone.
  `Abandoned` excepts a symbol that is hydrating.
* `AlertsMonotonic`: the handler's flush and the tick's flush of the same client are
  both in a send; their messages reach the socket in turns (`websocket_server.py:102`).
* `LoopSurvives` of `GatewayClientQueue`: the worker deletes from the queue the loop is
  searching; the loop's `IndexError` or `RuntimeError` ends the runtime for every client
  (`gateway.py:76`).
* The fast path's retain may find the runtime gone: the client gets the snapshot and
  is subscribed to a symbol with no runtime (`gateway_transport.py:89`).
* A failed attach leaves an unreferenced runtime `DEGRADED`, which `evict_expired`
  skips, not `EVICTING` (`symbol_runtime.py:188`).
* An alert that meets a full queue drops the first message that is not an alert; that
  may be the client's snapshot (`gateway.py:84`).
* The loop has found the tick it will replace, the worker drops a message in front of
  it, the loop writes the new tick over an alert (`gateway.py:78`): the `"race"` of
  `AlertsKept`.
* A new tick takes the place of an old one and overtakes the alert queued between
  them, and snapshots and deltas of a symbol are numbered by two objects
  (`pipeline.py:1048`, `symbol_runtime.py:779`): so `KindInOrder` speaks of one kind.

Raw events:

* `SpoolKept`: a replay beside a running backend unlinks records that were spooled after
  it loaded the file (`ops.py:591`). The run replays while the backend is down.
* `OwnSession` (of `MarketState`): recovery at start replays the previous day's big trades
  into today's alerts (`app_runtime.py:1111`).
* A runtime that owns its path commits its old offset plus the number of events, failed
  ones included, and counts from 0 again after a restart; the polling path drops what it
  fetched beyond the tick's share (`records[:max_records]`). `OffsetCovered` holds of what
  that leaves at the broker.
* Polling again after a restart applies events to a state that has them already: so
  `TicksOnceInOrder` speaks of the runtime that owns its path.

Upstream:

* A subscribe that failed at its second period leaves the first one on; the next attach
  subscribes it twice. `client.unsubscribe` takes the handle before the call that may fail.
  So `ExactlyOnce` excepts symbols with a failed call.
* `evaluate` and `_sync_freshness_health` raise when another thread adds a stream
  meanwhile; a `WatchedIsSubscribed` symbol may so count as not attached.
* The period streams of a released symbol stay "on" in the tracker, age, and count as
  stale for ever; one quiet period renews all of a symbol's.
* A failed start leaves its subscriptions on at the SDK, and so does `stop`.
* A stream whose last recorded backlog was over the limit and that is then cut off gets no
  event to record a better one, and a symbol with such a stream is never renewed
  (`freshness.py:106`, `runtime.py:136`): the exception in `QuietIsRenewed`.

Market state:

* A late tick is merged into a bar that was already confirmed (`upsert_minute_bar`), and a
  half-grown bar that is processed after its minute has closed is taken as confirmed: the
  minutes in `late`.
* Events between the steps of a client's seed go to the snapshot only; the seed then
  replaces it by octopus' state without them: `overlapped`, and the exception in `Kept`.
* Of two bars of a minute a forming one in memory wins over a confirmed one in Redis.
* Replaying the previous day's minute bars at start rolls the state over and dates it, so
  that the intraday gap is not marked.

Cutover and smoke evidence:

* Times with and without a zone are never "before" each other, so the checks of their
  order are skipped: `zoned` in `RuntimeCovered` and `InOrder`.
* The bundle compares events by number: an import with `reset` may replace the content of
  what was reported. `LongEnough` excepts such sessions.
* A failed hydration is counted in the runtime of its symbol; `evict_expired` deletes it with
  its counter (`symbol_runtime.py:265`), so a later health file of the same process is clean
  again (`cutover.py:1968`). `RuntimeCovered` says nothing of it.
* An environment file is not compared with the frontend's evidence, and a decommission is
  not observed again after legacy was switched back on.
* A packaged health file may be later than the one that was judged, or failing: it is
  rewritten every two seconds. `JudgedIsPackaged` and `OneRun` say what holds of it.
* A stopping backend frees its port before it writes its last health file, which may so
  land on top of the next process's.
* An import stopped between copy and manifest leaves exports without an import run, and a
  machine that exports again is a duplicate of itself: in both cases that directory can
  never be packaged.
* The backend may write its health file between the package command's check and the zip, or
  a file may be copied then: the command reports success and the verifier refuses the
  package (`ops.py:2807`). `MadeIsAccepted` excepts a zip whose manifest was no longer fresh.
* `NoneWithoutImport`: the package command asks an import of the files directly in `clients/` and
  `performance/` (`glob`, `ops.py:3126`) and zips every file below the run (`rglob`,
  `ops.py:3273`): an export copied by hand into a subdirectory is packaged without the
  provenance that `BEAST_MARKET_TERMINAL_BACKEND_UPGRADE_PLAN.md:144` asks of "every recognizable
  frontend client/performance artifact under `clients/` or `performance/`". Only the bundle's
  verifier refuses it, when the run is over.
* Inspection says "handoff" with no zip, or an older one, in the directory.

## 5. Fairness

`SessionFairness` is weak fairness of each worker thread and of the loop (Python
threads and asyncio tasks are scheduled; a loader or hook that is called answers),
weak fairness of time for each running clock, and strong fairness of the eviction
check of each symbol: `tick_once` calls `evict_expired` on every tick and that
loops over all runtimes, so a candidate that is there again and again is taken.
Nothing forces a client to connect, ask, or leave.

`Fairness` of `GatewayClientQueue` is weak fairness of the worker thread and of a
tick that has begun, and strong fairness of `Resume` and of each coroutine's flush:
these can run only while the loop is between ticks, and asyncio resumes coroutines
that are ready in turn, so one that is ready again and again is resumed. A send
ends because `wait_for` bounds it. No tick has to start and no delta to come.

`FairSpec` of `RawEventPath` is weak fairness of the loop, which ticks as long as the
process runs (`run_supervised_runtime`), of the restart of a process that ended
(restart policy of the container) and of a replay that has begun.

`Fairness` of `UpstreamFeed` is weak fairness of every SDK call that is under way and of
the loop's way through its tick, strong fairness of the cooldown's end and of the age of
a stream without a subscription: both are clocks, which the loop reads only at its own
place in the tick. Nothing forces a call to fail, a client to come or go, an event to
arrive or a recorded backlog to shrink.

`MarketState`, `Cutover` and `SmokeEvidence` have safety properties only and assume
no fairness.

## 6. Proofs

`SymbolRuntimeProofs` holds, for every set of symbols, clients and slots, every
capacity, set of calls and set of outcomes:

* `TypeCorrect`: `Spec => []TypeOK`. The inductive invariant `IInv` adds to the
  types what a call's locals hold: a thread that is inside a call has a symbol,
  and unless it is about to return it has an object. Without that, `heap[job[t].obj]`
  says nothing. One lemma per way of writing the state (`PutRuntimeStores`,
  `SetMineStores`, ...) and per way of moving a thread (`GotoKeepsCalls`,
  `PublishKeepsCalls`, ...) keeps each action's step short.
* `SingleflightHolds`, `AccountingHolds`: from `SlotInv`, which counts the owners
  of a hydration three times (as the threads that stand in one, as the reserved
  keys, as the counter) and says a key has one owner. All actions but two leave
  ownership alone (`StepKeepsOwners`); `HydrateStart` adds one owner, key and
  count, `HydrateFinish` removes one. That the counter is not 0 when it is
  decremented is part of the argument: the clamp `max(0, ...)` in the code is
  never used.
* `HydrationRefines`: `Spec => HydrationIsSlots`, the refinement of
  `HydrationSlots` under `holds <- Held`.
* `EvictingMovesOnHolds`: `Spec => []EvictingMovesOn`. The property says that *some* attach
  revives a runtime that is referenced; `EvictInv` says which. A runtime is made `EVICTING`
  with no references and its clock running, so a reference it has later was taken by an attach
  since, and that attach is still on its way to the section that takes the object out of
  `EVICTING` (`Climbing`, `Reviver`).
* `SnapshotKeptHolds`: `Spec => SnapshotKept`, an action property: each write of a runtime's
  record is one of a few moves (`Moved`), none of which clears the snapshot of an object that
  stays in the table.

`GatewaySessionsProofs` holds for any number of symbols, clients and slots:

* `SessionsCallManager`: `SessionSpec => Spec`. Requests, start-up, ticks, broadcasts and
  disconnects only start and end calls of the manager, so every theorem of
  `SymbolRuntimeProofs` holds behind the gateway, and its invariants are used below.
* `SessionTypeCorrect`: types of sessions, requests and manager.
* `AttachedIsReferencedHolds`: `PathInv` says what a call's locals say at each place (which
  call stands there, whose object it has, that only the loop evicts), `SessionInv` which call
  each request has under way and that sessions exist only after start-up. `HoldInv` then makes the
  property inductive: not only what a session has attached is a reference held, but also what it
  has still to detach, what a retain has been answered, and what an attach under way has
  taken. An attach that fails gives its reference back; that this is never
  one the session already had is the conjunct on `fresh` references.
* `FlagIsBackedHolds`: `OneFirst` says that at most one attach of a symbol is the one that found it
  without references. So one thread at a time stands between the look at the flag and the
  write that raises it, and the flag is down while it stands there (`MarkOf`). Eviction calls the
  release hook only with the flag up, so it cannot take the subscription that such an
  attach has just made for the same object.

`GatewayClientQueueProofs` holds, for every set of symbols, `max_size`, set of delta
types and set of requests:

* `QueueTypeCorrect`: `Spec => []TypeOK`, from `TInv`, which states the types in three
  groups (threads, coroutines, the rest) so that a step shows only the group it writes.
* `QueueBoundHolds`: the queue never holds more than `max_size + 1` messages. The bound is
  not inductive: `RoomInv` counts, with the queue's length, the threads that have
  passed the second check and not appended. Both threads may have seen the last free
  place, which is the one message too many; a third check cannot pass.
* `AlertsKeptHolds`: `Spec => AlertsKept`. `IndexInv` says what an index that is about to
  be used points at as long as nothing is stale: `Replace` at a delta of the same stream,
  `Delete` at a message that may be dropped, never at an alert. A step of the other
  thread either leaves types and symbols in their places or sets `moved`.
* `CoalescedHolds`: `Spec => []Coalesced`. `SearchInv`: a search in progress has seen no
  message of its stream at the indices it has passed, nor has one come there since, because
  the other thread brings responses only (`KindInv`) and otherwise thins the queue
  (`Thinned`). So a delta is appended only when there is none of its stream.
* `DeltasKeptHolds`, `KindInOrderHolds`: from `OrderInv`, which follows a message along its
  path (batch of the tick, hands of a thread, queue, pending messages, wire): of one kind and
  symbol, whatever is further down was numbered before. A delta that overwrites an older
  one keeps its place because the older one is the only one of its stream (`Coalesced`).
* `AlertsReachClientHolds`: `Spec => []AlertsReachClient`. `AlertsInv` says of a subscriber, while
  all is well, that either a snapshot is on its way that has yet to be serialized, from the state
  to be (`Fresh`), or each alert of the state is not drained yet (`Ahead`), or is shown or pending
  with no snapshot pending that would hide it (`InFlight`). `Join` makes a snapshot `Fresh`, the
  end of a drain makes its alerts `InFlight`. `PhaseInv` ties what is pending to the coroutines'
  phases; `BackedInv` is the other inclusion, nothing is shown that is not in the state.

`RawEventPathProofs` holds for every queue size, share of a tick, number of retries and
bound on callbacks, polled records, crashes and replays:

* `PathImplementsLedger`: `Spec => NothingDropped`, the refinement of `EventLedger`, under
  the hypothesis `~ReplayBesideRuntime`: the spool is replayed while the process is down,
  which is the order of the runbook. Beside a running process the replay can unlink records
  the runtime spooled after the load, and the theorem is false (section 4). Each action has
  a lemma that names the callbacks whose place it changes and shows the move is one of the
  ledger's; all others keep their place. The invariant says that a callback in the publisher
  is not in the queue, and that the spool of a replay under way is the file less what
  was already taken from it.
* `CommittedIsHandled`: `Spec => []OffsetCovered`, with `ReplayBesideRuntime` or not. `Offsets`
  says what the position, the tick's records and the committed offset have to do with each
  other: everything below the committed offset is handled, everything between it and the
  position is in the tick. Where the topic is polled the theorem needs `PollMax <= MaxRaw`: `tick_once`
  commits what it was given after it cut the records to `MaxRaw`. The default of
  the adapter (100) is above the tick's share (50), but production always sets
  `runtime_event_processor` (`app_runtime.py:661`), owns its path and never polls, and for
  it the hypothesis is empty.
* `TradesInOrder`: `Spec => []TicksOnceInOrder`. `OrderInv` orders, for an owned path, the
  callbacks still on their way (queue, publisher, ingested events) after those already in the
  state, over crashes, recovery and duplicates in the topic.
* `PathTypeCorrect`: `Spec => []TypeOK`, which also bounds the consumer's position by the topic.

`UpstreamFeedProofs` holds for any symbols and clients, any number of periods, any failures:

* `OneCallerPerSymbol`: `Spec => []SoleCaller`. No lock guards client, manager or tracker;
  what keeps two threads off one symbol is `CallerInv`: the loop calls from one place of its
  tick (`LoopInv`), a client calls for a symbol it holds a reference of and that is neither
  attached nor subscribed (`ClientInv`), a second client finds the reference of the first
  (`UniqueInv`). The theorem also covers the phase in which the runtime stops.
* `FeedIsExact`: `Spec => []ExactlyOnce`. `FeedOf` says how far a call has got, period by
  period; between calls the SDK agrees with the manager. Only symbols
  no call has failed for are in it: a failure in the middle leaves the rest, see section 4.
* `WatchIsExact`, and `FeedTypeCorrect` with the bound `1 + MaxFailures` on the subscriptions of
  one period: each failed call leaves at most one more behind (`BoundInv`).

`MarketStateProofs` holds for any length of the session, number of trades, crashes, failures
and seeds. One lemma per operator on a state (`AppliedTickIs`, `AppliedBarIs`, `MergedIs`,
`PromotedIs`, ...) says what it does to soundness, cover and exactness; the actions only
compose them. The inductive invariant has three parts:

* `MInv`: types, that a state of today has no bars of the day before and only one of today is dated
  (`Sound`), that one object is one value (`AliasOK`), that a seed is under way only while the
  symbol is up. `MarketTypeCorrect` and `SameDayChartHolds` follow from it.
* `ExactInv`, for `ConfirmedExactHolds`: but for the minutes in `late`, a confirmed bar is over and
  exact in all three copies. A trade counts in no minute that is over, so what was exact stays
  exact; a tick into a confirmed bar or a half-grown bar taken after the minute adds to
  `late`, and nothing else does.
* `CoverInv`, for `CacheCoversHolds`: the property speaks of the time between
  seeds, so the invariant says what holds during one. Before a seed writes, Redis covers the
  snapshot and the snapshot the state of octopus; between its write and the swap, Redis covers
  what the swap will show. An event in between breaks the second, hence `overlapped`.
* `KeptHolds`: `Spec => Kept`, an action property, from the cover part of the operators'
  lemmas.

`CutoverProofs` holds for any sessions, times, policies and faults, with or without zones:

* `BundleCoversRuntime`, `BundleIsLongEnough`, `BundleIsInOrder`: what a bundle that passes
  proves. The bundle sees files only; the invariants tie them to what happened. `RuntimeInv` and
  `HealthInv`: a process that counted no fault, failed hydrations apart, lost nothing since
  its start, nor did the process a health file is of up to its time. `SpanInv`: the event files of a reported
  session have only grown. The window checks of the bundle then compose to the property.
* `CutoverTypeCorrect`: types, with every time in a file at most `now`.

`SmokeEvidenceProofs` holds for any set of machines and any bounds:

* `PackageIsJudged`, `PackageIsOneRun`: from `JudgedInv` and `ZipInv`. A manifest that is still
  fresh means that observation and evidence belong to the files beside it, because
  every other write makes it stale; the zip keeps that, and what the directory still has in
  common with the zip is what the bundle compares.
* `MadePackageIsAccepted`: `Spec => []MadeIsAccepted`. What the package command asked holds until
  the zip is written, for only health files and copies by hand are written meanwhile
  (`PackingInv`), and of the zip from then on (`PackedInv`). It does not ask for the time of the
  probe, which the verifier does: that follows from `JudgedInv`, because the evidence passed
  with a preflight that a fresh manifest says is the packaged one.
* `EvidenceTypeCorrect`: types.

The assumptions are the modules' named ASSUMEs: the loop is not a client, the
"no entry" value is not an object, the capacity is a positive natural
(`__init__` refuses less), outcomes are among those the code distinguishes, a queue
has room for a message, deltas are of the types the runtime publishes, the start-up symbols
are symbols, bounds are naturals, and the marks of a missing or failing file (`MarkAssumption`)
are no time, observation, evidence or zip. Beyond these only the two hypotheses named
above are used. Every inductive invariant was checked by TLC on small instances before it
was proved.

Every invariant and action property that a passing run checks is proved. Model-checked only is
liveness: `AbandonedIsEvicted`, `RequestsAnswered`, `EventuallyDrained`, `EventuallyServed` and
`QuietIsRenewed`; fairness and ENABLED are out of the prover's reach. `SessionTypeOK` and the
`TypeOK` of `MarketState` and `SmokeEvidence` state the types of their variables; they are proved
and are not checked by a run of their own.

## 7. Abstractions and limits

Manager, sessions and client queue:

* A payload is its freshness verdict, `degraded_reasons` is whether there is one,
  the eviction clock is none, running or elapsed. Contents of bars, alerts and
  queues are not read by the control flow.
* A hydration key is its symbol. The key's date comes from the payload or from the
  manager; the state checked before hydrating is `COLD`, which has no payload.
* `_attach_realtime` writes flag and state in two statements without the lock;
  the model takes them together.
* A state write and a snapshot write that follow each other are one publish step;
  a failing sink degrades once or twice with the same result. Where no sink can
  fail, the write is no step at all.
* What the sinks have written is not state of these modules, so the order in
  which read models reach Redis is not checked.
* The initial grace-period branch that sets a missing clock is not an action of its
  own: `EvictingMovesOn` shows that no runtime needs it.
* `GatewayClientQueue` has one client, whose queue no other client touches. What the
  manager does inside a request is in `GatewaySessions`; here a subscribe answers at once.
  The error message of a failed request goes to the socket past the queue and is left
  out. A raw event that makes two messages is two steps of `Publish`. The statistics
  are left out.
* The payload of a snapshot message is the runtime's dictionary itself, which raw events
  change in place, so what the client gets is its content when `flush` serializes it
  (`Serialized`). That the dictionary is replaced by another one meanwhile (seeding, a
  new trading day) is not modelled.
* A worker thread may be switched out between any two calls. Single calls on the deque
  (`popleft`, `append`, an index, a `del`) are atomic under CPython's global lock.

Feeds and state:

* `RawEventPath` has one symbol and one partition and drops no spool or quarantine write.
  Recovery takes each event of the day's files once, in the order of its time; that two
  equal ticks of one second are merged by its dedupe is not modelled.
* In `UpstreamFeed` ages are nondeterministic, the length of the queue is whatever makes a
  recorded backlog more or less than the limit, and port changes of `start` are one
  connection attempt.
* In `MarketState` a start is atomic up to its subscription, one seed runs at a time, the
  effective trade date is the day before, the L2 book is one more side of the book, the
  alert list's cap of 500 and Redis' expiry are not modelled.

Evidence:

* `Cutover` has sessions of one trading date; a failing performance result blocks like a
  mismatch; coverage ratios are one unit of slack; rollback start and end are one thing.
  Manifests, symbol coverage, Redis key families, configuration and URL checks are left out.
  An operator stamps evidence at the time of the command; `finished_at` is any time.
* `SmokeEvidence` begins with a prepared directory. A file of which only matters that it
  fails is `Failing`. Traders stay connected while their backend runs, the frontend always
  answers the probe, the workflows have one stamp, every trader exports performance too
  (in the run). A file rewritten has another hash; one read half-written is a failed
  finalize. Exports copied by hand directly into `clients/` are those of an import that was
  stopped before its manifest; nobody takes a copied file away again. Import manifests with
  absolute paths, which the import command no longer writes, are left out. Inspection
  (`inspect-multi-trader-smoke`) writes nothing and repeats the checks of finalize and package; it is
  not modelled. A stopped process with fewer than two machines leaves a failing health file;
  SIGKILL hits one that did not close its port.

Not modelled, and why:

* *Active symbol pool*: one object without a lock, called from the loop; its effect on
  runtimes is in `PoolEvicts`. Limits and pin order are a later module.
* *Frontend data source, store and views*: TypeScript; reconnect and reducer are planned,
  views are presentation.
* *Historical access, contracts, trading sessions* (`mammoth_api.py`, `contracts.py`,
  `trading_session.py`): read and validate, no state.
* *Operations*: cache clearing, pinning and report formatting; pruning of the state store.
* *Batch export tools and shell scripts*: I/O with little control flow.
* Holding-name clicks and health requests do not change a session; they appear in
  `GatewayClientQueue` as requests with a response.

## 8. Plan

1. `SymbolRuntime`, `HydrationSlots`, `GatewaySessions`, proofs of types, slots and
   refinement (done).
2. `GatewayClientQueue`: the bounded, coalescing queue; proofs of its types, its bound and
   of each safety property its runs check (done).
3. `RawEventPath` with `EventLedger`, `UpstreamFeed`, `MarketState`, `Cutover`,
   `SmokeEvidence` (done).
4. Proofs about `RawEventPath`, `UpstreamFeed`, `Cutover` and `SmokeEvidence`, with the
   refinement of `EventLedger`, and about order, coalescing and alerts of
   `GatewayClientQueue` (done). `SessionSpec => Spec`, which carries the manager's theorems
   to the sessions, with `AttachedIsReferenced` and `FlagIsBacked`, and the safety properties of
   `MarketState` (done). What runs still
   check alone is liveness.
5. `ActivePool`, the frontend's data source and store reducer.
