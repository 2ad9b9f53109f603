# LlamaDeck: a TLA+ verification project

LlamaDeck is a FastAPI application that runs llama-server processes for a set of
presets, lets an LLM, a ComfyUI and a TTS service take turns on one GPU, downloads
models, builds and benchmarks llama.cpp and forwards OpenAI requests. All of it is
one asyncio event loop with background tasks, a few worker threads, and processes
that live longer than the backend itself. The code is sequential between two
`await`s; what is hard is everything that happens across them.

This directory models the parts of the backend whose correctness depends on such
interleavings, checks them with TLC and proves what matters most with TLAPS.
`PROJECT.json` lists the runs, the source lines behind every definition, the
hazards, and the findings.

## Inventory

Paths are relative to `src/backend/lld/`.

| Component | State | Operations | What is hard | What makes it correct |
|---|---|---|---|---|
| GPU broker, `gpu_broker.py` | active and starting slot, leases, queue, failure records, keepalive timer, one lock | acquire, heartbeat, release, supervisor notification, start-and-grant coroutine, TTL watchdog, keepalive stop, shutdown | slow starts run outside the lock; timeouts, failures, expiries and user commands meet them | one start at a time, leases only on the owning slot, nobody waits for nothing, everybody is answered |
| Process supervisor, `supervisor.py` | one handle per preset, a lock, an exit watcher and an auto-restart task per handle | start, stop, restart, switch, adopt, release, rebind, liveness poll, scan at boot | auto-restart and rebind take no lock; processes survive a re-exec; exits are seen by two observers | no process is lost, a stop is final, each crash is answered once |
| HF downloads, `hf.py` | job table, database rows, partial files, subscriber queues | enqueue, pause, resume, remove, stream, restart | threads and event loop, restarts, shared directories | one writer per file, no stuck job, no outcome lost |
| Services, `processes/*.py` | what runs behind a slot and who started it | start, wait_ready, stop, is_running | a service is started or stopped behind the broker's back | the broker stops only what it started |
| OpenAI proxy, `api/openai_proxy.py` | an ephemeral lease and a heartbeat task per request | forward, stream | a client that disconnects before, during or after the stream; a release that is cut off; a lease that ends early | no ephemeral lease is held for good; no heartbeat outlives its request |
| Health watchdog, `health_watchdog.py` | failure counts, restart history | a tick per minute | a guard on restarts that is pruned while restarts fail; a preset that comes and goes | a hang is answered, but at most twice per window |
| Builds, `build.py` | the active job, its row, the checkout, the build directory, the configured binary | rebuild, clone, configure, compile, adopt the binary | the check for a running build is followed by awaits; the directory outlives builds of other backends and generators | cmake never meets a cache it cannot use; a success leaves a binary that can be started; every row is closed |
| Benchmarks, `bench.py` | the active job, a cancel flag shared by all jobs | run, cancel | a cancel meets the end of the process, another cancel, another job | a cancel that found a process is kept; every row is closed |
| RPC servers, `rpc_server.py` | a process per configured server, a table in the order that numbers the devices | start, stop, sync with the settings, autostart | no lock across the awaits of a start; settings change under running servers | every process stays in reach, devices do not change numbers |
| Boot and shutdown, `main.py`, `api/system_api.py` | the phase of `lifespan()`, what runs from before | seed, write the INI file, reap, adopt, start routers, shut down, re-exec | routers outlive the backend with an INI file they read once; crashes between any two steps | every router is adopted or started; a stale one is shown as such |
| Server API, `api/server_api.py` | - | the HTTP form of the supervisor's commands, then a notification of the broker | the notification comes after the command | - |
| Fit check, VRAM estimate and calibration, `fit_*.py`, `vram*.py` | measured corrections in memory and SQLite | verdict and suggestion, budget over cards, record, migrate | roundings, memory that is promised to a plan twice, a migration that is interrupted | a suggestion is enough, a refusal is right, no byte is promised twice, what was measured is not lost |
| Presets, arguments, profiles, `presets.py`, `argv.py`, `flag_catalog.py`, `model_*.py` | `presets.json` | to a command, from a command, merge, save | a preset is stored as fields and as a command, and both are edited | a preset's own command read back runs the same; fields say what the command says |
| Router INI, `router_ini.py`, `router_drift.py` | a file, and what the router read | render, reload, compare | presets that share a model, files that share an id, names that clash with ids | every preset is served under a name of its own with its settings, or drift is shown |
| Model registry, `models.py`, `gguf_header.py`, `db.py` | SQLite | rescan, mark as used | rescans beside each other and beside a changing disk | a rescan that nobody overtook tells the truth, last use is remembered |
| Features, `features.py` | snapshots and scan rows, A/B rows, guides, a lock, two flags | scan, retry, summarize, A/B run, guide | scans started by builds meet the user's; an A/B run uses the benchmark manager that others use | no pair is scanned twice unasked; an A/B run compares its own two benchmarks |
| Metrics, `metrics.py` | the last slots and counters, job records, subscribers' queues | poll, derive rates, record jobs | slots and counters are read apart, either read fails, tasks change in between | no token is in two rates, a record is about one task |
| Power, devices, accel, settings, verify, net guard, MCP server, CLI | samples, a settings file | sampling, parsing, filtering | - | - |
| Frontend, launch scripts | - | - | the order of API calls | - |

How they interact: HTTP handlers call the supervisor and then
`notify_supervisor_changed()` of the broker; the broker starts and stops services,
the LLM one through the supervisor; the OpenAI proxy acquires and releases leases;
the watchdog restarts presets through the supervisor; a finished build, or a change
of the settings, calls the supervisor's `rebind()` and starts a feature scan; an A/B run
is two jobs of the benchmark manager; a preset on an RPC device starts the RPC servers;
every save of a preset rewrites the routers' INI files; the boot adopts what still runs.

## Modules

| Module | What it is |
|---|---|
| `SlotLease` | The promise of the broker: one owner of the GPU, every lease on the owner, an idle moment between two owners. |
| `GpuBroker` | The broker as it is written. Implements `SlotLease`. |
| `GpuBrokerProofs` | Inductive invariants, invariance theorems, action properties, and the refinement, for all constants. |
| `MCGpuBroker` | Slots, requests and symmetry for TLC. |
| `Upkeep` | The promise of the supervisor to its user: at most one server per preset, launched because it was asked for or as the one answer to a fall, none after a stop. |
| `Supervisor` | `ProcessHandle`, `MultiSupervisor`, and the boot after a re-exec. Implements `Upkeep`. |
| `SupervisorProofs` | Its type correctness, inductive invariant, safety theorems, and the refinement, for all constants. |
| `MCSupervisor` | Symmetry, and a view that ignores what nobody refers to any more. |
| `HfDownloads` | `HFDownloader`: table, coroutines, threads, rows, files, streams. |
| `HfDownloadsProofs` | Its inductive invariant and four invariance theorems, for all constants. |
| `MCHfDownloads` | Instances for TLC. |
| `Builds` | `BuildManager`: one checkout, one build directory, the binary that is adopted. |
| `FeatureScans` | Scans of `FeatureTracker`, started by builds of `Builds`, which it extends, and by users. |
| `Benches` | `BenchManager`: the jobs, the processes, the shared cancel flag. |
| `AbRuns` | A/B runs of `FeatureTracker` on `Benches`, which it extends. |
| `Guides` | Guides of `FeatureTracker`. |
| `JobProofs` | What holds of builds, scans, benchmarks, A/B runs and guides, for all constants. |
| `HealthWatchdog` | `watchdog_loop()`. |
| `RpcServers` | `RpcServerManager` and the processes behind it. |
| `OpenAiProxy` | The calls of the proxy, their leases and heartbeats. |
| `ServerProofs` | What holds of these three and of `Lifecycle`, for all constants. |
| `Scene` | The variable that says which part of the backend acts. |
| `MCServices` | The eight models since `Builds` in nine scenes, and the fairness, for TLC. |
| `Metrics` | `MetricsService` for one preset. |
| `FitCheck` | `check_fit()` and the split of the estimate. |
| `PlanBudget` | `plan_budget()` over presets that come and go. |
| `Counts`, `CountProofs` | `Metrics` and `PlanBudget`; that nothing in them is counted twice and that the verdicts of `FitCheck` are right, for all constants. |
| `VramCalibration` | `vram_calib`: cache, table, migration, measurements. |
| `ModelRegistry` | `full_rescan()` and `mark_used()` on a changing disk. |
| `RouterTable` | Presets, INI file, running router, drift. |
| `CommandLine` | `to_argv()`, `from_argv()`, `merge_command()` and the saves. |
| `Stores`, `StoreProofs` | `RouterTable` and `CommandLine`; what holds of them, of `VramCalibration` and of `ModelRegistry`, for all constants. |
| `Lifecycle` | `lifespan()` and the router presets across boots, re-execs and crashes. |
| `Services`, `ServiceProofs` | All of these beside each other, and their types, for all constants. |
| `MCBackend` | The scenes of `MCServices` and one for each of the eight models after it, for TLC. |

### GpuBroker and the code

Each variable is a field of the broker, named in its comment. `queue` and `ahead`
are the list `_queue`: the set of requests in it, and who stands in front of each;
the proofs need no sequences then. `call` is where each client's `acquire()` is:
blocked on the lock, waiting on its future, offered a lease (the future is resolved,
the coroutine has not resumed), holding it, cancelled by its timeout.

`async with self._lock` suspends only if somebody is suspended *inside* a locked
section. Two sections await there, both stop an unused service (`gpu_broker.py:626`
and `:640`); `holder` is the slot they stop, and every other locked section is one
action guarded by `LockFree`. `_start_and_grant` is a record in `starters` with the
phase it is in. Timers may fire at any moment. A service is `down`, `crashed`, `managed`
(the broker started it) or `external` (somebody else did). The
argument checks of `acquire()` change nothing and are left out.

`Events` switches what the environment does: crashes, auto-restarts, user commands,
starts that never get ready, stops that fail, timeouts, lost grants, silent holders,
shutdown. A property that needs a quieter world is checked by a run with fewer events
and says so.

### Supervisor and the code

`handle` are the `ProcessHandle` objects, `tracked` is the dictionary `_handles`.
Handle objects have identities because `rebind()` drops them while tasks still hold
them. `cmd` is the command that holds the lock and is suspended: waiting for a process
to end, in the checks of `start()`, or in `create_subprocess_exec()`. A process is in
`proc` from the moment it exists, which is before the handle knows its pid. Process ids
are used again. `wish`, `letGo` and `answer` are history: the user's last word on a
preset, processes somebody gave up on purpose, and what was made of each exit.

`overlap` in `Events` lets the paths that take no lock, auto-restart and `rebind()`,
meet a start of the same preset. Without it these meetings are excluded by a guard, and
everything else interleaves. Adopting at boot uses the same step as `_handle()`, and
`mark_used()`, which only writes a database row, is left out.

`Upkeep` knows no handle, task or lock. The mapping: `servers` are the live processes that
this backend started and did not let go; `due` are the launches to come, `asked` while a
user's `start()` has not spawned, `fall` while an auto-restart cools down or prepares;
`fallen` are the dead processes that some tracked handle or command still refers to and
that nobody has reacted to; `stopped` are the presets whose last word is a stop. A step of a
watcher is then an answer or nothing, an adoption brings a server back that was let go, and
the end of `stop()` is a step of `Upkeep` only if no server of the preset runs and none is
due. What a restart of the backend leaves running and does not adopt is no server of its any
more: `Upkeep` promises one server per preset of those it keeps.

### HfDownloads and the code

`jobs` is the dictionary's order, which decides which job a repeated `enqueue()` finds.
`work` is where the coroutine and its thread are, one await or one library call apart.
A partial file may be deleted under a thread that writes it (`lost`); the download
then fails when the file is moved into place. An update in a stream's queue is the job
object itself, so its status is read when it is taken. `Limits` holds values of
`MAX_PERSISTED_JOBS`; every restart may meet any of them, so both a table that is
trimmed and one that is not occur with two jobs.

### The services and the code

A scene is an initial state in which one part acts: the parts of one run share no state
with each other except where a module extends another (`FeatureScans` on `Builds`,
`AbRuns` on `Benches`), so their states are added up and not multiplied. Two scenes of a
part differ in what the environment does.

*Builds.* A `BuildJob` has the place of its coroutine between two awaits. `repo` is what
lies at `llama_repo`, `dir` the build directory with what cmake cached and the commit of
the binary, if any. `mixed` is history: the builds that were in progress beside another
one, which the awaits between the check and the claim allow (`build.py:340`); what two
builds in one directory do to each other is in the model, and `BuildsAreSound` is about
the others.

*FeatureScans.* A scan reads the version and the help text of the binary in two awaits,
between which the binary may be another; the pair of commits it compares, the row, and the
summary that says it has cards are kept. The lock is `scanLock`, and it is only looked at,
not waited for.

*Benches, AbRuns, Guides.* `cancelRequested` is one flag for all benchmarks, as in the
code. `told` is what the caller of a cancel was told: `early` is a cancel before the
process exists, which `_run()` undoes when it resets the flag (`bench.py:234`), `mixed`
one that met another job. Who polls the A/B run's benchmark reads whatever the manager
says of it.

*HealthWatchdog.* A visit of one preset is one step. Time is counted in ticks, and an age
beyond the window is any other age beyond it. `restarts` is history: the restarts that
happened, which `restart_history` must bound although it is pruned.

*RpcServers.* An order of names is, for each name, the names before it: `rpcTable` is that of
the keys of `_procs`, `rpcSettings` that of the settings. A start whose entry is dropped is
`adrift`: it goes on with an object that nobody else has. `crowded` is history: starts whose
process may be lost because they met another start of the server (`rpc_server.py:80`), a
`stop()` that still waits and then resets the handle (142), or the removal of their entry (183).
`moved` is history, too: the settings once had a server before one that the table had; the
table does not follow that (170), so its order is the configured one until then.

*OpenAiProxy.* Of the broker only the life of the lease is here. `abandoned` is a
stream whose generator never began.

*Metrics.* A poll begins, reads slots, reads counters and makes a frame, in the orders
`asyncio.gather` allows. `credited` and `counted` are history: how often a token was part of a
rate, of those of the slots and of the counter. A *lapse* is a poll of which a read failed (a
counter that was not read is 0, `metrics.py:334`), or which a task has `overtaken`, by ending
after the counter was read and before the slots were: it is then counted by the slots and, by the
next counter, once more. The code does repeat tokens after a lapse. `RatesAreEarned` says how
many it may be: from the lapse on no token is in two rates, and none that its counter had.
`split` are the tasks that had a record when the slots could not be read, because the record is
then closed and the next poll opens another. The slots' own rates and the truth of records have
no exception.

*FitCheck.* Sizes are numbers in units of 512 MB; the layout of a model, the preset's offload and
the machine are chosen with the initial state, and the next step applies the suggestion.
*PlanBudget*: footprints per card, of which only those of processes the vendor tools attribute
are known. `Strangers` are processes named like llama-server that are nobody's preset, which
count as reclaimable (`fit_budget.py:215`), and `unmapped` the vendors whose rows do not tell
their card, which `_in_scope()` takes for any card of the vendor (99): where there are two of
them the plan is promised the other one's memory, and `CardsAreTold` says that there are not.
*VramCalibration*: the statements of the migration are steps, and measurements, failures and
restarts come between them; `doubtful` are offsets made of an estimate that was read before the
offset changed.

*ModelRegistry.* A rescan walks in a thread, file by file, and persists in one step; `current`
and `marked` say of which rescans and files the properties speak. *RouterTable*: a setting stands
for all settings. `ModelId` gives each file the id that `_model_id()` makes of its place, so that
files may share one (`d/a` and `d/b` in the run) and a preset may be named like one (`d`). Of the
files with one id one is served. `NamesApart` says that no preset is named like the model of one
before it; llama-server reads the two sections of that name as one. What drift says depends on
which models the router listed and of which it `told` the arguments. `_refresh_router_ini()`
swallows a failure (`presets_api.py:105`); a file that was not written is left as old as by a
file that is dropped, and the properties are about a file that was written since, so this is left
out. *CommandLine*: one flag for each way in which flags are read and written; `Accepted` is what
`llama-server` itself accepts, an external definition, and `Invented` are the fields that have a
default when the command is silent.

*Lifecycle.* A process has the facts adoption needs: whether it is a child, which edition of its
INI file it read, and whether the file is newer than the process. `stale` is what `status()`
says. `WithPath` are the presets with a `models_preset_path`: one without has its INI file
written to the default path and neither reads it nor is ever called stale (`supervisor.py:232`).
A boot does not start a router whose directory is the factory's (`main.py:411`). `pointed` says
that the wizard was given another models root, and that nobody has gone back since, by the wizard
(which then repoints nothing, `setup_api.py:294`), by the settings or by editing a preset; until
then `BootBringsRouters` is about the routers with a directory of the user's, and from then on
about all. `excused` are the presets that this boot need not bring up (they ended, failed, were
stopped, deleted or edited since, or there is no binary), `met` those whose INI file was written
in the middle of their start, when the start time is not taken yet.

## Runs

| Run | Instance | What it shows |
|---|---|---|
| `broker_all` | 2 LLM requests, 1 ComfyUI request, threshold 2, all events but shutdown, symmetry | the broker's invariants, and that it implements `SlotLease` |
| `broker_live` | 3 slots with a request each, threshold 1, crashes and silent holders, fairness | queue order, attention, one managed service, every call answered, unused services stopped |
| `broker_stop` | 1 LLM and 1 ComfyUI request, `llm_keepalive_s` = 0, shutdown at any moment, fairness | shutdown ends, answers everybody and is final; no lease without a client |
| `broker_stranded` | 1 LLM and 1 ComfyUI request, timeouts only | violation, see Findings |
| `broker_two_managed` | 1 LLM and 1 ComfyUI request, starts that never get ready | violation, see Findings |
| `supervisor` | 2 presets, 2 handles, 2 pids, 1 restart per window, all events but overlap, symmetry and view | no stray process, a stop is final, and that it implements `Upkeep` |
| `supervisor_live` | 1 preset, 2 pids, 2 restarts per window, overlap, fairness | every crash is noticed |
| `supervisor_stray` | 1 preset, rebind with overlap | violation, see Findings |
| `hf` | 2 jobs, 2 files of one directory, 1 stream, errors, restarts, fairness | one writer, no stuck job, outcomes survive, pauses work, streams end |
| `hf_partial` | the same without errors or restarts | violation, see Findings |
| `services` | 17 scenes, see below | jobs, watchers, plans and tables stay right over every order of requests, failures, edits and restarts |
| `services_live` | 9 scenes, fairness | jobs, locks, flags and leases do not stay busy for good, hangs are answered |

Why the bounds are enough. In the broker every decision is about the active slot, the
starting slot, one failing or leaving request and the queue behind it: two requests of
one slot and one of another give fast paths, shared starts and transitions both ways;
three slots are needed where the *order* of slots in the queue matters, which is why
`broker_live` has a request for each. The threshold 2 makes cooldown differ from a
single failure. In the supervisor, two presets share nothing but the lock, the handle
objects and the process ids, so two are enough for a switch, and two pids for a
restarted process beside the one it replaces; the window of `supervisor_live` holds 2
restarts so that an exit can meet a window that is neither empty nor full. The code's
limit is 3. In the downloads, the purge and the dedupe each involve two jobs. `hf` has one
directory, so a request for the same file in another directory is in the model and not
in the run; a variant with one file and two directories passes as well.

The properties of `services` are one per question, and conjunctions by scene:

| Property | Scenes | What it says |
|---|---|---|
| `BuildsAreSound` | 2 builds, 2 backends, 2 commits, failures, Ninja that comes and goes, clones, restarts | `CacheFits`, `AdoptedExists` |
| `ScansAreTrue` | 2 scan tasks, 2 rows, 2 builds beside them | `ScannedOnce`, different binaries, cards when summarized |
| `BenchesAreHonest` | 3 benchmarks, 1 A/B run, restarts, spawn failures | `CancelHolds`, `AbCompares` |
| `WatchdogSpares` | 1 single preset; 1 router with 2 models | at most `MaxRestarts` restarts of a preset in a window |
| `RoutersComeBack` | 2 router presets, one of them without an INI path, over boots, re-execs, crashes | `BootBringsRouters`, `StaleIsShown` |
| `RpcIsKept` | 2 servers, 2 starts, settings that change or foreign servers | `RpcWithinReach`, `RpcOrderIsConfigured` |
| `VerdictsHold` | 4 models under 18 settings on machines of every size | `SuggestionsHelp`, `TooBigIsRight`, `PlansAgree` |
| `NothingCountsTwice` | 1 slot, 2 tasks of 1 token, 4 polls; 3 presets and a stranger on 3 cards | `MetricsAreEarned` (`RatesAreEarned`, `RecordsAreTrue`), `BudgetIsHonest` |
| `CorrectionsAreKept` | 2 vendors with a migration, failures, restarts | `MeasuredIsTrue`, `MeasurementsSurvive` |
| `RegistryIsKept` | 1 file, 2 projectors, 2 rescans, 3 changes of the disk | `RegistryIsTrue`, `UseIsRemembered` |
| `StoresAgree` | 2 names of presets and 3 files, of which 2 share an id; commands of 3 phrases | `PresetsAreServed` (`PresetsAreNamed`, `FilesAreFound`), `RoundTrip`, `CommandIsRead` |

Bounds of these runs: `LastCommit` is how far upstream goes, `MaxScans` how many rows there
are, `MaxTasks`, `MaxTokens` and `MaxPolls` how long a server is watched, `RecentMax` and
`QueueMax` stand for the limit of kept job records and the subscribers' queue, `GraceFrames` for the
polls that may fail before a preset is forgotten, `DiskChanges` and `MaxEdition` how often
files change, `MaxOffset` the largest plausible correction, `UserBenches` which benchmarks
users ask for (the others are the A/B run's), `FailThreshold` 2, `MaxRestarts` 2 and
`RestartWindow` 4 ticks stand for 8, 2 and 900 s. Two jobs of a kind meet in all the ways
two can, a third benchmark lets a user's job come between the two of an A/B run; two
servers and presets are what order and name clashes need; four polls let a failed one lie
between two good ones, with one more to count again; three cards are two of one vendor
and one of another; three editions let a router be stale by one write and read another.
No property compares more than two jobs, rows, files or frames with each other.

Fairness. asyncio runs each task that can run, and timers fire: weak fairness for each
task. A caller of `acquire()` that waits for the lock gets it because `asyncio.Lock`
wakes waiters in order, while others may hold it in between: strong fairness for this
one step. Signals are delivered, processes finish loading or fail, a thread that loads
reports progress, ends or fails (`huggingface_hub` has read timeouts). Subprocesses of
builds and benchmarks end: the code waits for them without a timeout, and if one never
does its row never changes. The watchdog's loop goes on, because it catches
exceptions. Leases that nobody refreshes expire, which is `UnusedServiceStops` and the TTL
watchdog of `GpuBroker`. Nothing is assumed of clients, users, crashes or restarts. A
server that hangs is answered if it hangs for good and its router still lists its models;
one that no longer does is never restarted (`health_watchdog.py:217`).

## Proofs

Every theorem is about the specification of its module, for all values of the constants
that its named assumption allows; sets of jobs, slots, presets or files may be of any size.
The assumptions only say what kind of thing a constant is: that the null values are none
of the elements they are mixed with, that bounds are numbers, that the LLM's slot is a slot.
The invariants of the runs are seldom inductive. Each proof states a stronger one, which TLC
checked on the instance of the run, or on a smaller one, before it was proved, and has a
lemma for each action and in it a step for each part that the action can disturb.

| Theorem | Property | Leaves out |
|---|---|---|
| `TypeCorrectness`, `OneSlotAtATime`, `WaitersHaveAReason`, `CoolingIsRespected`, `KeepaliveIsAtomic`, `StopIsFinal`, `LeasesEndForAReason` | `TypeOK`, `OneOwner`, `NobodyWaitsInVain`, `CoolingSlotIsQuiet`, `KeepaliveUndisturbed`, `ShutdownIsFinal`, `LeaseEndsForAReason` of `GpuBroker` | nothing |
| `BrokerImplementsSlotLease` | `ImplementsSlotLease` | nothing |
| `QueueStaysAttended`, `OldestIsNext` | `QueueIsAttended`, `StartsForTheOldest` | `timeout` |
| `NoLeaseIsOrphaned` | `NoOrphanLease` | `lostGrant` |
| `OneServiceAtATime` | `OneManaged` | `notReady`, `stopFails`, `autorestart`, `user` |
| `TypeCorrect` | `TypeOK` of `Supervisor` | nothing |
| `NothingStrays`, `StopsStick`, `EveryEndAnsweredOnce` | `NoStray`, `StopSticks`; `AnsweredOnce`, of which the run checks what `Upkeep` says of answers | `overlap` |
| `SupervisorImplementsUpkeep` | `ImplementsUpkeep` | `overlap` |
| `TypeCorrect`, `NoJobInLimbo`, `OneWriterPerFile`, `OutcomesSurviveRestart` | `TypeOK`, `NoLimbo`, `OneWriter`, `RestartKeepsOutcomes` of `HfDownloads` | nothing |
| `BuildsStaySound`, `ScansStayTrue` | `BuildsAreSound`, `ScansAreTrue` | nothing |
| `ResultsAreHonest` | `BenchesAreHonest` | nothing |
| `RestartsAreFew` | `WatchdogSpares` | nothing |
| `ServersAreKept` | `RpcIsKept` | an empty set of names |
| `RoutersAlwaysComeBack` | `RoutersComeBack` | nothing |
| `RegistryStaysTrue`, `MeasurementsAreKept` | `RegistryIsKept`, `CorrectionsAreKept` | nothing |
| `VerdictsAreTrue` | `VerdictsHold` | nothing |
| `TokensAreCountedOnce`, `MemoryIsPromisedOnce`, `NothingIsCountedTwice` | `MetricsAreEarned`, `BudgetIsHonest`, and both as `NothingCountsTwice`; the types of both | nothing |
| `EveryPresetIsServed`, `PresetIsItsCommand`, `StoresStayOne` | `PresetsAreServed`; `RoundTrip` and `CommandIsRead`; all of them as `StoresAgree` | nothing |
| `LeasesAreNotForgotten` | the types of `OpenAiProxy`, and the part of `LeaseIsGivenBack` that needs no fairness | nothing |
| `JobsAreTyped`, `ServersAreTyped`, `LifeTypesHold`, `ServicesAreTyped` | the parts of `ServicesTypeOK`, with those that other theorems state; `ServicesTypeOK` | nothing |

What a theorem leaves out is in `Events`, and a run shows that it has to: `broker_stranded`,
`broker_two_managed` and `supervisor_stray` are violations by one event each; the others are
under Findings.

### GpuBroker

That a request never waits for an idle GPU depends on who has the lock, on whether a
coroutine exists for the starting slot, and on what shutdown did. `IInv` adds these:

- `StarterAlone`: at most one start-and-grant coroutine, on an idle GPU, for the
  starting slot, which is not cooling down. Without it a failing start could not hand
  over safely: it clears `_starting_slot` on the assumption that it is the only one.
- `LockHeldForUnused`: a task that suspends inside the lock stops a slot that is unused.
- `QueueIsALine`: the queue is totally ordered and holds every pending call. Every
  partial removal must keep a head, or the hand-over would find none.
- together with the properties themselves.

For the refinement, `OwnerPassesThroughIdle` shows that no step takes the GPU from one slot
to another directly, and `TenantsAreTheOwners` that the leases are the owner's.

The theorems of a broker that meets fewer events have invariants of their own on top of
`IInv`. `Attended`: without timeouts no call is ever cancelled, so the slot that is being
started still has a waiter when the start ends, and its success gives a lease. Every
hand-over then is for the head of the queue. `Kept`: whoever has a managed service is known
as active slot, as the previous or the next slot of the coroutine, or as the slot that `stop()`
stops, and only one slot can be known in these ways; what is left is a start that `stop()` cut
off, after which nothing starts (`Over`). TLC checked `Attended`, `Kept` and `NoOrphanLease`
beforehand with more events than the runs have (165 000, 99 000 and 565 000 states).

### Supervisor

`TInv` is `TypeOK` and `NothingMissing`: a command or an auto-restart that is half way refers to
a handle and a process that are there. The other theorems follow from `IInv`, which says for
every handle that its preset still tracks

- who refers to a process: `TablesAgree` (a handle with a process or a task is in `_handles`),
  `PresetSound` (a handle only refers to processes of its own preset, so no two handles
  share one) and `CommandSound` (a start under the lock works on a handle without a process,
  an auto-restart or a stop);
- what is known of its end: `AnswerSound` (an end that a watcher, an adopted handle or a spawn
  under way still waits for has not been answered) and `WatchSound` (a watcher's process is the
  handle's, or has ended);
- what the user's last word allows: `WishSound` (after a stop nothing is scheduled, and what is
  still watched meets `_stop_requested`) and `AutoSound`.

Dropped handles are not in it: `rebind()` and a restart of the backend leave some behind, and
what their tasks still do must be harmless. `Frame` shows once that a step which changes one
handle keeps the invariant of all others, and `Free` describes the process ids that may be used
again. TLC checked `IInv` with 2 presets, 2 handles and 2 pids (352 775 states). With `overlap`
`NoStray`, `StopSticks` and `AnsweredOnce` all fail.

The refinement needs two facts more, `RInv`. `AwaitsKept`: no watcher, spawn or command waits
for a process of others or for one that was let go, and no handle has adopted one that is let
go; else the watcher's answer would be to a fall that `Upkeep` has never seen. `NotYetSpawned`:
a command in the checks of `start()` has no process, so that of two launches the second is not
taken for the first. The proof asks of each step what it does to the four parts of the mapping.
`NothingRuns` gives `Launch` and `Adopt` their guard from `NoStray`, and `StopIsQuiet` the end
of a stop its own; `RefersToNoMore` is what most steps have in common, and from it follows
that no fall appears out of nothing (`NobodyFalls`: a process that nobody referred to, and that
is dead, stays forgotten) and that `AwaitsKept` stays (`AwaitsStayKept`). Only a process that
goes, one that appears, and an answer need more: `ServerFalls`, `Appeared`, `HandleAnswers`.
TLC checked `ImplementsUpkeep` in the run (357 837 states) and `AwaitsKept` and `NotYetSpawned`
beside it before they were proved.

### HfDownloads

`NoLimbo` alone does not keep two coroutines off one file: a paused job has no coroutine and
gets one by `resume()`, which does not look for other jobs. `IInv` adds `UniqueUnfinished`, two
jobs of the table that are not done never have one target, which `enqueue()` establishes
because it resumes a paused or failed job instead of making another. For restarts it adds
`RowIsJob`, the row of each job says what the job says. `JobStepKeeps` shows once that a step of
one listed job keeps the invariant. Adding, removing and trimming rest on lemmas about
`Append`, `RemoveAt` and suffixes of the table.

### The services

- *Builds* (`BuildInv`): builds that are in progress beside each other are all known to be,
  `mixed`, the one the manager calls active included (`BuildsApart`); so a build that is not
  mixed is alone with the checkout and the directory, and its cache is what it configured.
- *Scans* (`ScanInv`): a scan holds the lock from its look for an earlier one to its own row, so
  that nobody else adds the same pair meanwhile (`ScanSound`). It is proved for builds and scans
  together, because builds start scans. The number of snapshots is bounded because a commit has
  one, whichever scans capture it (`SnapshotsApart`), so that the sequence injects into the commits.
- *Benchmarks and A/B runs* (`AInv`): the process handle belongs to a benchmark that still reads
  its output, a cancel that was answered stays requested until that benchmark's outcome is set,
  and benchmarks that overlap are `mixed`. No two A/B runs own the same benchmark, and what a
  run's place says of its benchmarks stays true because an outcome is set once (`Stable`).
- *Watchdog* (`WatchdogInv`): what `restart_history` has of a preset is the end of the sequence of
  all its restarts, and whatever is not in it is out of the window. The history is purged only
  from the head, as the code's `while` loop does, so the proof is about the least restart that is
  not too old, and the count of a set of at most `MaxRestarts` indices (2 155 230 states).
- *RPC servers* (`RpcInv`): while a start awaits its process, nothing of the same server lives or
  starts, except what is `crowded` (`StartsAlone`), and what a `stop()` awaits is the process
  whose handle it will reset (`StopsItsOwn`). The table follows the settings by one operator,
  `Synced`, which keeps it a total order (`SyncedIsALine`) and, where nothing was `moved`, in the
  order of the settings.
- *Boot* (`LifeInv`): whose process is held at which phase of `lifespan()` (`HeldSound`), a
  process that has read another file than there is is older than it and, once held, shown as
  stale (`ReadSound`), and what a boot has passed is up or excused, if it had a directory other
  than the factory's (`BroughtUp`; 39 022 states).
- *Proxy* (`ProxyInv`): the lease that the proxy took for a request has a heartbeat exactly as long
  as the request runs (`LeasesAreTended`), and before it has one there is nothing to beat for
  (`HeartsHaveLeases`). That such a lease is then given back, or expires, is liveness.
- *Table of models* (`RegistryInv`): a rescan that nothing overtook has seen the files that it has
  passed as they still are (`WalkSound`), and a row that was marked is of a file that is there.
- *Corrections* (`CalibInv`): during the migration the rows are in the new table or aside, and the
  step that comes next is decided by where they are (`MoveSound`); a poll's estimate is what the
  formula made of the offset it read (`PollSound`); every offset, in memory, in the table and
  aside, is the measured one or doubtful (`Honest`; 32 541 states).
- *Verdicts* (`FitInv`): here the invariant is small and the arithmetic is the proof. It starts
  from lemmas about products and quotients (`DivBelow`, `TimesMono`, `TimesCancel`), because the
  prover does not find nonlinear facts by itself. `NeedsAre` and `VerdictsAre` turn the branches of
  `check_fit()` into facts, `MoeLayersAre` and `DenseLayersAre` say of the suggested number of
  layers that it fits and that no smaller part in RAM would. `SuggestionsAreEnough` uses the
  first half, `TooBigIsTrue` the second; the latter does not hold of dense models without the
  unit to spare in `RoundedUp`, which the proof found (see Findings).

### What is counted

Both parts of `NothingCountsTwice` are about sums over slots, tasks, cards and presets, which are
folds, and induction over data is out of the prover's reach. A least counterexample takes its
place: of the subsets of a finite set for which a fact about sums fails, one has the fewest
elements (`LeastSet`, from the well-foundedness of the numbers), and without its first element
the fact holds. `SumIsSum` ties the operator of the community modules to the function that
adds one element after another (`IsSum`), `SumWithout` makes the order irrelevant, and
`SumMonotone`, `SumOfPart`, `SumOfUnion`, `SumOfSums` and `SumOfTable` (the sum of a table is the
sum of its columns) are what the proofs cite.

- *Records* (`MetricsInv`): what a poll has read of a slot is a task at home there and not more
  than it has got by now (`ReadIsOld`); a record claims no more (`RecordsSound`), and what is in
  `recent_jobs` is of tasks that were over when their record was moved (`RecentAreOver`), unless
  the slots were not read while they had one (`split`).
- *Rates* (`RatesInv`): the slots have credited a task with no more than the last frame showed of
  it (`CreditsSound`). The counter counts a task when it has ended, the slots one that they show;
  so the tasks that the counter has put in a rate and those that slots have credited are
  apart (`CountedApart`), and what the counter showed, and shows next, are sums over sets of
  tasks that have ended, the first within the second (`CountersAre`). All this starts anew at a
  lapse, with what its counter showed.
- *Plans* (`BudgetInv`): what runs fits on the cards. Then what a plan calls free is the sum of
  what is free on the cards it sees, and what it calls reclaimable the sum of rows of a table of
  presets and cards; the rows of presets that stop and of those that go on are apart
  (`HeldApart`) and all lie in the columns of the cards of the plan (`HeldFits`), the latter by
  `CardsAreTold`. Estimates, for
  cards without attribution, only have to be numbers: `BudgetIsHonest` speaks of them only
  in that a plan never exceeds its cards.

`BudgetAssumption` says that cards, presets and other processes are finite in number and that
other programs do not hold more of a card than there is.

### What is kept in two forms

Files, commands and what is read of them are folds over sequences, over presets, over the models
of the directory and over tokens. In place of an induction there is the table of what a fold has
computed of each part of a sequence (`Run`). Every sequence has one (`RunsAre`), and only one,
because there would be a least place where two of them part (`RunsAgree`). `AfterNone` and
`AfterOneMore` are then what an induction would start from and step by; `Reached` makes the same
argument about the least number for a fact about all places, and is what the proofs cite. A
variable `k` of these lemmas names the operator that is folded (`Step`), so that they are proved
once for all four.

- *Presets and file* (`RouterInv`): the file is what the presets, the router's setting and the
  directory were rendered to, unless a file was dropped since. `Tabled` says of the table after
  the first `n` presets and files which section every preset has and whose each section is, and
  `Clash` when two have one name, which takes a preset named like a model before it;
  `FileIsTable` says it of the whole file. `TableServes` derives what the router makes of a
  preset, and what no drift says of it; `TableFinds` that an id is only passed over where it is
  taken.
- *What is read* (`LineRead`): `from_argv()` and llama-server read a command in the same order, but
  disagree on what waits for a value. `Read` relates the two after each token; the relation is
  that the fields are what the flags say (`Matches`), with `--reasoning`, the one flag whose value
  may be missing, apart (`Reasons`). `MayFollow` is what the acceptance of a command says of two
  tokens in a row: without it a flag could take another one for its value.
- *What is written* (`SingleIsSaid`, `RouterIsSaid`): every group of tokens of `to_argv()` leaves
  nothing waiting and changes the one flag it is for (`Speaks`, `Heard`), and groups follow one
  another (`SpeaksInTurn`). Limits of drafts take effect only beside a drafter (`EffectIs`).
- *The editor* (`CommandInv`): the fields of a preset are the user's, or what was read of the
  command, or that with the command kept beside them. `CommandRewritten` puts the two halves
  together. Whatever is typed, accepted or not, what is read of it are fields (`LineIsFields`).

`CommandAssumption` says that null is no token, that the words the backend itself writes
are tokens, and that whoever fills in the fields has no raw command, as the editor does.
`LineTokens` may have any other tokens, and commands any length. TLC checked `RouterInv`,
`CommandInv` and `ProxyInv` on the instance of `services`, and in another run
what the types need beside the invariants: `FilesAreSections` (a file stays what it was rendered
to while others are dropped, and so does what the router has read), `SnapshotsApart`, and
`ServersAreSeen` (the counts of the watchdog; 397 830 states). `ServicesAreTyped` is put
together from the theorems of the other modules.

### What is only model-checked

- All liveness (`QueueIsServed`, `UnusedServiceStops`, `ShutdownCompletes`, `CrashIsAnswered`,
  `PauseTakesEffect`, `StreamEnds`, `LeaseIsGivenBack`, `ServicesSettle`): it needs fairness and
  `ENABLED`, which this version of the prover does not reason about.
- `PartialSurvives`, which fails.

No module declares a `RECURSIVE` operator.

## Findings

Each has a run that ends in a counterexample.

1. `broker_stranded`: if all waiters for a slot time out while it starts, the start
   completes for nobody, and a request queued for another slot stays behind an active
   slot that has no leases; nothing but another `acquire()`, a notification or its own
   timeout ends its wait (`gpu_broker.py:553`).
2. `broker_two_managed`: a start that is not ready in time is recorded as failed, but its
   process is left running; the next slot starts beside it (`gpu_broker.py:723`).
3. `supervisor_stray`: `rebind()` during a start drops the handle that is about to get
   its process (`supervisor.py:695`).
4. `hf_partial`: the first attempt of each new download deletes the partial files of all
   other downloads of the directory (`hf.py:693`).

Seen while modelling, without a run of their own:

- Broker: when the waiters of a start have timed out, no keepalive is armed for the
  service that is then active (`gpu_broker.py:553`, docstring 35-38). From Python 3.12 on
  `asyncio.wait_for` may drop a grant that arrives together with the timeout, and the
  lease is then held by nobody until its TTL ends (360). The fast path grants a lease
  on a slot whose service has died (311). The keepalive stop awaits inside the lock
  (626), which the docstring rules out (19-22). `stop()` leaves a service that is being
  started running (237).
- Supervisor: with auto-restarts and `rebind()` in the middle of a start, `StopSticks`
  fails too: the stop reaches the new handle, the auto-restart belongs to the old one; and
  `AnsweredOnce` does.
  `switch()` from a preset that has crashed does not stop its pending restart (744). A
  re-exec during the cooldown forgets the restart. `stop()` of an adopted process that
  may not be signalled resets the handle while the process runs on (406).
- Downloads: a second stream of the same job replaces the first one's queue, and whichever
  stream ends first drops the queue that is there, so the other one only sees heartbeats
  and never ends (527, 539; `StreamEnds` fails with `reconnect` in `Events`).
  `enqueue()` during a pause that has not taken effect returns a job that will be paused
  (454). If the row of a finished job could not be written, a restart offers it again as
  paused beside a newer job of the same file.

- Builds: another generator makes the build wipe the directory with the configured
  binary, although the comment says that nothing of value is lost (`build.py:517`), and a
  failure after that leaves no binary to start; if backend and generator both changed only
  the cache file is removed. Two requests may both start (340); a row stays `running`
  when the backend ends (356).
- Scans: a snapshot may have the version of one binary and the help text of the next.
- Benchmarks: an early cancel is lost (`bench.py:234`); two requests may both start (164).
- Watchdog: failure counts survive a stop and a start of the preset.
- RPC servers: `running_endpoints()` and `rpc_flag_value()` promise the configured order
  (`rpc_server.py:197`, 240-248), but the table keeps its keys where they are: when the settings
  are reordered, or a server is put before another, `RPC0` of the settings is another machine
  than `RPC0` of llama-server until the backend restarts (168-183). Two starts of one server may
  both spawn (`rpc_server.py:80`). A `stop()` resets the handle after its wait (142), even if a
  new start put its process there after the old one had ended; nobody can stop that process then.
  The same holds for a start whose entry the settings dropped (183), and for one from a list that
  a preset's start or the autostart took before (`supervisor.py:253`, `rpc_server.py:203`), which
  is not modelled. The shutdown stops them under llama-servers that live on; after a re-exec an
  RPC server of the old backend belongs to nobody.
- Proxy: a lease that the client brings is checked once for a whole request
  (`openai_proxy.py:100`); a stream whose generator never begins keeps its heartbeat, and so
  its lease (135).
- Metrics: a failed read of the counters counts as zero, so that the next idle frame reports all
  tokens there ever were as the rate of one interval. A task that ends between the two reads, or
  beside a failed read of the slots, is counted by its slot and by the counter, although frames
  at such boundaries are to avoid just that (`metrics.py:430-436`). A failed read of the slots
  closes all records, so that one task has two.
- Plans: the docstring of `fit_budget.py` (7, 49-52) speaks of the servers that LlamaDeck can
  stop, the code counts each process with "llama" in its name (215-219, pinned by
  `test_fit_budget.py:153-163`). A row that does not tell its card counts on every card of its
  vendor (99-112). A correction that was measured is not in the suggestion of a plan that is too
  big; negative corrections, shared memory and `-ot` can make a suggestion insufficient; a dense
  plan may be called too big although one more layer on the card would do, by a megabyte, because
  the layers and the megabytes they take are each rounded down (`fit_check.py:394`); a failed
  write of a correction is not retried until another value is measured.
- Registry: a rescan that is late removes rows of newer files and their last use; a
  projector that is replaced by another stays in the row; a root that is unplugged during a
  rescan loses when its models were last used.
- Router: a second preset of a model gets its own name as id "so clients can address both"
  (`router_ini.py:235-239`). Nothing keeps that name apart from other ids: a preset that is named
  like the model of an earlier one is one section with it, and a file with that id gets none.
  "Any GGUF without a preset" is to get a section (279-282), but of the files of one directory
  only the first does (293-295). Keys that were removed from the INI file show no drift; router
  presets without a path of their own share one file, and the boot refreshes only the first
  one's; it rewrites that file even if nothing changed, which marks an adopted router as stale.
- Commands: a router's command drops the fields of single models, limits of drafts are dropped
  when there is no drafter, and a typed `--rpc` is dropped for the servers of the settings
  (`argv.py:287-291`).
- Boot: the seeded router comes back after it was deleted; a models root set by `PUT /settings`,
  unlike the wizard's, does not repoint it. Who takes the default directory in the wizard
  repoints nothing (`setup_api.py:294-295`, pinned by `test_fresh_install_quiet.py:53-63`), and
  later boots skip the router and ask for the wizard, although the comment has it that the user
  has not been through it yet (`main.py:402-410`).

## Not modelled

Formatting, logging, log rings, HTTP layers, parsing of tool output, floating-point
estimates, the frontend and the scripts. `_persist()` of the downloads swallows database
errors; in the model it succeeds. Processes that cannot be killed do not exist in the
model, except those that may not be signalled.

Of the parts that are modelled, these are left out: `set_paths()` of the builds to another
checkout; the choice of the preset and the translation of requests in the proxy; the power
tracker, and the polls of a router's models, which differ from those of a single one in
where the slots come from; sizes from GGUF headers, the suggestion to quantise the cache,
and models in several files; escaping and number formats of commands and INI files, and
the list of flags; the output of `--help`, GitHub and the language model in scans; a user's
commands in the middle of one visit of the watchdog; how a path makes an id; a refresh of the
INI file that fails (`presets_api.py:105`), and a preset that `_repoint_factory_routers()` fails to
save (`setup_api.py:305`). `Lifecycle` gives a preset at most one process,
and several that compete for one preset are in `Supervisor`.

Stateless filters and parsers (`net_guard.py`, `devices.py`, `accel.py`), thin clients
(`mcp_server.py`, `cli.py`), the frontend and the scripts have no behaviour over time that
a model could add to their code.

## Plan

Done: the models, their runs, and proofs about the broker, the supervisor, the downloads and
all services that a safety property is about. What is left is `OpenAiProxy` composed with
`GpuBroker`, in place of the life of a lease.
