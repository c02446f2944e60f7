# EMIC in TLA+

EMIC (this repository) runs the energy equipment of a home: it reads meters,
prices and vehicles, charges cars, runs a spa pump, and hosts modules that add
integrations. This directory holds TLA+ models of the parts of it whose
correctness depends on the order in which things happen, the TLC configurations
that check them, and proofs about them.

Paths below are relative to `src/packages/energy-core/src/energy_core/` unless
they start with `backend/` or `collector/`.

## The system

One **collector** process (`collector/app/collector.py`) runs three lanes in an
endless loop; the fast lane reads meters and runs the charging engine. One
**backend** process (`backend/app`) serves the API. They share a database, the
directory of module packages and sockets, and Redis. What a user asks of the
charging engine reaches the collector through a row it loads at the start of its
next cycle; what a user asks of modules reaches it through the database, through
events in Redis, and, for packages, at the next start.

| component | state it keeps | operations | what is hard | what makes it correct |
|---|---|---|---|---|
| Smart charging state machine (`charging/state_machine.py`, `charging/policy`) | state, requested current, three condition timers, last start and stop, cooldown, starts of the last hour | `evaluate_smart_charging` | ten early returns, each leaving other fields alone; any order of pauses, faults, mode changes | bounded steps, off time, hourly limit, delays and minimum run time over whole histories; no wish ignored for ever |
| Command controller (`charging/command_controller.py`, `anti_flapping.py`) and charger (`chargers/halo_adapter.py`, `chargers/client.py`) | last applied and commanded current, time of the change; the connector's mode and limit | `apply`; `set_current`, `start_charging`, `stop_charging`, `get_status` | commands that fail, half succeed, or time out after they took effect; commands held back | what the controller believes is what the charger does; a stop gets there |
| Charging engine (`charging/engine.py`), cycle log (`db/ev_bridge_cycle_repo.py`), requests (`backend/app/api/ev_chargers.py`) | one runtime per charger in memory; a row and a log in the database | `run_cycle`, `_ensure_runtime`; set mode, set or clear the override | row loaded, charger read, commanded and row written at different moments; restarts; the lane timeout | user requests are not lost; a restart keeps the limits; the charger ends up doing what is wanted |
| Optimizer, solar plan, signal filter (`charging/optimizer.py`, ...) | solar timers, averages | `optimize_target` | stale data, deadlines | floats and forecasts; its order of decisions |
| Isolated module runtimes (`platform/modules/isolation`) with the device broker (`platform/modules/brokers`) | a record of each runtime, processes, sockets, RPC sessions, heartbeats, restart and miss counts | start, stop, restart, supervise, quarantine | process exits, missed heartbeats, operators and the security monitor at once; ticks that fail half-way; several managers and sessions, which read a record long before they write it; heartbeats nobody commits | what is out of service is cut off; restarts are counted and only for the silent; lost and revoked runtimes leave service |
| Module orchestrator (`platform/modules/orchestrator.py`, `runtime_registry.py`, `site_modules.py`, `platform/capabilities/registry.py`, `cache/module_pubsub.py`, `cache/module_runtime_state.py`) | status and capabilities of each module on each site, in the collector; the states Redis shows | start, stop, review of dependents, sync; enable, disable, restart | two tasks drive one orchestrator and interleave at every await; events that are early, late or lost; awaits that raise | what is enabled and can start runs, nothing else does, and the registries and Redis agree |
| Module packages (`platform/modules/packages`) | installed files, package records, backups | install, update, roll back, remove; the check when a process starts | files and records change in turn; mutations and starts overlap | record and files agree, nothing unverified is loaded, the way back is kept |
| Marketplace and governance (`platform/modules/marketplace`, `governance`, `distribution`, `supply_chain`, `store`) | trust cache, policies, staged artifacts | sync, stage, authorise | expiry, revocation | nothing revoked runs |
| Vehicles (`vehicles`) | connections, tokens, sessions of a vehicle | poll, connect, process a vehicle | reconnects, late data, restarts | one open session for each car |
| Spa pump (`spa_energy`) | start times, starts per day, cleaning runs | start, stop, tick | the daily budget, a restart during a run | budget kept, a run that began ends |
| EV accounting (`ev_accounting`, `consumer_accounting`) | sessions and intervals of energy in the database; the last reading, its time and whether a car was there in memory | open, sample, complete, resume, repair | memory and rows part when a pass is rolled back or the process restarts; readings and registers that reset | nothing counted twice, a session while a car is there, one total for a session |
| Energy control (`energy_control`), providers (`providers/resilience.py`), caches (`cache`) | gates, breaker, last good values | request, probe, invalidate | half-open probes, stale values | failures are bounded and recovered from |
| Forecasts, prices, balances | time series | estimation | numbers | out of scope |
| API, front ends, deployment | none of their own | views and single-row updates | | out of scope |

`PROJECT.json` lists the same components with what is and is not modelled, and
under "hazards" what in the code is hard to test, each at its line, with the
property that covers it.

## The modules

`Ages` turns timestamps into ages: the code stores a time, or None, and compares
its age with a duration; the models count the age in ticks and stop counting
when no comparison can change any more, so that a state space is finite without
losing any comparison.

`SmartCharging` is the state machine. Each way out of `evaluate_smart_charging`
is an action (`Fault`, `UserPaused`, `NoVehicle`, `CoolingDown`, `Reduce`,
`WaitToStop`, `Stop`, `StartRateLimited`, `WaitForExport`, `WaitToStart`,
`Start`, `Hold`, `Ramp`) and each variable a field of `SmartChargingRuntime`.
`Inputs` is a constant, what one call may find: a mode, an override, a target, a
place of the import relative to the deadband and the allowance, and so on.
`Tick` makes every timestamp older and the charger due again.
Currents are whole amperes (the code compares floats with a tolerance of
0.01 A), and the deadband is taken to lie within the import allowance, as it
does by default.

`ChargingGuardrails` is what the state machine promises, with four variables and
no word on how it decides: a start EMIC makes on its own waits out the off time
and is counted; a step is bounded; only charging the user asked for skips that.
`SmartCharging` implements it (`KeepsGuardrails`), with `current` mapped to the
requested current, `rest` to what is left of the off time since the last stop,
`recent` to the starts of the last hour and `userRun` to the policy of the last
decision.

`SmartChargingHistory` adds an observer, clocks which the code does not have, so that
the delays can be stated without the code's own timers. `SmartChargingSettled`
adds a world that comes to rest, to ask what happens in the end.

`ChargerCommands` is the command controller with its anti-flapping memory and
the charger it talks to: the outcomes of `apply` are the actions
(`Skip`, `Unreachable`, `NobodyThere`, `ConfirmStopped`, `KeepCommand`,
`HoldBack`, `Send`, `SendFails`, `SendCutOff`). A command that fails may have
done nothing, half of it or all; a cycle that is cut off is cancelled by the
lane timeout while a command is on its way. `MaxFailures` bounds both.

`ChargingEngine` composes the two with the row and the log in the database and
with the user's requests. One cycle is `Load`, `Decide`, `Command`, `Commit`,
with requests, cars, outages and crashes in between; the row is locked from the
first write of the cycle that reaches the database to its commit (`RowLocked`).
`Crash` loses the memory and restores it as `_ensure_runtime` does, in one step,
since nothing reads the memory in between. The two numbers `saved` and `log`
play in a restart are the code's own: columns for the state and the last stop,
the log for the starts.

`IsolatedRuntime` is the supervision of third-party modules. `row` is what the
tick in progress sees of the records and `saved` what is committed; `proc` is a
runtime's process, `served` the sockets on which someone listens, and `session`
says whether the process's session is valid there. A tick is `BeginTick` (the
listing), one `Supervise` for each listed record, `EndSupervise`, the `Restart`s
and `ScanAndCommit`. Between them the processes run (`ProcessCalls`, `ProcessPublishes`,
`Fails`, `GrowsOld`), modules are revoked (`Revoke`), and other sessions start and stop
runtimes. A handler is an operator on the world (`StopRuntime`, `HandleCrash`,
`MaybeRestart`, `Missed`) whose `ok` turns FALSE where `assert_transition` raises: the tick
is then abandoned, its records roll back, and processes and sockets stay as they are.
So they do when it fails of something else (`TickFails`); when the collector dies
(`CollectorDies`), its processes and sockets go with it.

Every writer of a record reads it before its UPDATE, and the UPDATE waits for the row.
A stop elsewhere (`AdminStop`, or `StopModule` for each runtime of a module) is therefore
several steps: it reads the record, and with it the path of the socket (`StopReads`, or
`AdminStop` itself); when no one holds the row it writes and removes the socket at the path
it read (`StopWrites`); it commits (`StopEnds`) or fails (`StopFails`), as the victim of a
deadlock does. `Locked` are the rows a tick has written, `Written` those a stop has, `open`
those with a heartbeat that is not committed; `Free` is when the tick's UPDATE need not
wait, and `Seen` what the tick may have read of a record before a stop that it waited for
changed it (`seen` holds it until the step is over, `ReadAnew`). A heartbeat
(`ProcessCalls`) is an UPDATE in the session of the manager that launched the process,
flushed and not committed: with the collector's wiring no tick sees it, and the row stays
locked, until that manager publishes readings (`ProcessPublishes`) or ends. Where the
manager is kept it shares the tick's session (`InTick`), so that the tick sees every
heartbeat, and a publication commits what the tick has written so far.
`wiring` says who keeps the manager: `kept` is the object the end-to-end tests
keep over many ticks, its opposite what the collector, the adapter and the API
do, a manager for each call, which knows no process and has counted no miss.

`ModuleOrchestrator` is one site's modules. `enabled` is what the database says
(overrides over the projection), `status` and `providers` the two registries in
the collector's memory, `shown` the keys in Redis, `events` the channel. A key
expires (`Expire`) whether its module runs or not: it lives for 90 seconds, a pass of
the fast lane, which refreshes it once, may take longer, and what is gone is not
refreshed. `lapsed` remembers the modules to which that happened as they ran.
`stack` holds for each of the two tasks, the fast `lane` and the `listener`, the
coroutines it is in: `start_module`, `stop_module`, `_reevaluate_dependents` and
`sync_site` call each other, and a step runs from one await to the next
(`ReadEnabled`, `DecideStart`, `Starting`, `Launch`, `Register`, `Started`, ...).
A callee that returns lets its caller go on without an await, which `GoesOn`
tells from a point where the other task may run. `BeginCheck` and `EndCheck` are
the engine's check whether smart charging may start, which empties the
capabilities of the site and fills them again with those of every module that is
enabled, whether it runs yet or not. `FollowsEvents` and `RegistryAgrees` make an
exception for that (`checks = 0`), and `FollowsEvents` speaks only of a module whose
suppliers all run in the collector (`SuppliedWithin`): an isolated package that
starts or stops has no dependents reviewed. A module of `Isolated` is an
installed package, whose start and stop (`Launch`, `Halt`) are those of
`IsolatedRuntime`, here one step that brings a runtime or does not
(`LaunchFails`). `Raises` is an await that raises: it unwinds the stack to the
innermost `try` of a start, or ends the setup, the listener or this
reconciliation. `calm` remembers whether anything has come between the steps of
a task so far.

`PackageLifecycle` is one package: its `row`, its directories `installed` and
`backup` by version, the requests `req` in flight and the start of each process.
A request reads, validates and awaits (`Begin...`), works on the files under the
lock without an await (`InstallFiles`, `UpdateFiles`, `RemoveFiles`; `Restore`
without the lock), and selects and stores the record (`Select`, `Store`). The
code of a record is told apart by its archive, so that a checksum is the archive
that has it. `Halfway` is what a crash (`BackendDies`) or a full disk
(`DiskFault`) may leave of the work on the files, and where in the updater's
`try` it happened decides whether it rolls back; a copy that is cut off may leave
the manifest itself cut short (`Torn`). `LockFault` is the lock file that cannot be
written, when the lock is taken and the `try` that releases it is not reached: `lock` is
then "backend", for no request, and free only after a restart. A start is `List`,
`BeginPacking`, `EndPacking`, `Compare`, `Load`, or the quarantine
(`SelectQuarantine`, `StoreQuarantine`); both processes pack into the one file
`scratch`. What raises outside the `try` of the check ends the start of the process
(`Fails`): the manifest that is cut short, each time; a full disk, or a file that
vanishes while it is packed (`Raises`), once. `RollbackPointIntact` leaves out a record that a failed update put back:
the update may have replaced the backup that record offers. `imported` is the code that stays in the backend's `sys.modules` once
the health gate has run.

`EvAccounting` is the accounting of one charger. `sessions` and `intervals` are
the committed rows (`intervals[k]` the sequence of those of session k), `runtime` the `ChargerSessionState` in memory. A pass of the
medium lane is `ProcessCharger` (a car that comes opens a session, one that goes
completes it) and then `SampleActive`, both operators on the memory and the
transaction together; `Pass` takes both, `RolledBackPass` only as much of the
memory as was written before something failed. The lane swallows exceptions and
shares one transaction with later tasks, so that rolled-back rows never stop the
process; an error in a statement makes the transaction unusable, as in
PostgreSQL, which is why rows are lost as a whole. `Restart` is a new process with
`resume_active_sessions`. `energy`, and with it `drawn` and `upTo` of a session,
is what the car really drew, which the code never knows; the readings may lack the
register, the power is that of the moment and may miss what is drawn between two
passes. `Duplicates` and `RepairedTotal` are what the repair script would drop and
write.

Which lines of the code a definition stands for is in `PROJECT.json`, "map".

## The runs

| run | question | bounds | answer |
|---|---|---|---|
| `MCSmartChargingHistory` | is the runtime consistent after any history, within the guardrails, and are the delays and the minimum run time kept? | currents 3..5, steps 1 and 2, delays 1, off time 2, run time 3, hour 5 with 2 starts; all four kinds of mode and an override | holds |
| `MCSmartChargingSettled` | does a settled input get what it asks for? | delays 1, run time 2, target 4 of 3..5 | holds |
| `MCChargingEngine` | the invariants of the whole engine, with one failure and one restart anywhere | currents 2..3, change interval 2, smart charging and the pause | holds |
| `MCChargingEngineLive` | does the charger end up as wanted, and does a pause win over everything in flight, with one failure or one restart anywhere (`OneFault`)? | one current, a wish that comes and goes, overrides, pause | holds, unless a restart mistakes what was last sent |
| `MCIsolatedRuntime` | is every runtime out of service cut off, whoever stopped it, whatever the stop had read, and wherever a tick was abandoned? | two runtimes that may come to share a socket, one restart, one stop elsewhere at a time, the collector's wiring, processes that die | holds, but for the two ways astray it names |
| `MCIsolatedRuntimeLive` | are launches counted, only the silent restarted, and do lost and revoked runtimes leave service? | one runtime, two restarts, one stop elsewhere at a time, one death of the collector or failure of its tick, processes that die or hang, a kept manager with two misses and a new one with one miss | holds, if no heartbeat stays uncommitted |
| `MCHeartbeatMiss` | is a lost runtime stopped with the collector's wiring and a threshold of two? | one runtime, one restart, no stop elsewhere | it stays DEGRADED: nobody counts to two |
| `MCModuleOrchestrator` | do the modules follow the database, by event in calm and by reconciliation in any case, and do the registries and Redis agree, but for keys that lapsed? | a charger, a feature that needs it, a package that needs both; one change, one check and one fault anywhere | holds |
| `MCUnsuppliedModule` | does a module end up running only with what it requires? | the charger and the feature, two changes, no fault | a start that overlaps the stop of its provider runs on without it |
| `MCPackageLifecycle` | do record and files agree whatever overlaps, and does a start load only what the record names, also after a crash or a full disk; does a lock come free and a process come up, but for the two exceptions? | two versions, the second also in a build that does not import and one that is unhealthy; two requests and two processes, three events, one fault | holds |
| `MCEvAccounting` | is energy booked once, a session open while a car is there, and the repair of the same opinion? | time 4, a car that may be there at first and comes once more, with or without a register that resets; two faults, rollbacks or restarts | holds |
| `MCRolledBackPackage` | is a package that was rolled back loadable? | one request, two events | its checksum is that of the version it left |

The violated properties quote what a docstring, a document or a test says; each has its
entry under "findings". They say where the code and that sentence part, not that
the code was meant to do otherwise. More things the models show are kept
out of the runs, most of them because no document speaks of them. Of charging: a condition timer that runs
when a pause or a fault comes keeps its beginning (`Fault` and `UserPaused` leave
`startSince` and `stopSince` alone, and so does `Start` the latter); a stop whose
command failed is repeated only after the cooldown; a ramp step that the controller
holds back (`HoldBack`) is never made up for when it was the last one, so that the
charger keeps the old limit; a restart takes the requested current of the row for the
last command sent (`engine.py:379`), so that, when a fault or a departed car had kept it from the
charger, the current that `state_machine.py:162-167` issues again for an idle charger is
held back as a duplicate until something else changes (`Mistaken`, the exception of
`WantedChargingRuns`); and a start that follows an
unplugging is missing from the starts a restart reads back from the log. Of
packages: two starts at once can quarantine a healthy one, since they share
`.verify-loader.zip`; a gate whose import raises, unlike one that fails, rolls
back or quarantines the version in service; two updates that overlap may step back
together, and an update may bring back a module removed meanwhile; an update
within one version, followed by a refused one, loses its backup; an
update that raises after its backup puts back a record whose own backup may be of
another archive by now; a request that cannot write the lock file (`package_lock.py:37-40`) keeps
the lock until the backend restarts, and every mutation of the module until then ends
PACKAGE_LOCKED (the exception of `LockIsReleased`); and a manifest that is cut short, as a
rollback leaves it that a crash or a full disk ends while it copies over the version
in service, raises out of the load (`loader.py:64`) and keeps backend and collector from
starting (`Unreadable`, the exception of `ProcessesComeUp`). Of isolated
runtimes, what the properties name as exceptions: a stop that read the path of the
socket before a tick restarted the runtime at another (the address the tick's manager
listened on last) removes the old one, records STOPPED and leaves the process running and
reachable (`astray`); so does a restart whose tick fails before its commit; a heartbeat
that its manager does not commit leaves the process silent in the eyes of every tick,
which restarts it however well it is, and keeps the row locked for whoever would stop or
quarantine it, for good if the process dies before a publication
(`HeartbeatsCommitted`). Of the
orchestrator: a check of the charging engine registers capabilities of modules
that are enabled and have not started, on which a module may start that nothing
supplies; a package that stops or starts leaves its dependents running or blocked
until the next reconciliation; an isolated start or stop that raises leaves STARTING or STOPPING,
and a running module whose key in Redis is lost, be it that one pass of the fast lane took
longer than the 90 seconds of the key, is not shown until its next start (`lapsed`, the
exception of `RegistryAgrees`).
Of the accounting: when the opening of a session is rolled back, the car charges
without one until it leaves or the process restarts; when a completion is, the
session stays open, and takes in the next car; an idle car leaves no interval, so
that a session is resumed after a restart where the last interval ended, not, as
`resume_active_sessions` says, "where sampling actually left off", and an estimate
may take the idle time for charging; and a car that begins to draw just when the
meter is read has that power booked for the whole interval before, in which it
drew nothing, until the meter total corrects it.

Why the bounds are enough. The state machine only compares: a current with its
limits and the last current, an age with a duration. Three currents give a step
that stays, one that ends at the target and one cut short by it; durations of
one to three ticks give every order of two timers that run out; an hour longer
than two off times admits the limit of two starts, and an old one that expires
while another counts. The liveness runs use the least values with which every
timer still matters. In the engine, one failure and one crash at any point
between any two steps already meet every interleaving with a request; two of
each were too many states for the answer to be had in minutes. The liveness run has one of
either, with overrides; with one of each and no override its properties hold too (250,000
states, once). Two runtimes are
the fewest that can share a socket, that make one abandon what the tick did for
the other, and that let a module's stop fail half-way; the restart and miss
counts are compared with their limits only, so limits of one and two show every
order of reaching them. A site has providers, what needs them, and packages that
depend on features: one of each gives every kind of review and a chain of two.
One change already lets the listener and the lane act on the same modules at
once, since the setup and the reconciliations follow each other without end; the
safety properties of a calm site were also checked, once, with two changes and a check and
no fault (six million states). Of a
package, two requests are the fewest that overlap and three events the fewest
that update, update or roll back, and restart; one fault at any point stands for
a crash at that point. In the accounting five passes and two faults
are the fewest with an interval, a rollback, a restart and the intervals after
them; one more car gives two sessions, or one that takes in both.

Fairness. The collector's loop calls the engine again and again, and the lane
timeout bounds each call, hence weak fairness of a cycle's steps; time passes,
hence weak fairness of the tick. Nothing is assumed of users, cars or the
optimizer. For the isolated runtimes, strong fairness of the tick's steps: the fast lane
runs it again and again, and an await of it that waits for a row ends once nobody else
holds that row, since the database grants row locks in the order they were asked for, so
that a process that calls again and again cannot overtake it for ever. It does wait for
ever for a row that is never released; the liveness properties assume that there is none
(`HeartbeatsCommitted`) and do not claim that the code sees to it. Weak fairness of a stop
under way, of the aging of a heartbeat and of the calls of a process that is well; none of
starts, publications, revocations or failures, none that begins a stop, and in particular
none that makes a hung process recover or die.
For the orchestrator, weak fairness of the lane, which
runs for ever, and strong fairness of the listener: the event loop of asyncio
runs the tasks that are ready in turn, so that a listener which may go on again
and again, whenever the lane awaits, does go on; weak fairness of a commit and of
the expiry of a key in Redis whose module does not run, since only that of a running one
is ever prolonged. For packages, weak fairness of each request in
flight and of each start, since every await in them returns and a process that is
down is started again by its supervisor.
Failures and crashes are bounded by counters, which stands for the
assumption that they end; the liveness properties speak of a demand that
settles (`<>[]...`) with the charger online.

Every property has a mutant: a change a plausible bug would make (a timer that
is not reset, a limit off by one, a column that is not restored), under which
TLC finds that property violated. The mutated operators stand next to the
originals, under the comment "Mutant".

## The proofs

TLC checks small instances; the modules below prove the same properties for every
value of the constants: any currents and delays, any number of runtimes,
modules, dependencies, requests, versions, cars, crashes and failures, behaviours of any
length. Each proves an inductive invariant, stated as a conjunction of named parts
that say what the code relies on, and derives the properties from it.

**`SmartChargingProofs`** (assumes `CurrentAssumption`, `TimeAssumption`,
`InputAssumption`, `NoneAssumption`: the least current is positive and no larger than
the greatest, durations are natural numbers, `Inputs` are inputs).

- `TypeCorrect`: `TypeOK`. Its content is the current, zero or within the charger's
  limits; `RampBounds` and `ClampedTarget` say why.
- `StateMatches`: the state says whether a current is requested. The start path
  is entered from an idle state or with nothing requested, so the returns that
  assign only the state are harmless because the two agreed before.
- `CooldownMatches`: cooldown and last stop agree and nothing is requested during a
  cooldown. A tick takes one off the first and adds one to the second, which
  cannot be at its bound while the first is positive.
- `HourlyLimitKept`: no sliding hour holds more automatic starts than allowed. A
  cycle adds at most one, under the guard of `_start_allowed`; a tick maps the
  starts of the hour onto those that remain.
- `ImplementsGuardrails`: the state machine implements `ChargingGuardrails`, if
  one step is smaller than the least current. The assumption is needed: with a
  larger step the stop path of a session in its minimum run time raises a
  requested current of zero to the least current (`Reduce`), a start that no limit
  sees. Each action maps to an adjustment, a release, a stop or one of the two
  starts; `StateMatchesRequest` is what makes `Start` a start.

**`SmartChargingHistoryProofs`** proves the properties over histories. The observer
changes nothing (`Observes`), so what is proved of `Spec` holds. The invariants are
`StartTimerHonest` and `StopTimerHonest`: a condition timer of the code, when it runs,
is no older than the observer's clock. Pauses and faults leave both alone; a
cooldown leaves start_condition_since alone while the wish may come and go, which is
harmless only because a cooldown begins with a stop, which ended the timer (`cooldown
> 0 => startSince = None`), and nothing is requested during it. From them follow
`StartDelays` (with the same assumption on the step: the stop path's `Reduce` must not be a
start) and `StopDelays`; `MinimumRuns` follows from `StateMatchesRequest`,
`CooldownMatchesStop` and the bounds of the ramp.

**`ChargingEngineProofs`** (also `CommandAssumption`, `EngineAssumption`) uses the
lemmas on one call again. `EngineInv` adds to the types that a row from which a
restart may go on says the same of state and request (`SavedMatches`, else a restart
would undo `StateMatchesRequest`), that a charger in a cycle has no cycle of this
moment in its log (`LogIsPast`), and that the memory knows of a stop at least as
recent as the committed one (`StopKnown`). `EngineTypeCorrect`,
`EngineStateMatches` and `LimitIsKnown` follow; `CommittedStopsRest` needs
`StopKnown` and, as above, the assumption on the step.

**`IsolatedRuntimeProofs`** (`RuntimeAssumption`). A tick writes records that may never be
committed while processes and sockets change at once, so that the invariant relates,
runtime by runtime, the record of the tick to the committed one, and both to process,
handle, socket and session; what a stop under way has written no tick has (`WrittenSound`),
what a tick may have read that no longer holds is of a runtime stopped since (`SeenSound`),
and a runtime is cut off from the moment a stop has written its record, before that is
committed (`OutOfService`), since that stop removed the socket long before. Handlers are operators on a world; each has a lemma on
what it does to its own runtime (`RestartDone`, `Dealt`, ...) and that it leaves the others
(`Elsewhere`), or, where two runtimes come to share a socket, only less served
(`OthersUnserved`). `RuntimeTypeCorrect`, `OutOfServiceStaysCutOff`, `LaunchesStayCounted`
and `OnlySilentRestart` follow.

**`ModuleOrchestratorProofs`** (`OrchestratorAssumption`: the order of the registry is
injective, dependencies are modules, and `None` is neither a module nor a change). `OrchestratorInv` says of each module that a
coroutine attends to it while it is STARTING or STOPPING and nothing has raised (`Attended`);
in a calm site, that registry, capabilities and what was last published of it
(`Published`, what Redis shows and what lapsed) agree but for what the
coroutine on top of a stack is about to write (`Agrees`); that the coroutine on top
knows what is enabled (`Knowing`), is the only one (`Alone`), and that what it does
not know yet is announced by an event (`Announced`). `OrchestratorTypeCorrect`,
`NoModuleHangs` and `RegistriesAgree` follow. Stacks are of any depth.

**`FollowsEventsProofs`** (the same assumption) goes on from `OrchestratorInv` to
`EventsAreFollowed`. `FollowsEvents` is far from inductive: between an event and rest there
is a stack of starts, stops and reviews, each of which may find other modules started or
stopped than its caller did. `Following` says, in a calm site, what is still to come for
each module:

- `Sought`: an enabled module with all dependencies enabled and its needs met by modules
  that are there to stay (`Eager`) runs, or has a cause on its way: an event (`Coming`), a
  coroutine anywhere on the stack that starts it (`Promises`) or reviews it and tries
  (`Tries`), or, while it is BLOCKED, a review or the start of a dependency, whose end
  reviews it (`Moves`, `ComesFor`). One whose dependencies are not enabled is BLOCKED or
  has a start on its way; and if it is about to be stopped, it is also about to be started.
- `Shed`: a module that runs and is not supplied has a coroutine that will stop it, a review
  with it in `todo` or the stop of a module, which ends in a review (`Sheds`).
- `Furnished`: a start past its check is of a module that is supplied.
- `Heralded`: a change that is about to enable a module has published its event.
- `Current`: a review in its loop has read what is still enabled, and what a
  reconciliation is to stop is not.

The lemmas go from coroutines to modules: `BecomesSwaps`, `CallsSwaps` and `ReturnsSwaps` say
what a step does to the set of coroutines of a stack of any depth; `StepFollowed` reduces a
step of a task to what its innermost coroutine hands on (`Passes`) and to the module it is
about; the rest is one lemma per action. A review is the hard case (`ReviewFollowed`): what
it passes over on its way must have needed nothing, and what it starts or stops makes other
modules eager or unsupplied. At rest there are no coroutines and no events, so that every
cause is gone and `FollowsEvents` is left.

**`PackageLifecycleProofs`** (`PackageAssumption`, `RecordAssumption`).
The lock is held by the request between its work on the files and its commit, unless
it is a rollback, which takes none; as long as nothing was disturbed there is at most
one such request, what it is about to store fits the files, what it read is still the
record, and without one the record itself fits; and a start that nothing overlapped
has listed the record as it is. `RecordsMatchFiles`, `RollbackPointsStay`,
`OnlyVerifiedCode` and `QuarantinesJustified` follow.

**`EvAccountingProofs`** (`AccountingAssumption`). The invariant is stated of the memory
and the rows together, since a pass that is rolled back keeps the one without the
other. The intervals of a session are in the order of time and of what was read, the
last one ends no later than `runtime.at`, only the last session is active, and a
completed session has the total of its intervals or of its register.
`NothingCountedTwice`, `SessionsFollowCars` and `RepairIsIdle` follow. That a sum of intervals
is a number would need an induction over the sequence; the types speak of `Totals`
instead, the numbers and the sums.

Only model-checked: what happens in the end, which speaks of fairness and of ENABLED
(`EventuallyCharges`, `StopIsRepeated`, `ReachesTarget`, `UnwantedChargingEnds`,
`WantedChargingRuns`, `PauseTakesEffect`, `LostRuntimesEnd`, `RevokedRuntimesEnd`,
`EnabledModulesRun`, `DisabledModulesStop`, `ShownModulesRun`, `LockIsReleased`,
`ProcessesComeUp`). Every invariant and every safety action property of a passing run
is a theorem.

## What is not modelled

Of the charging core: the optimizer's arithmetic (the wish is any value), stale
energy data (a wish of zero), RFID-locked connectors, chargers that lack a
capability, meters of another make, the retries inside the HTTP client (a
command is done, refused, or done and not acknowledged), more than one charger
(their runtimes share nothing but the session), two requests of the user that
read the row at the same moment.

Of the isolated runtimes: the policy, governance and digest checks before a start
(of which only revocations matter later), broker provisioning, RPC methods other
than the health call, events, and control leases, which are revoked but never
created by anything in `src/`. A start is a single step (its record is new, and nobody else
knows it before the commit), a stop is written, torn down and recorded as STOPPED in one
(its transaction holds the row between the two UPDATEs), the backoff sleep is inside
`Supervise`, and sockets are those of Linux, in the directory that the
collector and the backend share. Readings are left out: a publication is the commit it ends
with. That one await of a session used by two coroutines at once may raise is part of
`TickFails`. DEGRADED is
never left for RUNNING, as in the code. A process that outlives its record's stop
is refused at its next call and exits; one that is hung is not, and stays until
the collector dies.

Of the orchestrator: more than one site (they share only the task that runs
them, and the listener's session), legacy names of modules, `module_gate_enabled`
off, circular dependencies, and modules whose handler does something
(`LaneModuleHandler` does nothing; the stop of a handler that raises is left out
with it). `mark_site_modules_dirty` marks in the memory of the backend what only
the collector would read, so `_sync_dirty_module_sites` never finds any. A
publication to Redis succeeds or is lost later, as `Flush` or `Expire`. The API of the
backend has registries of its own, in which every enabled module is a provider.

Of packages: validation, signatures and trust (an archive is one that passes),
migrations, the impact analysis (a removal is of a module that nothing uses),
configuration and data directories, staging directories (the one an update moves from is
used under the lock; `validate-<version>`, to which an archive is unpacked to be validated,
is used before it, so that two requests with one version share it), the file lock, which nobody reads, and the store and marketplace,
which end in the same install and update. Old directories of other versions stay
where they are, as in the code.

Of the accounting: the split by source and the costs, whose sums follow the
energy; the tolerance and the rounding of 0.05 kWh (energy is whole units); more
than one charger, which share the transaction and so only the rollback; the
battery ledger, statistics, events on the bus; and a failing statement that leaves
the transaction usable, as SQLite may.

Of the rest of the system: the components marked
so in `PROJECT.json`, with the reason.

## Plan

In this order, each with its MC module, mutants and hazards:

1. `VehicleSessions`: the sessions of a car across disconnects and restarts.
2. `SpaActuator`: starts per day, cleaning runs, the degraded flag, a pump whose
   stop time is lost with a restart.
3. `CircuitBreaker` (half-open probes) and last-known-good values; the trust cache
   and its expiry.
4. The optimizer's solar timers (`optimizer.py`) and `ExternalLimitation`.
