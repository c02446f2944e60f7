------------------------- MODULE ModuleOrchestrator -------------------------
(***************************************************************************)
(* The modules of one site: what the database enables, what the collector  *)
(* runs, and what Redis shows of it to the API.                            *)
(*                                                                         *)
(* Two tasks of the collector drive one ModuleOrchestrator: the fast lane, *)
(* which reconciles the site every two minutes, and the listener, which    *)
(* takes the events of the API from Redis.  Each is here a stack of the    *)
(* coroutines it is in, the innermost first, and a step goes from one      *)
(* await to the next; between two steps the other task may run.  The lane  *)
(* also runs the charging engine, which rebuilds the same registry of      *)
(* capabilities.  An await may raise.                                      *)
(***************************************************************************)
EXTENDS Integers, Sequences, FiniteSets

CONSTANTS
    Modules,
    Rank,        \* their order in default_module_registry
    Deps,        \* ModuleDescriptor.dependencies
    Requires,    \* capabilities_required
    Provides,    \* the capabilities that a module registers when it runs
    Isolated,    \* the installed packages, each in a process of its own
    Charging,    \* feature.smart-charging
    Initially,   \* what may be enabled when the collector starts first
    MaxChanges,  \* requests to the API in a behaviour (a bound)
    MaxChecks,   \* checks of the charging engine in a behaviour (a bound)
    MaxFaults,   \* errors and crashes in a behaviour (a bound)
    None

ASSUME OrchestratorAssumption ==
    /\ Rank \in [Modules -> Nat]
    /\ \A m, n \in Modules : Rank[m] = Rank[n] => m = n
    /\ Deps \in [Modules -> SUBSET Modules]
    /\ DOMAIN Requires = Modules /\ DOMAIN Provides = Modules
    /\ Initially \subseteq SUBSET Modules
    /\ Isolated \subseteq Modules /\ Charging \in Modules
    /\ {MaxChanges, MaxChecks, MaxFaults} \subseteq Nat
    /\ None \notin Modules \cup [module: Modules, on: BOOLEAN]

VARIABLES
    enabled,    \* what the database enables: overrides over the projection
    pending,    \* a change of the API that is published and not committed
    events,     \* the messages in the channel emic:events:modules
    status,     \* ModuleRuntimeRegistry: the state of each module
    providers,  \* CapabilityRegistry: the modules whose capabilities it holds
    shown,      \* the modules that Redis shows to be running
    lapsed,     \* history: those whose key expired since, although they ran
    stack,      \* the coroutines that each task is in
    listening,  \* whether the listener is alive
    booting,    \* whether the collector is still in setup
    changes, checks, faults,
    calm        \* history: nothing has yet come between the steps of a task

world  == <<enabled, pending, events>>
display == <<shown, lapsed>>
site   == <<status, providers, display>>
tasks  == <<stack, listening, booting>>
counts == <<changes, checks, faults>>
vars   == <<world, site, tasks, counts, calm>>

Tasks == {"lane", "listener"}

\* A coroutine: its name, the module it is about and the await it is at; the
\* enabled modules it read and those it has still to look at.
Frame == [op |-> "", module |-> None, stage |-> "read", try |-> FALSE,
          mods |-> {}, todo |-> {}]

StartOf(m)       == [Frame EXCEPT !.op = "start", !.module = m]
StopOf(m)        == [Frame EXCEPT !.op = "stop", !.module = m, !.stage = "stopping"]
MarkOf(m)        == [Frame EXCEPT !.op = "mark", !.module = m, !.stage = "mark"]
ReviewOf(m, try) == [Frame EXCEPT !.op = "review", !.module = m, !.try = try]
SyncOf           == [Frame EXCEPT !.op = "sync"]
CheckOf(mods)    == [Frame EXCEPT !.op = "check", !.stage = "check", !.mods = mods]
RestartOf(m)     == [Frame EXCEPT !.op = "restart", !.module = m, !.stage = "start"]

Top(t)         == Head(stack[t])
At(t, stage)   == stack[t] # <<>> /\ Top(t).stage = stage

Becomes(t, f)  == stack' = [stack EXCEPT ![t] = <<f>> \o Tail(@)]
Goes(t, stage) == Becomes(t, [Top(t) EXCEPT !.stage = stage, !.mods = {}])
Calls(t, f, g) == stack' = [stack EXCEPT ![t] = <<g, f>> \o Tail(@)]
Returns(t)     == stack' = [stack EXCEPT ![t] = Tail(@)]

\* Collector.setup reconciles the site, and there is no listener yet.
Booted == [t \in Tasks |-> IF t = "lane" THEN <<SyncOf>> ELSE <<>>]

\* Whether a coroutine goes on where another one returned to it, with no await
\* in between: then nothing else runs.
GoesOn(t) == \E stage \in {"reviewed", "loop", "stops", "starts", "start"} : At(t, stage)

-----------------------------------------------------------------------------
(* ModuleDependencyResolver and CapabilityRegistry.                        *)

Suppliers == {m \in Modules : Provides[m] # {}}

\* can_start: a dependency must be enabled, a capability must be registered.
CanStart(m, mods) ==
    /\ Deps[m] \subseteq mods
    /\ Requires[m] \subseteq UNION {Provides[n] : n \in providers}

\* can_disable, against the registry of the backend, where every enabled module
\* is a provider.
CanDisable(m) ==
    m \in enabled =>
        \A n \in enabled \ {m} :
            /\ m \notin Deps[n]
            /\ Requires[n] \cap Provides[m]
                 \subseteq UNION {Provides[o] : o \in enabled \ {m}}

-----------------------------------------------------------------------------
(* The API and the configuration.                                          *)

Change == changes < MaxChanges /\ changes' = changes + 1

\* publish: a message that nobody listens for is gone, and one may be lost.
Publishes(event) ==
    \/ listening /\ events' = Append(events, event)
    \/ UNCHANGED events

\* SiteModuleService.set_enabled: the event is out before the commit.
SetEnabled(m, on) ==
    /\ pending = None
    /\ ~on => CanDisable(m)
    /\ Change
    /\ Publishes([module |-> m, what |-> IF on THEN "enable" ELSE "disable"])
    /\ pending' = [module |-> m, on |-> on]
    /\ UNCHANGED <<enabled, site, tasks, checks, faults>>

Commit ==
    /\ pending # None
    /\ enabled' = IF pending.on THEN enabled \cup {pending.module}
                                ELSE enabled \ {pending.module}
    /\ pending' = None
    /\ UNCHANGED <<events, site, tasks, counts>>

\* ModuleApplyService.apply_module
Apply(m) ==
    /\ m \in enabled
    /\ Change
    /\ Publishes([module |-> m, what |-> "restart"])
    /\ UNCHANGED <<enabled, pending, site, tasks, checks, faults>>

\* _project_enabled: a charger, a connection or a setting changes elsewhere,
\* and with it what is enabled, unasked and without an event.
Reconfigure(m) ==
    /\ Change
    /\ enabled' = IF m \in enabled THEN enabled \ {m} ELSE enabled \cup {m}
    /\ UNCHANGED <<pending, events, site, tasks, checks, faults>>

-----------------------------------------------------------------------------
(* The registry, and _emit_runtime_state.                                  *)

Marks(m, state) == status' = [status EXCEPT ![m] = state]

Emits(m, state) ==
    /\ shown' = IF state = "running" THEN shown \cup {m} ELSE shown \ {m}
    /\ lapsed' = lapsed \ {m}

Steps == UNCHANGED <<world, listening, booting, counts>>

\* The modules that a review of m looks at.
Affected(m, mods) == {n \in mods \ {m} : m \in Deps[n] \/ Requires[n] # {}}

\* resolve_enabled_modules; what is read is used after the await.
ReadEnabled(t) ==
    LET f == Top(t)
    IN  /\ At(t, "read")
        /\ Becomes(t, [f EXCEPT !.stage = "decide", !.mods = enabled,
                                !.todo = IF f.op = "review" THEN Affected(f.module, enabled) ELSE {}])
        /\ Steps /\ UNCHANGED site

-----------------------------------------------------------------------------
(* start_module.  A module that runs or starts is not started again.       *)

\* Mutant: a blocked module counts as dealt with.
Startable_NotBlocked(m) == status[m] \notin {"running", "starting", "blocked"}

Startable(m) == status[m] \notin {"running", "starting"}

\* Mutant: a start is marked before it is checked whether the module is enabled.
DecideStart_MarksFirst(t) ==
    LET m    == Top(t).module
        mods == Top(t).mods
    IN  /\ At(t, "decide") /\ Top(t).op = "start"
        /\ CASE m \notin mods      -> Marks(m, "starting") /\ Goes(t, "refused")
             [] m \in mods /\ CanStart(m, mods)  -> Marks(m, "starting") /\ Goes(t, "starting")
             [] m \in mods /\ ~CanStart(m, mods) -> Marks(m, "blocked") /\ Goes(t, "blocked")
        /\ Steps /\ UNCHANGED <<providers, display>>

DecideStart(t) ==
    LET m    == Top(t).module
        mods == Top(t).mods
    IN  /\ At(t, "decide") /\ Top(t).op = "start"
        /\ CASE m \notin mods      -> Marks(m, "stopped") /\ Goes(t, "refused")
             [] m \in mods /\ CanStart(m, mods)  -> Marks(m, "starting") /\ Goes(t, "starting")
             [] m \in mods /\ ~CanStart(m, mods) -> Marks(m, "blocked") /\ Goes(t, "blocked")
        /\ Steps /\ UNCHANGED <<providers, display>>

Refused(t) ==
    /\ At(t, "refused")
    /\ Emits(Top(t).module, "stopped")
    /\ Returns(t)
    /\ Steps /\ UNCHANGED <<status, providers>>

Blocked(t) ==
    LET m == Top(t).module
    IN  /\ At(t, "blocked")
        /\ Emits(m, "blocked")
        /\ providers' = providers \ {m}
        /\ Becomes(t, ReviewOf(m, FALSE))
        /\ Steps /\ UNCHANGED status

Starting(t) ==
    LET m == Top(t).module
    IN  /\ At(t, "starting")
        /\ Emits(m, "starting")
        /\ Goes(t, IF m \in Isolated THEN "launch" ELSE "register")
        /\ Steps /\ UNCHANGED <<status, providers>>

\* IsolatedModuleAdapter.start brings a runtime.
Launch(t) ==
    LET m == Top(t).module
    IN  /\ At(t, "launch")
        /\ Marks(m, "running")
        /\ providers' = providers \cup ({m} \cap Suppliers)
        /\ Goes(t, "running")
        /\ Steps /\ UNCHANGED display

LaunchBlocked(t) ==
    /\ At(t, "launchBlocked")
    /\ Emits(Top(t).module, "blocked")
    /\ Returns(t)
    /\ Steps /\ UNCHANGED <<status, providers>>

\* LaneModuleHandler.start does nothing; register_capabilities_for_module.
Register(t) ==
    LET m == Top(t).module
    IN  /\ At(t, "register")
        /\ providers' = providers \cup ({m} \cap Suppliers)
        /\ Marks(m, "running")
        /\ Goes(t, "running")
        /\ Steps /\ UNCHANGED display

\* Mutant: the review after a start does not start the dependents.
Started_TriesNone(t) ==
    LET m == Top(t).module
    IN  /\ At(t, "running")
        /\ Emits(m, "running")
        /\ IF m \in Isolated THEN Returns(t)
           ELSE Calls(t, [Top(t) EXCEPT !.stage = "reviewed"], ReviewOf(m, FALSE))
        /\ Steps /\ UNCHANGED <<status, providers>>

\* Only a module that runs in the collector has its dependents reviewed.
Started(t) ==
    LET m == Top(t).module
    IN  /\ At(t, "running")
        /\ Emits(m, "running")
        /\ IF m \in Isolated THEN Returns(t)
           ELSE Calls(t, [Top(t) EXCEPT !.stage = "reviewed"], ReviewOf(m, TRUE))
        /\ Steps /\ UNCHANGED <<status, providers>>

Reviewed(t) ==
    /\ At(t, "reviewed")
    /\ Returns(t)
    /\ Steps /\ UNCHANGED site

\* The end of the except branch.
Failed(t) ==
    LET m == Top(t).module
    IN  /\ At(t, "failed")
        /\ Emits(m, "failed")
        /\ providers' = providers \ {m}
        /\ Returns(t)
        /\ Steps /\ UNCHANGED status

-----------------------------------------------------------------------------
(* stop_module.  A module that is stopped or stopping is left alone.       *)

Stoppable(m) == status[m] \notin {"stopped", "stopping"}

\* Mutant: a stop does not unregister the capabilities.
Stops_Registered(t, m) ==
    /\ Marks(m, "stopped")
    /\ Goes(t, "stopped")
    /\ UNCHANGED providers

\* The last lines of a stop, up to its next await.
Stops(t, m) ==
    /\ providers' = providers \ {m}
    /\ Marks(m, "stopped")
    /\ Goes(t, "stopped")

Stopping(t) ==
    LET m == Top(t).module
    IN  /\ At(t, "stopping")
        /\ Emits(m, "stopping")
        /\ IF m \in Isolated THEN Goes(t, "halt") /\ UNCHANGED <<status, providers>>
           ELSE Stops(t, m)
        /\ Steps

\* IsolatedModuleAdapter.stop
Halt(t) ==
    /\ At(t, "halt")
    /\ Stops(t, Top(t).module)
    /\ Steps /\ UNCHANGED display

Stopped(t) ==
    LET m == Top(t).module
    IN  /\ At(t, "stopped")
        /\ Emits(m, "stopped")
        /\ IF m \in Isolated THEN Returns(t) ELSE Becomes(t, ReviewOf(m, FALSE))
        /\ Steps /\ UNCHANGED <<status, providers>>

-----------------------------------------------------------------------------
(* _reevaluate_dependents: of the enabled modules that depend on the one   *)
(* that changed or need any capability, in the order of the registry, it   *)
(* starts, stops or blocks those whose state does not fit.                 *)

\* What the review would do with n, if anything.
Verdict(n, f) ==
    LET can == CanStart(n, f.mods)
    IN  CASE can /\ (f.try \/ status[n] = "blocked") /\ Startable(n) -> "start"
          [] ~can /\ status[n] = "running"                           -> "stop"
          [] ~can /\ status[n] \notin {"running", "stopped"}         -> "block"
          [] OTHER                                                   -> "pass"

Review(t) ==
    LET f      == Top(t)
        acting == {n \in f.todo : Verdict(n, f) # "pass"}
        first  == CHOOSE n \in acting : \A o \in acting : Rank[n] <= Rank[o]
        rest   == [f EXCEPT !.stage = "loop", !.todo = {n \in f.todo : Rank[n] > Rank[first]}]
    IN  /\ At(t, "decide") \/ At(t, "loop")
        /\ f.op = "review"
        /\ IF acting = {} THEN Returns(t) /\ UNCHANGED status
           ELSE CASE Verdict(first, f) = "start" ->
                       Calls(t, rest, StartOf(first)) /\ UNCHANGED status
                  [] Verdict(first, f) = "stop" ->
                       Calls(t, rest, StopOf(first)) /\ Marks(first, "stopping")
                  [] Verdict(first, f) = "block" ->
                       Calls(t, rest, MarkOf(first)) /\ Marks(first, "blocked")
        /\ Steps /\ UNCHANGED <<providers, display>>

Marked(t) ==
    /\ At(t, "mark")
    /\ Emits(Top(t).module, "blocked")
    /\ Returns(t)
    /\ Steps /\ UNCHANGED <<status, providers>>
-----------------------------------------------------------------------------
(* sync_site: what runs and is not enabled is stopped, dependents first,   *)
(* then what is enabled and does not run is started, dependencies first.   *)
(* The order is else that of a set; a module that needs nothing when its   *)
(* turn comes is passed over without an await.                             *)

Running == {m \in Modules : status[m] = "running"}

\* One turn of a loop over todo that acts on the modules of acting: m is next,
\* and what the order put before it is passed over.
Turn(todo, acting, m, passed, before) ==
    /\ m \in acting
    /\ passed \subseteq todo \ acting
    /\ \A n \in acting : \A o \in passed \cup {m} : <<n, o>> \notin before

DependsOn  == UNION {{<<n, o>> : o \in Deps[n]} : n \in Modules}
IsNeededBy == UNION {{<<n, o>> : n \in Deps[o]} : o \in Modules}

\* Mutant: the reconciliation only starts.
DecideSync_StopsNone(t) ==
    LET f == Top(t)
    IN  /\ At(t, "decide") /\ f.op = "sync"
        /\ Becomes(t, [f EXCEPT !.stage = "stops", !.todo = {}])
        /\ Steps /\ UNCHANGED site

DecideSync(t) ==
    LET f == Top(t)
    IN  /\ At(t, "decide") /\ f.op = "sync"
        /\ Becomes(t, [f EXCEPT !.stage = "stops", !.todo = Running \ f.mods])
        /\ Steps /\ UNCHANGED site

SyncStops(t) ==
    LET f      == Top(t)
        acting == {m \in f.todo : Stoppable(m)}
    IN  /\ At(t, "stops")
        /\ \/ /\ acting = {}
              /\ Becomes(t, [f EXCEPT !.stage = "starts", !.todo = f.mods, !.mods = {}])
              /\ UNCHANGED status
           \/ \E m \in acting, passed \in SUBSET (f.todo \ acting) :
              /\ Turn(f.todo, acting, m, passed, DependsOn)
              /\ Calls(t, [f EXCEPT !.todo = f.todo \ (passed \cup {m})], StopOf(m))
              /\ Marks(m, "stopping")
        /\ Steps /\ UNCHANGED <<providers, display>>

SyncStarts(t) ==
    LET f      == Top(t)
        acting == {m \in f.todo : Startable(m)}
    IN  /\ At(t, "starts")
        /\ \/ /\ acting = {}
              /\ Returns(t)
           \/ \E m \in acting, passed \in SUBSET (f.todo \ acting) :
              /\ Turn(f.todo, acting, m, passed, IsNeededBy)
              /\ Calls(t, [f EXCEPT !.todo = f.todo \ (passed \cup {m})], StartOf(m))
        /\ Steps /\ UNCHANGED site

-----------------------------------------------------------------------------
(* The tasks of the collector.                                             *)

\* Collector.setup ends: from now on there are a listener and a fast lane.
EndSetup ==
    /\ booting
    /\ stack["lane"] = <<>>
    /\ booting' = FALSE
    /\ listening' = TRUE
    /\ UNCHANGED <<world, site, stack, counts>>

\* _maybe_reconcile_all_sites
Reconcile ==
    /\ ~booting
    /\ stack["lane"] = <<>>
    /\ stack' = [stack EXCEPT !["lane"] = <<SyncOf>>]
    /\ Steps /\ UNCHANGED site

\* _module_event_listener
TakeEvent ==
    LET event == Head(events)
        m     == event.module
    IN  /\ listening
        /\ stack["listener"] = <<>>
        /\ events # <<>>
        /\ events' = Tail(events)
        /\ LET stops  == event.what \in {"disable", "restart"} /\ Stoppable(m)
               starts == event.what = "enable" /\ Startable(m)
               after  == IF event.what = "restart" THEN <<RestartOf(m)>> ELSE <<>>
           IN  /\ stack' = [stack EXCEPT !["listener"] =
                               CASE stops  -> <<StopOf(m)>> \o after
                                 [] starts -> <<StartOf(m)>>
                                 [] OTHER  -> after]
               /\ IF stops THEN Marks(m, "stopping") ELSE UNCHANGED status
        /\ UNCHANGED <<enabled, pending, providers, display, listening, booting, counts>>

\* The second half of a restart.
Restart(t) ==
    LET m == Top(t).module
    IN  /\ At(t, "start")
        /\ IF Startable(m) THEN Becomes(t, StartOf(m)) ELSE Returns(t)
        /\ Steps /\ UNCHANGED site

\* SmartChargingEngine asks SiteModuleResolver.can_start_module: it clears the
\* capabilities of the site, and an await later registers all that are enabled.
BeginCheck ==
    /\ ~booting
    /\ stack["lane"] = <<>>
    /\ checks < MaxChecks
    /\ checks' = checks + 1
    /\ status[Charging] = "running" /\ Charging \in enabled
    /\ providers' = {}
    /\ stack' = [stack EXCEPT !["lane"] = <<CheckOf(enabled)>>]
    /\ UNCHANGED <<world, status, display, listening, booting, changes, faults>>

EndCheck(t) ==
    /\ At(t, "check")
    /\ providers' = providers \cup (Top(t).mods \cap Suppliers)
    /\ Returns(t)
    /\ Steps /\ UNCHANGED <<status, display>>

\* Mutant: every module that is shown and has not failed is prolonged.
Expire_IfFailed(m) ==
    /\ m \in shown
    /\ status[m] = "failed"
    /\ shown' = shown \ {m}
    /\ UNCHANGED <<world, status, providers, lapsed, tasks, counts>>

\* The key in Redis lives for 90 seconds.  A module that runs has it prolonged
\* once in a pass of the fast lane, which may take longer than that; and what is
\* gone, refresh_heartbeat does not bring back.
Expire(m) ==
    /\ m \in shown
    /\ shown' = shown \ {m}
    /\ lapsed' = lapsed \cup ({m} \cap Running)
    /\ UNCHANGED <<world, status, providers, tasks, counts>>

-----------------------------------------------------------------------------
(* Faults.                                                                 *)

Fault == faults < MaxFaults /\ faults' = faults + 1

\* Mutant: the listener is there before the modules are started.
Boots_Listening ==
    /\ status' = [m \in Modules |-> "stopped"]
    /\ providers' = {}
    /\ events' = <<>>
    /\ stack' = Booted
    /\ listening' = TRUE
    /\ booting' = TRUE

\* The collector starts with nothing in memory.
Boots ==
    /\ status' = [m \in Modules |-> "stopped"]
    /\ providers' = {}
    /\ events' = <<>>
    /\ stack' = Booted
    /\ listening' = FALSE
    /\ booting' = TRUE

\* The innermost start of a module of the collector that is inside its try.
Catches(f) ==
    /\ f.op = "start" /\ f.module \notin Isolated
    /\ f.stage \in {"register", "running", "reviewed"}

Catcher(t) == CHOOSE k \in DOMAIN stack[t] :
                 Catches(stack[t][k]) /\ \A j \in 1 .. k - 1 : ~Catches(stack[t][j])

\* An await raises: a start that is inside its try fails, and without one the
\* setup, the event loop of the listener or this reconciliation is over.
Raises(t) ==
    /\ Fault
    /\ stack[t] # <<>> /\ Top(t).stage # "decide" /\ ~GoesOn(t)
    /\ IF \E k \in DOMAIN stack[t] : Catches(stack[t][k])
       THEN LET k == Catcher(t)
                f == stack[t][k]
            IN  /\ Marks(f.module, "failed")
                /\ stack' = [stack EXCEPT ![t] =
                       <<[f EXCEPT !.stage = "failed"]>> \o SubSeq(stack[t], k + 1, Len(stack[t]))]
                /\ UNCHANGED <<events, providers, listening, booting>>
       ELSE IF booting THEN Boots
            ELSE /\ stack' = [stack EXCEPT ![t] = <<>>]
                 /\ listening' = (listening /\ t # "listener")
                 /\ events' = IF t = "listener" THEN <<>> ELSE events
                 /\ UNCHANGED <<status, providers, booting>>
    /\ UNCHANGED <<enabled, pending, display, changes, checks>>

\* IsolatedModuleAdapter.start brings none.
LaunchFails(t) ==
    /\ Fault
    /\ At(t, "launch")
    /\ Marks(Top(t).module, "blocked")
    /\ Goes(t, "launchBlocked")
    /\ UNCHANGED <<world, providers, display, listening, booting, changes, checks>>

Crash ==
    /\ Fault
    /\ Boots
    /\ UNCHANGED <<enabled, pending, display, changes, checks>>

\* Redis restarts without its keys.
Flush ==
    /\ Fault
    /\ shown' = {} /\ lapsed' = {}
    /\ UNCHANGED <<world, status, providers, tasks, changes, checks>>

-----------------------------------------------------------------------------
OrchestratorInit ==
    /\ enabled \in Initially
    /\ pending = None
    /\ events = <<>>
    /\ status = [m \in Modules |-> "stopped"]
    /\ providers = {}
    /\ shown = {} /\ lapsed = {}
    /\ stack = Booted
    /\ listening = FALSE
    /\ booting = TRUE
    /\ changes = 0 /\ checks = 0 /\ faults = 0
    /\ calm = TRUE

Continue(t) ==
    \/ ReadEnabled(t)
    \/ DecideStart(t) \/ Refused(t) \/ Blocked(t) \/ Starting(t)
    \/ Launch(t) \/ LaunchBlocked(t) \/ Register(t)
    \/ Started(t) \/ Reviewed(t) \/ Failed(t)
    \/ Stopping(t) \/ Halt(t) \/ Stopped(t)
    \/ Review(t) \/ Marked(t)
    \/ DecideSync(t) \/ SyncStops(t) \/ SyncStarts(t)
    \/ Restart(t) \/ EndCheck(t)

\* Calm: one task at a time, whose steps no change, check or fault comes
\* between, and every change is announced and committed before it is acted on.
Busy == \E t \in Tasks : stack[t] # <<>>

Watched ==
    calm' = /\ calm
            /\ faults' = 0
            /\ \E t \in Tasks : stack'[t] = <<>>
            /\ enabled' # enabled => ~Busy
            /\ pending' # None => ~Busy'
            /\ changes' # changes => events' # events

\* What a coroutine does before its next await comes before all that the other
\* task could do.
Lane     == EndSetup \/ Reconcile \/ BeginCheck \/ Continue("lane")
Listener == TakeEvent \/ Continue("listener")

LaneTurn     == ~GoesOn("listener") /\ Lane /\ Watched
ListenerTurn == ~GoesOn("lane") /\ Listener /\ Watched

OrchestratorNext ==
    \/ LaneTurn \/ ListenerTurn
    \/ /\ \/ \E m \in Modules : \/ \E on \in BOOLEAN : SetEnabled(m, on)
                                \/ Apply(m)
                                \/ Reconfigure(m)
                                \/ Expire(m)
          \/ Commit
          \/ \E t \in Tasks : Raises(t) \/ LaunchFails(t)
          \/ Crash \/ Flush
       /\ Watched

\* The event loop runs both tasks in turn, whatever the other one does; the
\* commit follows, too, and so does the expiry of a key that nothing prolongs:
\* that of a module that does not run.
OrchestratorFairness ==
    /\ WF_vars(LaneTurn)
    /\ SF_vars(ListenerTurn)
    /\ WF_vars(Commit /\ Watched)
    /\ WF_vars((\E m \in Modules \ Running : Expire(m)) /\ Watched)

OrchestratorSpec == OrchestratorInit /\ [][OrchestratorNext]_vars /\ OrchestratorFairness

-----------------------------------------------------------------------------
(* Properties.                                                             *)

\* Nothing is on its way: no coroutine, event or change that is not committed.
AtRest == ~booting /\ ~Busy /\ pending = None /\ events = <<>>

\* What m requires is provided by modules that run.
Supplied(m) == Requires[m] \subseteq UNION {Provides[n] : n \in Running}

States == {"stopped", "stopping", "starting", "running", "blocked", "failed"}

\* Every variable has its type; there is no listener, and no event in its hands,
\* before the setup is over (Collector.setup).
OrchestratorTypeOK ==
    /\ enabled \subseteq Modules
    /\ pending = None \/ (pending.module \in Modules /\ pending.on \in BOOLEAN)
    /\ status \in [Modules -> States]
    /\ providers \subseteq Suppliers
    /\ shown \subseteq Modules /\ lapsed \subseteq Modules
    /\ DOMAIN stack = Tasks
    /\ ~listening => events = <<>> /\ stack["listener"] = <<>>
    /\ booting => ~listening
    /\ changes \in 0 .. MaxChanges /\ checks \in 0 .. MaxChecks
    /\ faults \in 0 .. MaxFaults /\ calm \in BOOLEAN

\* However the starts, stops and reviews of the two tasks overlap, none leaves a
\* module STARTING or STOPPING, which start_module and stop_module would never
\* look at again; only an error does.
NothingHangs ==
    AtRest /\ faults = 0 =>
        \A m \in Modules : status[m] \notin {"starting", "stopping"}

\* Whether all that may supply m runs in the collector: only a module that does
\* has its dependents reviewed.
SuppliedWithin(m) ==
    \A n \in Isolated : n \notin Deps[m] /\ Requires[m] \cap Provides[n] = {}

\* As long as the site is calm, an event is enough: once it is dealt with, every
\* module that is enabled and has what it requires runs, all dependents included,
\* and no other one does (start_module, stop_module, _reevaluate_dependents).
\* (A check of the charging engine registers the capabilities of what is enabled
\* and does not run yet, too; on those a module may start.)
FollowsEvents ==
    calm /\ AtRest =>
        /\ Running \subseteq {m \in enabled : Deps[m] \subseteq enabled}
        /\ \A m \in enabled :
            SuppliedWithin(m) /\ Deps[m] \subseteq enabled /\ Supplied(m) => m \in Running
        /\ checks = 0 => \A m \in Running : SuppliedWithin(m) => Supplied(m)

\* As long as the site is calm, Redis shows only what runs, and all of it but the
\* modules whose key expired as they ran (they are not shown again until they are
\* started again), and the capabilities are those of the modules that run, whether
\* a start, a stop or a check of the charging engine wrote them last.  (After a
\* check they may be more: those of a module that was disabled before it was ever
\* started stay registered.)
RegistryAgrees ==
    calm /\ AtRest =>
        /\ Running \ lapsed \subseteq shown
        /\ shown \subseteq Running
        /\ Running \cap Suppliers \subseteq providers
        /\ checks = 0 => providers \subseteq Running

\* Whatever event was lost, read too early or answered by two tasks at once, the
\* reconciliation ends up running each module that is enabled and can start; a
\* module whose start broke off while STARTING is the exception (sync_site).
EnabledModulesRun ==
    <>[](\A m \in enabled : CanStart(m, enabled) =>
            m \in Running \/ (faults > 0 /\ status[m] = "starting"))

\* In the end no module runs that is not enabled: a start that was under way when
\* the module was disabled does not last (sync_site).
DisabledModulesStop == <>[](Running \subseteq enabled)

\* A module that Redis shows as running although it is not is not shown for ever,
\* in whichever order two tasks published (RUNTIME_TTL_SECONDS).
ShownModulesRun == <>[](shown \subseteq Running)

\* In the end a module runs only while modules that run provide what it requires,
\* as test_module_orchestrator.py says of smart charging whose charger stopped.
SuppliedInTheEnd == <>[](\A m \in Running : Supplied(m))
=============================================================================
