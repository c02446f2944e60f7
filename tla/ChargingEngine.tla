---------------------------- MODULE ChargingEngine ----------------------------
(***************************************************************************)
(* The charging engine (charging/engine.py) at work on one charger: it     *)
(* composes the state machine (SmartCharging) with the command controller  *)
(* and the charger (ChargerCommands), the row and the cycle log it keeps   *)
(* in the database, and the user's requests that reach the same row        *)
(* through the API (backend/app/api/ev_chargers.py).                       *)
(*                                                                         *)
(* One cycle is four steps, because users, cars, outages and crashes come  *)
(* between them: load the row, read the charger and decide, command the    *)
(* charger, commit.  Everything in memory is lost in a crash; the row and  *)
(* the log survive.  A cycle takes the time once, at its start, and so     *)
(* time passes between cycles only.                                        *)
(***************************************************************************)
EXTENDS SmartCharging, ChargerCommands

CONSTANTS
    UserModes,   \* the modes the user chooses from
    Overrides,   \* whether the user overrides
    Wishes,      \* what the optimizer may want in a mode that is not fast
    MaxCrashes   \* bound: restarts of the collector

OverrideStates == {"none", "active", "expired"}

\* What a cycle loads, and what apply returns.
Loads == [mode : Modes, override : OverrideStates]
Results ==
    [applied : BOOLEAN, current : {0} \cup MinCurrent .. MaxCurrent, finished : BOOLEAN]

ASSUME EngineAssumption ==
    /\ UserModes \subseteq Modes
    /\ Overrides \in BOOLEAN
    /\ Wishes \subseteq Nat
    /\ MaxCrashes \in Nat
    /\ None \notin Loads \cup Results

VARIABLES
    pc,        \* where the cycle is
    mode,      \* charging_mode of the row
    override,  \* override_until of the row: none, active or expired
    wish,      \* what the optimizer wants
    loaded,    \* mode and override as the cycle loaded them; None between cycles
    saved,     \* the columns the engine writes, as last committed
    log,       \* ages of the committed cycles, by what they recorded
    crashes    \* crashes so far

row == <<mode, override, saved, log>>
engineVars == <<vars, commandVars, pc, wish, loaded, row, crashes>>

-----------------------------------------------------------------------------
(* The log of cycles, and the starts read back from it.                    *)

\* list_starts_since: a row with current after a row without, or the first.
StartsListed ==
    {a \in log.on : ~\E b \in log.on : b > a /\ ~\E c \in log.off : a < c /\ c < b}

\* Mutant: old cycles are counted for ever.
AgeLog_kept(ages) == {age + 1 : age \in ages}

AgeLog(ages) == {age + 1 : age \in ages \ {Hour}}

-----------------------------------------------------------------------------
(* One cycle.                                                              *)

Load ==
    /\ pc = "idle"
    /\ due
    /\ pc' = "loaded"
    /\ loaded' = [mode |-> mode, override |-> override]
    /\ UNCHANGED <<vars, commandVars, wish, row, crashes>>

\* optimize_target for the row that was loaded.
OptimizerTarget ==
    LET overridden == loaded.override = "active"
    IN  CASE loaded.mode = "PAUSED" /\ ~overridden        -> 0
          [] overridden \/ loaded.mode = "QUICK_CHARGE"   -> MaxCurrent
          [] OTHER                                        -> wish

\* What the state machine is called with; an unreachable charger is a fault.
Findings ==
    [mode     |-> loaded.mode,
     override |-> loaded.override = "active",
     target   |-> OptimizerTarget,
     urgent   |-> FALSE,
     surplus  |-> TRUE,
     import   |-> "deadband",
     plugged  |-> plugged,
     faulty   |-> ~online,
     charging |-> online /\ Charging]

\* A connector without a car is switched on, so that a car is noticed.
Arm ==
    IF online /\ ~plugged
    THEN \/ StartCharging /\ Works
         \/ UNCHANGED enabled /\ Fails
    ELSE UNCHANGED <<enabled, failures>>

Decide ==
    /\ pc = "loaded"
    /\ pc' = "decided"
    /\ Evaluate(Findings)
    /\ Arm
    /\ due' = FALSE
    /\ UNCHANGED <<limit, plugged, online, memory, result, wish, loaded, row, crashes>>

Command ==
    /\ pc = "decided"
    /\ pc' = "commanded"
    /\ Apply(decision, Or(saved.applied, 0))
    /\ UNCHANGED <<vars, wish, loaded, row, crashes>>

\* A cycle that was cut off leaves the columns of the state machine alone.
Columns ==
    IF result.finished
    THEN [state      |-> state,
          requested  |-> requested,
          sinceStart |-> sinceStart,
          sinceStop  |-> sinceStop,
          applied    |-> IF result.applied THEN result.current ELSE saved.applied]
    ELSE saved

Commit ==
    /\ pc = "commanded"
    /\ pc' = "idle"
    /\ saved' = Columns
    /\ log' = IF result.current > 0 THEN [log EXCEPT !.on = @ \cup {0}]
                                    ELSE [log EXCEPT !.off = @ \cup {0}]
    /\ override' = IF loaded.override = "expired" THEN "none" ELSE override
    /\ loaded' = None
    /\ result' = None
    /\ UNCHANGED <<vars, device, memory, failures, mode, wish, crashes>>

-----------------------------------------------------------------------------
(* restore_runtime_from_charger and the rest of _ensure_runtime.           *)

\* The timers, the cooldown and the anti-flapping interval start afresh.
RestoreRest ==
    /\ sinceStart' = saved.sinceStart
    /\ startSince' = None
    /\ stopSince' = None
    /\ importSince' = None
    /\ cooldown' = 0
    /\ starts' = StartsListed
    /\ applied' = saved.applied
    /\ commanded' = saved.requested
    /\ sinceChange' = None

\* Mutants: the requested current, or the last stop, is not restored.
Restore_withoutCurrent ==
    /\ state' = saved.state
    /\ requested' = 0
    /\ sinceStop' = saved.sinceStop
    /\ RestoreRest
Restore_withoutStop ==
    /\ state' = saved.state
    /\ requested' = Or(saved.requested, 0)
    /\ sinceStop' = None
    /\ RestoreRest

Restore ==
    /\ state' = saved.state
    /\ requested' = Or(saved.requested, 0)
    /\ sinceStop' = saved.sinceStop
    /\ RestoreRest

\* What the crash interrupts is not committed, and the cycle is due again.
Crash ==
    /\ crashes < MaxCrashes
    /\ crashes' = crashes + 1
    /\ pc' = "idle"
    /\ due' = (due \/ pc # "idle")
    /\ Restore
    /\ loaded' = None
    /\ result' = None
    /\ UNCHANGED <<decision, device, failures, wish, row>>

-----------------------------------------------------------------------------
(* The user, the optimizer and time.                                       *)

\* The engine's first write to the row locks it until the commit.
RowLocked == pc = "commanded" \/ (pc = "decided" /\ loaded.override = "expired")

SetMode(m) ==
    /\ ~RowLocked
    /\ m # mode
    /\ mode' = m
    /\ override' = IF m = "PAUSED" THEN "none" ELSE override
    /\ UNCHANGED <<vars, commandVars, pc, wish, loaded, saved, log, crashes>>

SetOverride ==
    /\ Overrides
    /\ ~RowLocked
    /\ override # "active"
    /\ override' = "active"
    /\ mode' = IF mode = "PAUSED" THEN "QUICK_CHARGE" ELSE mode
    /\ UNCHANGED <<vars, commandVars, pc, wish, loaded, saved, log, crashes>>

ClearOverride ==
    /\ ~RowLocked
    /\ override = "active"
    /\ override' = "none"
    /\ UNCHANGED <<vars, commandVars, pc, mode, wish, loaded, saved, log, crashes>>

OverrideExpires ==
    /\ override = "active"
    /\ override' = "expired"
    /\ UNCHANGED <<vars, commandVars, pc, mode, wish, loaded, saved, log, crashes>>

ChangeWish ==
    /\ wish' \in Wishes \ {wish}
    /\ UNCHANGED <<vars, commandVars, pc, loaded, row, crashes>>

\* Cars and outages.
World == Environment /\ UNCHANGED <<vars, pc, wish, loaded, row, crashes>>

PassTime ==
    /\ pc = "idle"
    /\ Tick
    /\ sinceChange' = Older(sinceChange, MinChangeInterval)
    /\ saved' = [saved EXCEPT !.sinceStart = Older(@, MinRunTime),
                              !.sinceStop = Older(@, MinOffTime)]
    /\ log' = [on |-> AgeLog(log.on), off |-> AgeLog(log.off)]
    /\ UNCHANGED <<device, applied, commanded, result, failures,
                   pc, mode, override, wish, loaded, crashes>>

-----------------------------------------------------------------------------
\* A new charger, whose connector is as its owner left it.
EngineInit ==
    /\ Init
    /\ CommandInit
    /\ pc = "idle"
    /\ mode \in UserModes
    /\ override = "none"
    /\ wish \in Wishes
    /\ loaded = None
    /\ saved = [state |-> "WAITING_TO_START", requested |-> None, sinceStart |-> None,
                sinceStop |-> None, applied |-> None]
    /\ log = [on |-> {}, off |-> {}]
    /\ crashes = 0

User == (\E m \in UserModes : SetMode(m)) \/ SetOverride \/ ClearOverride
Run == Load \/ Decide \/ Command \/ Commit

EngineNext ==
    \/ Run \/ Crash \/ PassTime
    \/ User \/ OverrideExpires \/ ChangeWish \/ World

EngineSpec == EngineInit /\ [][EngineNext]_engineVars

\* The collector's loop goes on with a cycle and with time.
FairEngineSpec ==
    /\ EngineSpec
    /\ WF_engineVars(Run)
    /\ WF_engineVars(PassTime)

-----------------------------------------------------------------------------
EngineTypeOK ==
    /\ limit \in {0} \cup MinCurrent .. MaxCurrent
    /\ enabled \in BOOLEAN /\ plugged \in BOOLEAN /\ online \in BOOLEAN
    /\ {applied, commanded} \subseteq {None, 0} \cup MinCurrent .. MaxCurrent
    /\ sinceChange \in AgeUpTo(MinChangeInterval)
    /\ result \in Results \cup {None}
    /\ failures \in 0 .. MaxFailures
    /\ pc \in {"idle", "loaded", "decided", "commanded"}
    /\ mode \in Modes
    /\ override \in OverrideStates
    /\ wish \in Wishes
    /\ loaded \in Loads \cup {None}
    /\ loaded = None <=> pc = "idle"
    /\ result = None <=> pc # "commanded"
    /\ saved \in [state : States, requested : {None, 0} \cup MinCurrent .. MaxCurrent,
                  sinceStart : AgeUpTo(MinRunTime), sinceStop : AgeUpTo(MinOffTime),
                  applied : {None, 0} \cup MinCurrent .. MaxCurrent]
    /\ log.on \subseteq 0 .. Hour /\ log.off \subseteq 0 .. Hour
    /\ log.on \cap log.off = {}
    /\ crashes \in 0 .. MaxCrashes

(***************************************************************************)
(* With no failure and no restart the controller knows the charger's limit *)
(* exactly: anti-flapping may hold a command back, but never records one   *)
(* it did not send, and nothing else moves the limit.                      *)
(***************************************************************************)
KnowsLimit == failures = 0 /\ crashes = 0 /\ applied # None => limit = applied

(***************************************************************************)
(* A stop that was committed keeps its minimum off time across any number  *)
(* of restarts, lane timeouts and failed commands: EMIC starts a session   *)
(* on its own only when the off time of the row has passed too.            *)
(***************************************************************************)
CommittedStopRests ==
    [][pc = "loaded" /\ pc' = "decided" /\ requested = 0 /\ requested' > 0 /\ ~decision'.fast
         /\ saved.sinceStop # None
       => saved.sinceStop >= MinOffTime]_engineVars

(***************************************************************************)
(* After a pause that no override lifts the charger ends up idle and stays *)
(* idle, whatever was in flight when the user paused, whatever command or  *)
(* outage failed it and wherever the collector restarted, and whatever     *)
(* cars come and go afterwards.                                            *)
(***************************************************************************)
PauseTakesEffect ==
    <>[](mode = "PAUSED" /\ override # "active" /\ online) => <>[]~Charging

Present == plugged /\ online
Demanded == mode = "QUICK_CHARGE" \/ override = "active"
WantedNow == (Demanded \/ mode = "SMART_CHARGE") /\ ClampTarget(wish) > 0
UnwantedNow == ~Demanded /\ mode = "SMART_CHARGE" /\ ClampTarget(wish) = 0

(***************************************************************************)
(* A car that should not charge stops charging for good, also when it      *)
(* began to draw without a start, or when stop commands got lost: they are *)
(* issued again after each cooldown.                                       *)
(***************************************************************************)
UnwantedChargingEnds == <>[](UnwantedNow /\ Present) => <>[]~Charging

\* Only a restart tells the two memories of a command apart: it takes the
\* requested current of the row for the last command.
Mistaken == commanded # applied

(***************************************************************************)
(* A car that should charge is not left idle (the stuck session of         *)
(* state_machine.py:162-167), whichever half of a start got lost, unless a *)
(* restart has left the controller with a command that never reached the   *)
(* charger (engine.py:379): it holds back what it should send as a         *)
(* duplicate, and if nothing else changes it does so for ever.             *)
(***************************************************************************)
WantedChargingRuns ==
    <>[](WantedNow /\ Present) => <>[]Charging \/ <>[]Mistaken
=============================================================================
