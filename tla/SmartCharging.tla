---------------------------- MODULE SmartCharging ----------------------------
(***************************************************************************)
(* The smart-charging state machine (charging/state_machine.py): given     *)
(* what the optimizer wants and what the charger, the meter and the user   *)
(* report, one call of evaluate_smart_charging moves the runtime of one    *)
(* charger and returns the decision for this cycle.                        *)
(*                                                                         *)
(* Time is counted in ticks, at most one engine cycle to a tick; timestamps *)
(* are ages (see Ages).  Currents are whole amperes.                       *)
(* target_current_a and last_requested_change_at are written by the code   *)
(* and read by nothing, and are left out.                                  *)
(***************************************************************************)
EXTENDS Ages, FiniteSets

CONSTANTS
    MinCurrent,    \* min_current_a
    MaxCurrent,    \* max_current_a
    IncreaseStep,  \* max_current_increase_per_step_a
    DecreaseStep,  \* max_current_decrease_per_step_a
    StartDelay,    \* start_delay_seconds
    StopDelay,     \* stop_delay_seconds
    MinRunTime,    \* minimum_run_time_seconds
    MinOffTime,    \* minimum_off_time_seconds
    ImportTime,    \* temporary_grid_import_seconds
    MaxStarts,     \* max_automatic_starts_per_hour
    Hour,          \* the hour over which automatic starts are counted
    Inputs         \* what a cycle may find (see Input)

ASSUME CurrentAssumption ==
    /\ MinCurrent \in Nat \ {0}
    /\ MaxCurrent \in Nat
    /\ MinCurrent <= MaxCurrent
    /\ IncreaseStep \in Nat
    /\ DecreaseStep \in Nat

ASSUME TimeAssumption ==
    /\ StartDelay \in Nat
    /\ StopDelay \in Nat
    /\ MinRunTime \in Nat
    /\ MinOffTime \in Nat
    /\ ImportTime \in Nat
    /\ Hour \in Nat
    /\ MaxStarts \in Nat \ {0}

Modes == {"SMART_CHARGE", "PRICE_CHARGE", "SOLAR_CHARGE", "QUICK_CHARGE", "PAUSED"}

(***************************************************************************)
(* One call's arguments.  faulty stands for `fault_code or not             *)
(* halo_connected`; surplus for an export of at least the solar start      *)
(* threshold; import places the grid import against the deadband and the   *)
(* temporary allowance; urgent for an optimizer reason that names the      *)
(* deadline.                                                               *)
(***************************************************************************)
Input == [mode     : Modes,
          override : BOOLEAN,
          target   : Nat,
          urgent   : BOOLEAN,
          surplus  : BOOLEAN,
          import   : {"deadband", "allowance", "excess"},
          plugged  : BOOLEAN,
          faulty   : BOOLEAN,
          charging : BOOLEAN]

ASSUME InputAssumption == Inputs \subseteq Input

States == {"PAUSED", "WAITING_TO_START", "STARTING", "CHARGING_STABLE",
           "REDUCING", "WAITING_TO_STOP", "STOPPING", "COOLDOWN", "FAULT"}

VARIABLES
    state,        \* SmartChargingRuntime.state
    requested,    \* requested_current_a
    startSince,   \* age of start_condition_since, or None
    stopSince,    \* age of stop_condition_since, or None
    importSince,  \* age of temporary_import_since, or None
    sinceStart,   \* age of last_start_at, or None
    sinceStop,    \* age of last_stop_at, or None
    cooldown,     \* what is left until cooldown_until; 0: none or passed
    starts,       \* ages of automatic_starts
    decision,     \* what the last call returned
    due           \* the charger is due for a cycle

runtimeVars == <<state, requested, startSince, stopSince, importSince,
                 sinceStart, sinceStop, cooldown, starts>>
vars == <<runtimeVars, decision, due>>

-----------------------------------------------------------------------------
(* Policy (charging/policy) and the helpers of the state machine.          *)

Fast(in) == in.override \/ in.mode = "QUICK_CHARGE"

RespectsPause(in) == in.mode = "PAUSED" /\ ~in.override

UsesStartDelay(in) == ~Fast(in) /\ in.mode \in {"SMART_CHARGE", "PRICE_CHARGE"}

\* The decisions; fast abstracts policy_mode to whether it skips the guardrails.
NoDecision(in) == [action |-> "none", current |-> 0, fast |-> Fast(in)]
SetCurrent(in, a) == [action |-> "set_current", current |-> a, fast |-> Fast(in)]
StopDecision(in, kind) == [action |-> kind, current |-> 0, fast |-> Fast(in)]

\* Mutant: the maximum is forgotten.
ClampTarget_noMax(target) == IF target < MinCurrent THEN 0 ELSE target

ClampTarget(target) ==
    IF Lesser(target, MaxCurrent) < MinCurrent THEN 0 ELSE Lesser(target, MaxCurrent)

ApplyRamp(current, target, urgent) ==
    CASE target > current -> Lesser(target, current + (IF urgent THEN 2 ELSE 1) * IncreaseStep)
      [] target < current -> Greater(target, current - DecreaseStep)
      [] OTHER            -> current

\* Mutant: a session that has started never leaves the run period.
InRunPeriod_forever == sinceStart # None

InRunPeriod == sinceStart # None /\ sinceStart < MinRunTime

\* Mutant: nothing is ever pruned.
RecentStarts_kept == starts

RecentStarts == {age \in starts : age <= Hour}

\* Mutants: one start too many; the cooldown taken to be enough.
StartAllowed_oneMore ==
    /\ sinceStop # None => sinceStop >= MinOffTime
    /\ Cardinality(RecentStarts) <= MaxStarts
StartAllowed_anyOffTime == Cardinality(RecentStarts) < MaxStarts

StartAllowed ==
    /\ sinceStop # None => sinceStop >= MinOffTime
    /\ Cardinality(RecentStarts) < MaxStarts

\* _temporary_import_allowed, and the timer it leaves behind.
ImportTimer(in) == IF in.import = "excess" THEN None ELSE HeldFor(importSince)
ImportTolerated(in) ==
    \/ in.import = "deadband"
    \/ in.import = "allowance" /\ HeldFor(importSince) <= ImportTime

-----------------------------------------------------------------------------
(* evaluate_smart_charging, one action per way out of it.                  *)

Fault(in) ==
    /\ in.faulty
    /\ state' = "FAULT"
    /\ decision' = StopDecision(in, "fault")
    /\ UNCHANGED <<requested, startSince, stopSince, importSince, sinceStart,
                   sinceStop, cooldown>>

\* Mutant: a charger from which nothing is requested is not told to stop.
UserPaused_once(in) ==
    /\ ~in.faulty
    /\ RespectsPause(in)
    /\ state' = "PAUSED"
    /\ requested' = 0
    /\ decision' = IF requested = 0 THEN NoDecision(in) ELSE StopDecision(in, "stop")
    /\ UNCHANGED <<startSince, stopSince, importSince, sinceStart, sinceStop, cooldown>>

UserPaused(in) ==
    /\ ~in.faulty
    /\ RespectsPause(in)
    /\ state' = "PAUSED"
    /\ requested' = 0
    /\ decision' = StopDecision(in, "stop")
    /\ UNCHANGED <<startSince, stopSince, importSince, sinceStart, sinceStop, cooldown>>

\* Mutants: one of the timers survives the unplugging.
ResetTimers_keepsStart == stopSince' = None /\ importSince' = None /\ UNCHANGED startSince
ResetTimers_keepsStop == startSince' = None /\ importSince' = None /\ UNCHANGED stopSince

ResetTimers ==
    /\ startSince' = None
    /\ stopSince' = None
    /\ importSince' = None

NoVehicle(in) ==
    /\ ~in.faulty
    /\ ~RespectsPause(in)
    /\ ~in.plugged
    /\ state' = "WAITING_TO_START"
    /\ requested' = 0
    /\ ResetTimers
    /\ decision' = NoDecision(in)
    /\ UNCHANGED <<sinceStart, sinceStop, cooldown>>

\* Mutant: the cooldown is renewed as long as nothing is wanted.
CoolingDown_renewed(in) ==
    /\ ~in.faulty
    /\ ~RespectsPause(in)
    /\ in.plugged
    /\ ~Fast(in)
    /\ cooldown > 0
    /\ state' = "COOLDOWN"
    /\ requested' = 0
    /\ cooldown' = IF ClampTarget(in.target) = 0 THEN MinOffTime ELSE cooldown
    /\ decision' = NoDecision(in)
    /\ UNCHANGED <<startSince, stopSince, importSince, sinceStart, sinceStop>>

CoolingDown(in) ==
    /\ ~in.faulty
    /\ ~RespectsPause(in)
    /\ in.plugged
    /\ ~Fast(in)
    /\ cooldown > 0
    /\ state' = "COOLDOWN"
    /\ requested' = 0
    /\ decision' = NoDecision(in)
    /\ UNCHANGED <<startSince, stopSince, importSince, sinceStart, sinceStop, cooldown>>

\* Past every early return: the cooldown is over and the import timer is updated.
Regulated(in) ==
    /\ ~in.faulty
    /\ ~RespectsPause(in)
    /\ in.plugged
    /\ Fast(in) \/ cooldown = 0
    /\ importSince' = ImportTimer(in)

(***************************************************************************)
(* _handle_stop_path: nothing is wanted.  Within the minimum run time the  *)
(* current is brought down to the minimum and kept there while the import  *)
(* is tolerated; otherwise the stop delay runs, and then the charger is    *)
(* stopped.                                                                *)
(***************************************************************************)
Floor == ApplyRamp(requested, MinCurrent, FALSE)

\* Mutants: a reduction below the minimum; no session kept at the minimum.
ReducesFirst_anyFloor(in) ==
    /\ ~Fast(in)
    /\ InRunPeriod
    /\ ImportTolerated(in) \/ requested > MinCurrent
ReducesFirst_toMinimum(in) == ~Fast(in) /\ InRunPeriod /\ requested > MinCurrent

ReducesFirst(in) ==
    /\ ~Fast(in)
    /\ InRunPeriod
    /\ \/ ImportTolerated(in) /\ Floor >= MinCurrent
       \/ requested > MinCurrent

DelaysStop(in) ==
    /\ in.charging
    /\ ~Fast(in)
    /\ HeldFor(stopSince) < StopDelay

Reduce(in) ==
    /\ Regulated(in)
    /\ ClampTarget(in.target) = 0
    /\ ReducesFirst(in)
    /\ state' = "REDUCING"
    /\ requested' = Floor
    /\ startSince' = None
    /\ cooldown' = 0
    /\ decision' = SetCurrent(in, Floor)
    /\ UNCHANGED <<stopSince, sinceStart, sinceStop>>

WaitToStop(in) ==
    /\ Regulated(in)
    /\ ClampTarget(in.target) = 0
    /\ ~ReducesFirst(in)
    /\ DelaysStop(in)
    /\ state' = "WAITING_TO_STOP"
    /\ startSince' = None
    /\ stopSince' = HeldFor(stopSince)
    /\ cooldown' = 0
    /\ decision' = NoDecision(in)
    /\ UNCHANGED <<requested, sinceStart, sinceStop>>

\* Mutant: the cooldown starts, last_stop_at is forgotten.
MarkStopped_untimed(in) ==
    /\ cooldown' = IF Fast(in) THEN 0 ELSE MinOffTime
    /\ UNCHANGED sinceStop

MarkStopped(in) ==
    /\ sinceStop' = 0
    /\ cooldown' = IF Fast(in) THEN 0 ELSE MinOffTime

Stop(in) ==
    /\ Regulated(in)
    /\ ClampTarget(in.target) = 0
    /\ ~ReducesFirst(in)
    /\ ~DelaysStop(in)
    /\ state' = "STOPPING"
    /\ requested' = 0
    /\ startSince' = None
    /\ stopSince' = None
    /\ MarkStopped(in)
    /\ decision' = StopDecision(in, "stop")
    /\ UNCHANGED sinceStart

(***************************************************************************)
(* _handle_start_path: a current is wanted and none is requested.          *)
(***************************************************************************)
Starting(in) ==
    /\ Regulated(in)
    /\ ClampTarget(in.target) > 0
    /\ \/ state \in {"WAITING_TO_START", "COOLDOWN", "STOPPING", "PAUSED"}
       \/ requested <= 0
    /\ cooldown' = 0

Permitted(in) == Fast(in) \/ StartAllowed

AwaitsSurplus(in) == in.mode = "SOLAR_CHARGE" /\ ~in.surplus

AwaitsStartDelay(in) ==
    UsesStartDelay(in) /\ ~in.urgent /\ HeldFor(startSince) < StartDelay

StartRateLimited(in) ==
    /\ Starting(in)
    /\ ~Permitted(in)
    /\ state' = "WAITING_TO_START"
    /\ requested' = 0
    /\ decision' = NoDecision(in)
    /\ UNCHANGED <<startSince, stopSince, sinceStart, sinceStop>>

WaitForExport(in) ==
    /\ Starting(in)
    /\ Permitted(in)
    /\ AwaitsSurplus(in)
    /\ state' = "WAITING_TO_START"
    /\ startSince' = None
    /\ decision' = NoDecision(in)
    /\ UNCHANGED <<requested, stopSince, sinceStart, sinceStop>>

WaitToStart(in) ==
    /\ Starting(in)
    /\ Permitted(in)
    /\ ~AwaitsSurplus(in)
    /\ AwaitsStartDelay(in)
    /\ state' = "WAITING_TO_START"
    /\ startSince' = HeldFor(startSince)
    /\ decision' = NoDecision(in)
    /\ UNCHANGED <<requested, stopSince, sinceStart, sinceStop>>

StartCurrent(in) ==
    LET desired == ClampTarget(in.target)
    IN  Greater(MinCurrent,
                IF Fast(in) \/ in.urgent THEN desired ELSE ApplyRamp(0, desired, FALSE))

Start(in) ==
    /\ Starting(in)
    /\ Permitted(in)
    /\ ~AwaitsSurplus(in)
    /\ ~AwaitsStartDelay(in)
    /\ state' = IF Fast(in) THEN "CHARGING_STABLE" ELSE "STARTING"
    /\ requested' = StartCurrent(in)
    /\ startSince' = None
    /\ sinceStart' = 0
    /\ decision' = SetCurrent(in, StartCurrent(in))
    /\ UNCHANGED <<stopSince, sinceStop>>

(***************************************************************************)
(* The session runs: ramp towards the wanted current, or hold it.          *)
(***************************************************************************)
Running(in) ==
    /\ Regulated(in)
    /\ ClampTarget(in.target) > 0
    /\ state \notin {"WAITING_TO_START", "COOLDOWN", "STOPPING", "PAUSED"}
    /\ requested > 0
    /\ stopSince' = None
    /\ cooldown' = 0
    /\ UNCHANGED <<startSince, sinceStart, sinceStop>>

\* Mutant: a last step of one ampere is not worth taking.
NextCurrent_noSmallStep(in) ==
    IF ClampTarget(in.target) = requested + 1 THEN requested
    ELSE ApplyRamp(requested, ClampTarget(in.target), in.urgent)

NextCurrent(in) == ApplyRamp(requested, ClampTarget(in.target), in.urgent)

\* Mutant: a current that need not change is never issued again.
Hold_silent(in) ==
    /\ Running(in)
    /\ NextCurrent(in) = requested
    /\ state' = "CHARGING_STABLE"
    /\ decision' = NoDecision(in)
    /\ UNCHANGED requested

\* At the target (or unable to move): re-issued only if the charger is idle.
Hold(in) ==
    /\ Running(in)
    /\ NextCurrent(in) = requested
    /\ state' = "CHARGING_STABLE"
    /\ decision' = IF in.charging THEN NoDecision(in) ELSE SetCurrent(in, requested)
    /\ UNCHANGED requested

Ramp(in) ==
    /\ Running(in)
    /\ NextCurrent(in) # requested
    /\ state' = IF NextCurrent(in) < requested THEN "REDUCING" ELSE "CHARGING_STABLE"
    /\ requested' = NextCurrent(in)
    /\ decision' = SetCurrent(in, NextCurrent(in))

-----------------------------------------------------------------------------
\* The list is pruned by every call and grows only with a guarded start.
CountStart(in) == starts' = RecentStarts \cup (IF Fast(in) THEN {} ELSE {0})

Evaluate(in) ==
    \/ /\ \/ Fault(in) \/ UserPaused(in) \/ NoVehicle(in) \/ CoolingDown(in)
          \/ Reduce(in) \/ WaitToStop(in) \/ Stop(in)
          \/ StartRateLimited(in) \/ WaitForExport(in) \/ WaitToStart(in)
          \/ Hold(in) \/ Ramp(in)
       /\ starts' = RecentStarts
    \/ Start(in) /\ CountStart(in)

\* Every timestamp gets one tick older.
Age ==
    /\ startSince' = Older(startSince, StartDelay)
    /\ stopSince' = Older(stopSince, StopDelay)
    /\ importSince' = Older(importSince, ImportTime + 1)
    /\ sinceStart' = Older(sinceStart, MinRunTime)
    /\ sinceStop' = Older(sinceStop, MinOffTime)
    /\ cooldown' = Greater(cooldown - 1, 0)
    /\ starts' = {Lesser(age + 1, Hour + 1) : age \in starts}
    /\ UNCHANGED <<state, requested>>

\* A charger EMIC has never run before.
Init ==
    /\ state = "WAITING_TO_START"
    /\ requested = 0
    /\ startSince = None
    /\ stopSince = None
    /\ importSince = None
    /\ sinceStart = None
    /\ sinceStop = None
    /\ cooldown = 0
    /\ starts = {}
    /\ decision = [action |-> "none", current |-> 0, fast |-> FALSE]
    /\ due = TRUE

Cycle(in) == due /\ Evaluate(in) /\ due' = FALSE

Tick == Age /\ due' = TRUE /\ UNCHANGED decision

Next == (\E in \in Inputs : Cycle(in)) \/ Tick

Spec == Init /\ [][Next]_vars

-----------------------------------------------------------------------------
TypeOK ==
    /\ state \in States
    /\ requested \in {0} \cup MinCurrent .. MaxCurrent
    /\ startSince \in AgeUpTo(StartDelay)
    /\ stopSince \in AgeUpTo(StopDelay)
    /\ importSince \in AgeUpTo(ImportTime + 1)
    /\ sinceStart \in AgeUpTo(MinRunTime)
    /\ sinceStop \in AgeUpTo(MinOffTime)
    /\ cooldown \in 0 .. MinOffTime
    /\ starts \subseteq 0 .. Hour + 1
    /\ decision \in [action : {"none", "set_current", "stop", "fault"},
                     current : {0} \cup MinCurrent .. MaxCurrent,
                     fast : BOOLEAN]
    /\ due \in BOOLEAN

(***************************************************************************)
(* The state says whether a current is requested.  Every way through       *)
(* evaluate_smart_charging has to keep the two in step, although some (the *)
(* wait for export, the start delay) assign only one of them; a start path *)
(* entered with a current already requested would skip the ramp.           *)
(***************************************************************************)
StateMatchesRequest ==
    /\ state \in {"PAUSED", "WAITING_TO_START", "STOPPING", "COOLDOWN"} => requested = 0
    /\ state \in {"STARTING", "CHARGING_STABLE", "REDUCING"} => requested >= MinCurrent

(***************************************************************************)
(* cooldown_until and last_stop_at are two records of the same stop, kept  *)
(* by different code: a cooldown that runs must end minimum_off_time after *)
(* last_stop_at, whatever pauses, faults and fast charging came between,   *)
(* and nothing is requested while it runs.                                 *)
(***************************************************************************)
CooldownMatchesStop ==
    cooldown > 0 => /\ requested = 0
                    /\ sinceStop # None
                    /\ cooldown + sinceStop = MinOffTime

(***************************************************************************)
(* max_automatic_starts_per_hour holds at every moment of the sliding      *)
(* hour, also right after a tick that lets an old start expire.            *)
(***************************************************************************)
HourlyLimit == Cardinality(RecentStarts) <= MaxStarts

(***************************************************************************)
(* Every change of the requested current is one ChargingGuardrails allows. *)
(***************************************************************************)
Guardrails == INSTANCE ChargingGuardrails WITH
                 current <- requested,
                 rest    <- IF sinceStop = None THEN 0 ELSE MinOffTime - sinceStop,
                 recent  <- RecentStarts,
                 userRun <- decision.fast

KeepsGuardrails == Guardrails!Spec
=============================================================================
