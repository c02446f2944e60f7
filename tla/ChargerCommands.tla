--------------------------- MODULE ChargerCommands ---------------------------
(***************************************************************************)
(* The command controller (charging/command_controller.py) with its anti-  *)
(* flapping memory (charging/anti_flapping.py), and the charger it talks   *)
(* to as chargers/halo_adapter.py sees it: a connector with a mode and a   *)
(* current limit, which a car may be plugged into.                         *)
(*                                                                         *)
(* A command is done, is refused (nothing happened), or times out after it *)
(* took effect; the controller cannot tell the last two apart.  A cycle    *)
(* may also be cut off in the middle of a command, by the lane timeout of  *)
(* the collector.  MaxFailures bounds how often any of this happens.       *)
(* Connectors locked by RFID, chargers that lack a capability and meters   *)
(* of another make are left out.                                           *)
(***************************************************************************)
EXTENDS Ages

CONSTANTS
    MinChangeInterval,  \* minimum_current_change_interval_seconds
    Hysteresis,         \* current_hysteresis_a
    MaxFailures         \* bound: outages and failed commands

ASSUME CommandAssumption ==
    /\ MinChangeInterval \in Nat
    /\ Hysteresis \in Nat
    /\ MaxFailures \in Nat

VARIABLES
    limit,        \* the connector's maxCurrent
    enabled,      \* the connector's mode is On
    plugged,      \* a car is plugged in
    online,       \* the charger answers
    applied,      \* AntiFlappingState.last_applied_current_a
    commanded,    \* last_command_current_a
    sinceChange,  \* age of last_change_at, or None
    result,       \* what this cycle's call of apply returned, or None
    failures      \* failures so far

device == <<limit, enabled, plugged, online>>
memory == <<applied, commanded, sinceChange>>
commandVars == <<device, memory, result, failures>>

-----------------------------------------------------------------------------
(* The charger.                                                            *)

Charging == plugged /\ enabled /\ limit > 0

Fails == failures < MaxFailures /\ failures' = failures + 1
Works == UNCHANGED failures

PlugIn == ~plugged /\ plugged' = TRUE /\ UNCHANGED <<limit, enabled, online, memory, result, failures>>
Unplug == plugged /\ plugged' = FALSE /\ UNCHANGED <<limit, enabled, online, memory, result, failures>>

GoOffline == online /\ online' = FALSE /\ Fails /\ UNCHANGED <<limit, enabled, plugged, memory, result>>
ComeBack == ~online /\ online' = TRUE /\ UNCHANGED <<limit, enabled, plugged, memory, result, failures>>

\* The adapter's commands; stopping leaves the connector on, at zero amperes.
StopCharging == limit' = 0 /\ enabled' = TRUE
SetLimit(a) == limit' = a
StartCharging == enabled' = TRUE

-----------------------------------------------------------------------------
(* should_apply_current and record_applied.                                *)

Distance(a, b) == IF a >= b THEN a - b ELSE b - a

ShouldApply(a) ==
    /\ commanded # a
    /\ applied # None => Distance(a, applied) >= Hysteresis
    /\ sinceChange # None => sinceChange >= MinChangeInterval

RecordApplied(a) ==
    /\ applied' = a
    /\ commanded' = a
    /\ sinceChange' = 0

\* `a or b`: zero counts as not set.
Or(a, b) == IF a = None \/ a = 0 THEN b ELSE a
LastKnown == Or(commanded, Or(applied, 0))

\* charger_matches_previous
MatchesPrevious ==
    /\ applied # None
    /\ limit = applied
    /\ Charging <=> applied > 0

-----------------------------------------------------------------------------
(* apply, one action per way out of it.                                    *)

Returns(wasApplied, current) ==
    result' = [applied |-> wasApplied, current |-> current, finished |-> TRUE]

\* Cut off: the caller's clean-up records what was applied before this cycle.
CutOff(before) ==
    result' = [applied |-> FALSE, current |-> before, finished |-> FALSE]

Skip(d) ==
    /\ d.action = "none"
    /\ Returns(FALSE, IF commanded = None THEN Or(applied, 0) ELSE commanded)
    /\ UNCHANGED <<device, memory, failures>>

Unreachable(d) ==
    /\ d.action # "none"
    /\ ~online
    /\ Returns(FALSE, LastKnown)
    /\ UNCHANGED <<device, memory, failures>>

NobodyThere(d) ==
    /\ d.action # "none"
    /\ online
    /\ ~plugged /\ d.current > 0
    /\ Returns(FALSE, LastKnown)
    /\ UNCHANGED <<device, memory, failures>>

\* The charger can be told something.
Reached(d) == d.action # "none" /\ online /\ (plugged \/ d.current = 0)

AlreadyStopped(d) == d.current = 0 /\ limit = 0 /\ ~Charging

Reasserts(d) == d.current = 0 /\ commanded = 0 /\ Charging

AlreadyRequested(d) == d.current > 0 /\ commanded = d.current /\ Charging

Suppressed(d) ==
    /\ ~Reasserts(d)
    /\ ~ShouldApply(d.current)
    /\ MatchesPrevious

ConfirmStopped(d) ==
    /\ Reached(d)
    /\ AlreadyStopped(d)
    /\ RecordApplied(0)
    /\ Returns(FALSE, 0)
    /\ UNCHANGED <<device, failures>>

KeepCommand(d) ==
    /\ Reached(d)
    /\ AlreadyRequested(d)
    /\ Returns(FALSE, commanded)
    /\ UNCHANGED <<device, memory, failures>>

\* Mutant: a command held back is recorded as if it had been sent.
HoldBack_recorded(d) ==
    /\ Reached(d)
    /\ ~AlreadyStopped(d) /\ ~AlreadyRequested(d)
    /\ Suppressed(d)
    /\ RecordApplied(d.current)
    /\ Returns(FALSE, applied)
    /\ UNCHANGED <<device, failures>>

HoldBack(d) ==
    /\ Reached(d)
    /\ ~AlreadyStopped(d) /\ ~AlreadyRequested(d)
    /\ Suppressed(d)
    /\ Returns(FALSE, applied)
    /\ UNCHANGED <<device, memory, failures>>

Sends(d) == Reached(d) /\ ~AlreadyStopped(d) /\ ~AlreadyRequested(d) /\ ~Suppressed(d)

\* What a command sent may have done to the connector, whole or in part.
StopEffect == StopCharging
SetEffect(a) == SetLimit(a) /\ IF Charging THEN UNCHANGED enabled ELSE StartCharging
PartialEffect(d) ==
    \/ UNCHANGED <<limit, enabled>>
    \/ d.current = 0 /\ StopEffect
    \/ d.current > 0 /\ SetLimit(d.current) /\ UNCHANGED enabled
    \/ d.current > 0 /\ SetEffect(d.current)

Send(d) ==
    /\ Sends(d)
    /\ IF d.current = 0 THEN StopEffect ELSE SetEffect(d.current)
    /\ RecordApplied(d.current)
    /\ Returns(TRUE, d.current)
    /\ Works
    /\ UNCHANGED <<plugged, online>>

\* ChargerApiError: nothing is recorded, whatever the charger did.
SendFails(d) ==
    /\ Sends(d)
    /\ PartialEffect(d)
    /\ Returns(FALSE, LastKnown)
    /\ Fails
    /\ UNCHANGED <<plugged, online, memory>>

\* The lane timeout cancels the call at an await.
SendCutOff(d, before) ==
    /\ Sends(d)
    /\ PartialEffect(d)
    /\ CutOff(before)
    /\ Fails
    /\ UNCHANGED <<plugged, online, memory>>

Apply(d, before) ==
    \/ Skip(d) \/ Unreachable(d) \/ NobodyThere(d)
    \/ ConfirmStopped(d) \/ KeepCommand(d) \/ HoldBack(d)
    \/ Send(d) \/ SendFails(d) \/ SendCutOff(d, before)

-----------------------------------------------------------------------------
CommandInit ==
    /\ limit = 0
    /\ enabled = FALSE
    /\ plugged = FALSE
    /\ online = TRUE
    /\ applied = None
    /\ commanded = None
    /\ sinceChange = None
    /\ result = None
    /\ failures = 0

Environment == PlugIn \/ Unplug \/ GoOffline \/ ComeBack
=============================================================================
