------------------------- MODULE SmartChargingSettled -------------------------
(***************************************************************************)
(* SmartCharging in a world that comes to rest: from some moment on every  *)
(* cycle finds the same input.  The collector calls the engine in an       *)
(* endless loop (collector.py, run_cycle every round) and time does not    *)
(* stop, so a due cycle is run and ticks keep coming: weak fairness of     *)
(* both.                                                                   *)
(***************************************************************************)
EXTENDS SmartCharging

VARIABLE settled  \* the input every cycle finds from now on, or None

settledVars == <<vars, settled>>

SettledInit == Init /\ settled = None

Settle ==
    /\ settled = None
    /\ settled' \in Inputs
    /\ UNCHANGED vars

RunCycle ==
    /\ \/ settled = None /\ \E in \in Inputs : Cycle(in)
       \/ settled # None /\ Cycle(settled)
    /\ UNCHANGED settled

PassTime == Tick /\ UNCHANGED settled

SettledNext == Settle \/ RunCycle \/ PassTime

SettledSpec ==
    /\ SettledInit
    /\ [][SettledNext]_settledVars
    /\ WF_settledVars(RunCycle)
    /\ WF_settledVars(PassTime)

InControl(in) == ~in.faulty /\ in.plugged /\ ~RespectsPause(in)
Wants(in) == InControl(in) /\ ClampTarget(in.target) > 0 /\ ~AwaitsSurplus(in)
WantsNone(in) == InControl(in) /\ ClampTarget(in.target) = 0

(***************************************************************************)
(* No combination of delays, cooldown, off time and hourly limit keeps a   *)
(* wanted session from starting for ever.                                  *)
(***************************************************************************)
EventuallyCharges == (settled # None /\ Wants(settled)) ~> requested > 0

(***************************************************************************)
(* Modulate first, stop last, but stop: a charger that keeps drawing       *)
(* although nothing is wanted is told to stop, and told again for as long  *)
(* as it does not obey.                                                    *)
(***************************************************************************)
StopIsRepeated ==
    <>[](settled # None /\ WantsNone(settled) /\ settled.charging)
    => []<>(decision.action = "stop")

(***************************************************************************)
(* The same wish is met with the full wanted current, not with the         *)
(* current the session started at: the ramp ends where it aims.            *)
(***************************************************************************)
ReachesTarget ==
    <>[](settled # None /\ Wants(settled))
    => <>[](settled # None /\ requested = ClampTarget(settled.target))
=============================================================================
