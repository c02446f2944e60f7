------------------------- MODULE SmartChargingHistory -------------------------
(***************************************************************************)
(* SmartCharging with an observer: clocks the code does not have, which    *)
(* say how long ago a start or a stop was last not called for, and a note  *)
(* of what the last call was told.  With them the start delay, the stop    *)
(* delay and the minimum run time can be stated for a whole history.       *)
(***************************************************************************)
EXTENDS SmartCharging

VARIABLES
    sinceUnwanted,  \* since a start was last unwanted, impossible or made
    sinceWanted,    \* since a session was last wanted, absent or stopped
    call            \* what the properties need of the last call

clocks == <<sinceUnwanted, sinceWanted>>
observed == <<vars, clocks, call>>

Wanted(in) == ClampTarget(in.target) > 0
Interrupted(in) == in.faulty \/ RespectsPause(in)
Starts == requested = 0 /\ requested' > 0
Stops == state' = "STOPPING"

Note(in) ==
    [guarded  |-> ~Interrupted(in) /\ in.plugged /\ ~Fast(in),
     delayed  |-> UsesStartDelay(in) /\ ~in.urgent,
     calm     |-> in.import = "deadband",
     charging |-> in.charging]

\* A condition holds from the first cycle after the one that ended it.
Restart(ends, clock) == IF ends THEN None ELSE HeldFor(clock)

Observe(in) ==
    LET endsWish == Starts \/ (~Interrupted(in) /\ ~(in.plugged /\ Wanted(in)))
        endsLull == Stops \/ (~Interrupted(in) /\ (~in.plugged \/ (Wanted(in) /\ requested > 0)))
    IN  /\ sinceUnwanted' = Restart(endsWish, sinceUnwanted)
        /\ sinceWanted' = Restart(endsLull, sinceWanted)
        /\ call' = Note(in)

ObservedCycle(in) == Cycle(in) /\ Observe(in)

ObservedTick ==
    /\ Tick
    /\ sinceUnwanted' = Older(sinceUnwanted, StartDelay)
    /\ sinceWanted' = Older(sinceWanted, StopDelay)
    /\ UNCHANGED call

HistoryInit ==
    /\ Init
    /\ sinceUnwanted = None
    /\ sinceWanted = None
    /\ call = [guarded |-> FALSE, delayed |-> FALSE, calm |-> FALSE, charging |-> FALSE]

HistoryNext == (\E in \in Inputs : ObservedCycle(in)) \/ ObservedTick

HistorySpec == HistoryInit /\ [][HistoryNext]_observed

GuardedStop == Stops /\ due /\ ~due' /\ call'.guarded /\ call'.charging

(***************************************************************************)
(* A smart or price start that is not urgent comes at least StartDelay     *)
(* after the last cycle that wanted none, saw no vehicle, or started.      *)
(***************************************************************************)
StartDelayKept ==
    [][Starts /\ call'.delayed => HeldFor(sinceUnwanted) >= StartDelay]_observed

(***************************************************************************)
(* A charger that charges is stopped for want of a target at least         *)
(* StopDelay after the last cycle that continued the session, saw no       *)
(* vehicle, or stopped.                                                    *)
(***************************************************************************)
StopDelayKept ==
    [][GuardedStop => HeldFor(sinceWanted) >= StopDelay]_observed

(***************************************************************************)
(* Minimum run time: in the first MinRunTime of a session, a cycle that    *)
(* sees no more import than the deadband never ends it, whatever the       *)
(* optimizer wants and whatever faults came before.                        *)
(***************************************************************************)
MinimumRunKept ==
    [][requested > 0 /\ InRunPeriod /\ due /\ ~due' /\ call'.guarded /\ call'.calm
       => requested' >= MinCurrent]_observed
=============================================================================
