---------------------- MODULE SmartChargingHistoryProofs ----------------------
(***************************************************************************)
(* What is proved of smart charging over whole histories, for every choice *)
(* of currents, delays, limits and inputs: the delays and the minimum run  *)
(* time.  The code's timers never run ahead of the observer's clocks.      *)
(***************************************************************************)
EXTENDS SmartChargingHistory, SmartChargingProofs

-----------------------------------------------------------------------------
(* The inductive invariant, in parts.                                      *)

\* start_condition_since is no older than the wish for a session, and a
\* cooldown that runs began with a stop, which ended it.
StartTimerHonest ==
    /\ sinceUnwanted \in AgeUpTo(StartDelay)
    /\ cooldown > 0 => startSince = None
    /\ startSince # None => sinceUnwanted # None /\ startSince <= sinceUnwanted

\* stop_condition_since is no older than the lull.
StopTimerHonest ==
    /\ sinceWanted \in AgeUpTo(StopDelay)
    /\ stopSince # None => sinceWanted # None /\ stopSince <= sinceWanted

RuntimeSound == TypeOK /\ StateMatchesRequest /\ CooldownMatchesStop

-----------------------------------------------------------------------------
(* One call of evaluate_smart_charging.                                    *)

\* What a call that begins a session, or one that stops it, has found.
LEMMA IdleWhenStarting ==
    ASSUME TypeOK, StateMatchesRequest, NEW in \in Input, Starting(in)
    PROVE  requested = 0
BY CurrentAssumption DEF TypeOK, StateMatchesRequest, Starting

\* A clock is an age after a cycle, as it was before.
LEMMA Restarted ==
    ASSUME NEW bound \in Nat, NEW clock \in AgeUpTo(bound), NEW ends \in BOOLEAN
    PROVE  /\ Restart(ends, clock) \in AgeUpTo(bound)
           /\ ~ends => /\ Restart(ends, clock) = HeldFor(clock)
                       /\ HeldFor(clock) \in Nat /\ Restart(ends, clock) # None
BY NoneAssumption DEF Restart, AgeUpTo, HeldFor

\* Only the start path begins a session.
LEMMA StartsAreStarts ==
    ASSUME TypeOK, StateMatchesRequest, NEW in \in Input, Evaluate(in),
           IncreaseStep < MinCurrent, Starts
    PROVE  Start(in) /\ ClampTarget(in.target) > 0
<1> USE CurrentAssumption
<1>1. requested = 0 /\ requested' > 0
  BY DEF Starts
<1>2. ~Reduce(in)
  <2>1. SUFFICES ASSUME Reduce(in) PROVE FALSE
    OBVIOUS
  <2>2. Floor = IncreaseStep
    BY <1>1 DEF Floor, ApplyRamp, Lesser
  <2>3. QED BY <1>1, <2>1, <2>2 DEF Reduce, ReducesFirst
<1>3. requested' = requested \/ requested' = 0 \/ Start(in)
  BY <1>1, <1>2 DEF Evaluate, Fault, UserPaused, NoVehicle, CoolingDown, WaitToStop, Stop,
     StartRateLimited, WaitForExport, WaitToStart, Hold, Ramp, Running
<1>4. Start(in)
  BY <1>1, <1>3
<1>5. QED BY <1>4 DEF Start, Starting

\* What ends a wish for a session, and what ends a lull.
EndsWish(in) == Starts \/ (~Interrupted(in) /\ ~(in.plugged /\ Wanted(in)))
EndsLull(in) ==
    Stops \/ (~Interrupted(in) /\ (~in.plugged \/ (Wanted(in) /\ requested > 0)))

LEMMA ObservedClocks ==
    ASSUME NEW in \in Input, Observe(in)
    PROVE  /\ sinceUnwanted' = Restart(EndsWish(in), sinceUnwanted)
           /\ sinceWanted' = Restart(EndsLull(in), sinceWanted)
           /\ EndsWish(in) \in BOOLEAN /\ EndsLull(in) \in BOOLEAN
BY DEF Observe, EndsWish, EndsLull

LEMMA StartTimerMoves ==
    ASSUME TypeOK, StateMatchesRequest, StartTimerHonest, NEW in \in Input, Evaluate(in),
           IncreaseStep < MinCurrent
    PROVE  \/ startSince' = None
           \/ /\ ~EndsWish(in) /\ ~(cooldown' > 0)
              /\ startSince' = startSince \/ startSince' = HeldFor(startSince)
           \/ ~EndsWish(in) /\ startSince' = startSince /\ cooldown' = cooldown
<1>1. Evaluate(in) /\ (Starts => Start(in))
  BY StartsAreStarts
<1>2. CASE Fault(in) \/ UserPaused(in)
  <2>1. ~Starts /\ Interrupted(in) /\ startSince' = startSince /\ cooldown' = cooldown
    BY <1>2, CurrentAssumption DEF Fault, UserPaused, Starts, Interrupted
  <2>2. QED BY <2>1 DEF EndsWish
<1>3. CASE CoolingDown(in)
  BY <1>3 DEF CoolingDown, StartTimerHonest
<1>4. CASE NoVehicle(in) \/ Reduce(in) \/ WaitToStop(in) \/ Stop(in) \/ WaitForExport(in)
           \/ Start(in)
  BY <1>4 DEF NoVehicle, ResetTimers, Reduce, WaitToStop, Stop, WaitForExport, Start
<1>5. CASE StartRateLimited(in) \/ WaitToStart(in)
  <2>1. ~Start(in)
    BY <1>5 DEF StartRateLimited, WaitToStart, Start
  <2>2. /\ in.plugged /\ Wanted(in) /\ cooldown' = 0
        /\ startSince' = startSince \/ startSince' = HeldFor(startSince)
    BY <1>5 DEF StartRateLimited, WaitToStart, Starting, Regulated, Wanted
  <2>3. QED BY <1>1, <2>1, <2>2 DEF EndsWish
<1>6. CASE Hold(in) \/ Ramp(in)
  <2>1. Running(in)
    BY <1>6 DEF Hold, Ramp
  <2>2. requested > 0 /\ in.plugged /\ Wanted(in) /\ cooldown' = 0 /\ startSince' = startSince
    BY <2>1 DEF Running, Regulated, Wanted
  <2>3. QED BY <2>2 DEF EndsWish, Starts
<1>7. QED BY <1>1, <1>2, <1>3, <1>4, <1>5, <1>6 DEF Evaluate

LEMMA StopTimerMoves ==
    ASSUME TypeOK, StateMatchesRequest, CooldownMatchesStop, NEW in \in Input, Evaluate(in)
    PROVE  \/ stopSince' = None
           \/ /\ ~EndsLull(in)
              /\ stopSince' = stopSince \/ stopSince' = HeldFor(stopSince)
<1>1. Evaluate(in)
  OBVIOUS
<1>2. CASE Fault(in) \/ UserPaused(in)
  BY <1>2 DEF Fault, UserPaused, Stops, Interrupted, EndsLull
<1>3. CASE CoolingDown(in)
  BY <1>3 DEF CoolingDown, CooldownMatchesStop, Stops, EndsLull
<1>4. CASE NoVehicle(in) \/ Stop(in) \/ Hold(in) \/ Ramp(in)
  BY <1>4 DEF NoVehicle, ResetTimers, Stop, Hold, Ramp, Running
<1>5. CASE Reduce(in) \/ WaitToStop(in)
  BY <1>5 DEF Reduce, WaitToStop, Regulated, Stops, EndsLull, Wanted
<1>6. CASE StartRateLimited(in) \/ WaitForExport(in) \/ WaitToStart(in) \/ Start(in)
  <2>1. Starting(in) /\ stopSince' = stopSince /\ ~Stops
    BY <1>6 DEF StartRateLimited, WaitForExport, WaitToStart, Start, Stops
  <2>2. requested = 0 /\ in.plugged
    BY <2>1, IdleWhenStarting DEF Starting, Regulated
  <2>3. QED BY <2>1, <2>2 DEF EndsLull
<1>7. QED BY <1>1, <1>2, <1>3, <1>4, <1>5, <1>6 DEF Evaluate

-----------------------------------------------------------------------------
(* The invariant is inductive.                                             *)

\* The observer changes nothing.
LEMMA Observes == HistorySpec => Spec
<1>1. HistoryInit => Init
  BY DEF HistoryInit
<1>2. [HistoryNext]_observed => [Next]_vars
  BY DEF HistoryNext, ObservedCycle, ObservedTick, Next, observed
<1>3. QED BY <1>1, <1>2, PTL DEF HistorySpec, Spec

LEMMA CycleStart ==
    ASSUME RuntimeSound, StartTimerHonest, IncreaseStep < MinCurrent,
           NEW in \in Input, ObservedCycle(in)
    PROVE  StartTimerHonest'
<1> USE TimeAssumption, NoneAssumption
<1>1. Evaluate(in) /\ Observe(in) /\ TypeOK /\ StateMatchesRequest
  BY DEF ObservedCycle, Cycle, RuntimeSound
<1>2. sinceUnwanted' = Restart(EndsWish(in), sinceUnwanted) /\ EndsWish(in) \in BOOLEAN
  BY <1>1, ObservedClocks
<1>3. sinceUnwanted' \in AgeUpTo(StartDelay)
  BY <1>2, Restarted DEF StartTimerHonest
<1>4. ~EndsWish(in) => /\ sinceUnwanted' = HeldFor(sinceUnwanted)
                       /\ sinceUnwanted' \in Nat /\ sinceUnwanted' # None
  BY <1>2, Restarted DEF StartTimerHonest
<1>5. /\ startSince = None => HeldFor(startSince) = 0
      /\ startSince # None => HeldFor(startSince) = startSince
      /\ sinceUnwanted # None => HeldFor(sinceUnwanted) = sinceUnwanted
  BY DEF HeldFor
<1>6. CASE startSince' = None
  BY <1>3, <1>6 DEF StartTimerHonest
<1>7. CASE /\ ~EndsWish(in) /\ ~(cooldown' > 0)
           /\ startSince' = startSince \/ startSince' = HeldFor(startSince)
  BY <1>3, <1>4, <1>5, <1>7 DEF StartTimerHonest
<1>8. CASE ~EndsWish(in) /\ startSince' = startSince /\ cooldown' = cooldown
  BY <1>3, <1>4, <1>5, <1>8 DEF StartTimerHonest
<1>9. QED BY <1>1, <1>6, <1>7, <1>8, StartTimerMoves

LEMMA CycleStop ==
    ASSUME RuntimeSound, StopTimerHonest, NEW in \in Input, ObservedCycle(in)
    PROVE  StopTimerHonest'
<1> USE TimeAssumption, NoneAssumption
<1>1. /\ Evaluate(in) /\ Observe(in)
      /\ TypeOK /\ StateMatchesRequest /\ CooldownMatchesStop
  BY DEF ObservedCycle, Cycle, RuntimeSound
<1>2. sinceWanted' = Restart(EndsLull(in), sinceWanted) /\ EndsLull(in) \in BOOLEAN
  BY <1>1, ObservedClocks
<1>3. sinceWanted' \in AgeUpTo(StopDelay)
  BY <1>2, Restarted DEF StopTimerHonest
<1>4. ~EndsLull(in) => /\ sinceWanted' = HeldFor(sinceWanted)
                       /\ sinceWanted' \in Nat /\ sinceWanted' # None
  BY <1>2, Restarted DEF StopTimerHonest
<1>5. /\ stopSince = None => HeldFor(stopSince) = 0
      /\ stopSince # None => HeldFor(stopSince) = stopSince
      /\ sinceWanted # None => HeldFor(sinceWanted) = sinceWanted
  BY DEF HeldFor
<1>6. CASE stopSince' = None
  BY <1>3, <1>6 DEF StopTimerHonest
<1>7. CASE /\ ~EndsLull(in)
           /\ stopSince' = stopSince \/ stopSince' = HeldFor(stopSince)
  BY <1>3, <1>4, <1>5, <1>7 DEF StopTimerHonest
<1>8. QED BY <1>1, <1>6, <1>7, StopTimerMoves

\* A timer and the clock above it grow together.
LEMMA AgesTogether ==
    ASSUME NEW bound \in Nat, NEW a \in AgeUpTo(bound), NEW b \in AgeUpTo(bound),
           a # None => b # None /\ a <= b
    PROVE  /\ Older(b, bound) \in AgeUpTo(bound)
           /\ Older(a, bound) # None
                => /\ a # None /\ Older(b, bound) # None
                   /\ Older(a, bound) <= Older(b, bound)
BY NoneAssumption DEF AgeUpTo, Older, Lesser

LEMMA TickStart ==
    ASSUME TypeOK, StartTimerHonest, ObservedTick PROVE StartTimerHonest'
<1>1. /\ startSince \in AgeUpTo(StartDelay)
      /\ startSince' = Older(startSince, StartDelay)
      /\ sinceUnwanted' = Older(sinceUnwanted, StartDelay)
      /\ cooldown' > 0 => cooldown > 0
  BY TimeAssumption DEF ObservedTick, Tick, Age, TypeOK, Greater
<1>2. QED BY <1>1, AgesTogether, TimeAssumption DEF StartTimerHonest

LEMMA TickStop ==
    ASSUME TypeOK, StopTimerHonest, ObservedTick PROVE StopTimerHonest'
<1>1. /\ stopSince \in AgeUpTo(StopDelay)
      /\ stopSince' = Older(stopSince, StopDelay)
      /\ sinceWanted' = Older(sinceWanted, StopDelay)
  BY DEF ObservedTick, Tick, Age, TypeOK
<1>2. QED BY <1>1, AgesTogether, TimeAssumption DEF StopTimerHonest

LEMMA StaysSound == HistorySpec => []RuntimeSound
<1>1. TypeOK /\ StateMatchesRequest /\ CooldownMatchesStop => RuntimeSound
  BY DEF RuntimeSound
<1>2. QED BY <1>1, Observes, TypeCorrect, StateMatches, CooldownMatches, PTL

\* However pauses, faults, cooldowns and cycles that lead nowhere follow each
\* other, start_condition_since never claims more than has passed.
THEOREM StartTimersHonest ==
    ASSUME IncreaseStep < MinCurrent PROVE HistorySpec => []StartTimerHonest
<1>1. HistoryInit => StartTimerHonest
  BY NoneAssumption, TimeAssumption DEF HistoryInit, Init, AgeUpTo, StartTimerHonest
<1>2. RuntimeSound /\ StartTimerHonest /\ [HistoryNext]_observed => StartTimerHonest'
  <2> SUFFICES ASSUME RuntimeSound, StartTimerHonest, [HistoryNext]_observed
               PROVE  StartTimerHonest'
    OBVIOUS
  <2>1. ASSUME NEW in \in Inputs, ObservedCycle(in) PROVE StartTimerHonest'
    BY <2>1, InputAssumption, CycleStart
  <2>2. CASE ObservedTick
    BY <2>2, TickStart DEF RuntimeSound
  <2>3. CASE UNCHANGED observed
    BY <2>3 DEF observed, vars, runtimeVars, clocks, StartTimerHonest
  <2>4. QED BY <2>1, <2>2, <2>3 DEF HistoryNext
<1>3. QED BY <1>1, <1>2, StaysSound, PTL DEF HistorySpec

\* Nor does stop_condition_since, whatever the steps.
THEOREM StopTimersHonest == HistorySpec => []StopTimerHonest
<1>1. HistoryInit => StopTimerHonest
  BY NoneAssumption, TimeAssumption DEF HistoryInit, Init, AgeUpTo, StopTimerHonest
<1>2. RuntimeSound /\ StopTimerHonest /\ [HistoryNext]_observed => StopTimerHonest'
  <2> SUFFICES ASSUME RuntimeSound, StopTimerHonest, [HistoryNext]_observed
               PROVE  StopTimerHonest'
    OBVIOUS
  <2>1. ASSUME NEW in \in Inputs, ObservedCycle(in) PROVE StopTimerHonest'
    BY <2>1, InputAssumption, CycleStop
  <2>2. CASE ObservedTick
    BY <2>2, TickStop DEF RuntimeSound
  <2>3. CASE UNCHANGED observed
    BY <2>3 DEF observed, vars, runtimeVars, clocks, StopTimerHonest
  <2>4. QED BY <2>1, <2>2, <2>3 DEF HistoryNext
<1>3. QED BY <1>1, <1>2, StaysSound, PTL DEF HistorySpec

-----------------------------------------------------------------------------
(* The delays and the minimum run time.                                    *)

\* An observed step that changes anything the properties look at is a call.
LEMMA ObservedStep ==
    ASSUME [HistoryNext]_observed, TypeOK
    PROVE  \/ \E in \in Input : Evaluate(in) /\ due /\ ~due' /\ call' = Note(in)
           \/ requested' = requested /\ state' = state /\ (due' \/ due' = due)
<1>1. ASSUME NEW in \in Inputs, ObservedCycle(in)
      PROVE  Evaluate(in) /\ due /\ ~due' /\ call' = Note(in) /\ in \in Input
  BY <1>1, InputAssumption DEF ObservedCycle, Cycle, Observe
<1>2. CASE ObservedTick
  BY <1>2 DEF ObservedTick, Tick, Age
<1>3. CASE UNCHANGED observed
  BY <1>3 DEF observed, vars, runtimeVars
<1>4. QED BY <1>1, <1>2, <1>3 DEF HistoryNext

\* The start delay is kept by the clock as by start_condition_since.
LEMMA StartDelayed ==
    ASSUME RuntimeSound, StartTimerHonest, IncreaseStep < MinCurrent, [HistoryNext]_observed,
           Starts, call'.delayed
    PROVE  HeldFor(sinceUnwanted) >= StartDelay
<1> USE TimeAssumption, NoneAssumption
<1>1. TypeOK /\ StateMatchesRequest
  BY DEF RuntimeSound
<1>2. ~(requested' = requested)
  BY DEF Starts
<1>3. PICK in \in Input : Evaluate(in) /\ call' = Note(in)
  BY <1>1, <1>2, ObservedStep
<1>4. Start(in) /\ UsesStartDelay(in) /\ ~in.urgent
  BY <1>1, <1>3, StartsAreStarts DEF Note
<1>5. HeldFor(startSince) >= StartDelay
  BY <1>1, <1>4 DEF Start, AwaitsStartDelay, TypeOK, HeldFor, AgeUpTo
<1>6. QED BY <1>1, <1>5 DEF StartTimerHonest, TypeOK, HeldFor, AgeUpTo

\* The stop delay is kept by the clock as by stop_condition_since.
LEMMA StopDelayed ==
    ASSUME TypeOK, StopTimerHonest, [HistoryNext]_observed, GuardedStop
    PROVE  HeldFor(sinceWanted) >= StopDelay
<1> USE TimeAssumption, NoneAssumption
<1>2. due /\ ~due' /\ state' = "STOPPING" /\ call'.guarded /\ call'.charging
  BY DEF GuardedStop, Stops
<1>3. PICK in \in Input : Evaluate(in) /\ call' = Note(in)
  BY <1>2, ObservedStep
<1>4. Stop(in)
  BY <1>2, <1>3 DEF Evaluate, Fault, UserPaused, NoVehicle, CoolingDown, Reduce, WaitToStop,
     StartRateLimited, WaitForExport, WaitToStart, Hold, Ramp, Start
<1>5. in.charging /\ ~Fast(in)
  BY <1>2, <1>3 DEF Note
<1>6. HeldFor(stopSince) >= StopDelay
  BY <1>4, <1>5 DEF Stop, DelaysStop, TypeOK, HeldFor, AgeUpTo
<1>7. QED BY <1>6 DEF StopTimerHonest, TypeOK, HeldFor, AgeUpTo

\* Within the minimum run time a calm call reduces, holds or ramps.
LEMMA RunKept ==
    ASSUME RuntimeSound, [HistoryNext]_observed, requested > 0, InRunPeriod, due, ~due',
           call'.guarded, call'.calm
    PROVE  requested' >= MinCurrent
<1> USE CurrentAssumption
<1>1. TypeOK /\ StateMatchesRequest /\ CooldownMatchesStop
  BY DEF RuntimeSound
<1>2. requested \in Currents /\ requested \in MinCurrent .. MaxCurrent
  BY <1>1 DEF TypeOK, Currents
<1>3. PICK in \in Input : Evaluate(in) /\ call' = Note(in)
  BY <1>1, ObservedStep
<1>4. ~Interrupted(in) /\ in.plugged /\ ~Fast(in) /\ in.import = "deadband"
  BY <1>3 DEF Note
<1>5. ~Fault(in) /\ ~UserPaused(in) /\ ~NoVehicle(in)
  BY <1>4 DEF Fault, UserPaused, NoVehicle, Interrupted
<1>6. ~CoolingDown(in)
  BY <1>1, <1>2 DEF CoolingDown, CooldownMatchesStop
<1>7. ~Starting(in)
  BY <1>1, <1>2, IdleWhenStarting
<1>8. Floor >= MinCurrent /\ ReducesFirst(in)
  <2>1. Floor >= MinCurrent
    <3>1. MinCurrent \in Nat /\ requested \in Nat /\ FALSE \in BOOLEAN /\ MinCurrent <= requested
      BY <1>2
    <3>2. MinCurrent <= ApplyRamp(requested, MinCurrent, FALSE)
      BY <3>1, RampBounds
    <3>3. ApplyRamp(requested, MinCurrent, FALSE) \in Nat
      BY <3>1, RampBounds
    <3>4. QED BY <3>1, <3>2, <3>3 DEF Floor
  <2>2. QED BY <2>1, <1>4 DEF ReducesFirst, ImportTolerated
<1>9. CASE Reduce(in)
  BY <1>8, <1>9 DEF Reduce
<1>10. CASE Hold(in)
  BY <1>2, <1>10 DEF Hold
<1>11. CASE Ramp(in)
  <2>1. NextCurrent(in) \in MinCurrent .. MaxCurrent
    BY <1>2, <1>11, NextCurrentRange DEF Ramp, Running
  <2>2. QED BY <2>1, <1>11 DEF Ramp
<1>12. ~WaitToStop(in) /\ ~Stop(in)
  BY <1>8 DEF WaitToStop, Stop
<1>13. Reduce(in) \/ Hold(in) \/ Ramp(in)
  BY <1>3, <1>5, <1>6, <1>7, <1>12
     DEF Evaluate, StartRateLimited, WaitForExport, WaitToStart, Start
<1>14. QED BY <1>9, <1>10, <1>11, <1>13

\* A smart or price start waits out the start delay, measured from the last
\* call that wanted none, whatever happened in between.
THEOREM StartDelays ==
    ASSUME IncreaseStep < MinCurrent PROVE HistorySpec => StartDelayKept
<1>1. RuntimeSound /\ StartTimerHonest /\ [HistoryNext]_observed
        => [Starts /\ call'.delayed => HeldFor(sinceUnwanted) >= StartDelay]_observed
  BY StartDelayed
<1>2. QED BY <1>1, StaysSound, StartTimersHonest, PTL DEF HistorySpec, StartDelayKept

\* A charger that charges is stopped only after a lull as long as the stop
\* delay, whatever happened in between.
THEOREM StopDelays == HistorySpec => StopDelayKept
<1>1. RuntimeSound /\ StopTimerHonest /\ [HistoryNext]_observed
        => [GuardedStop => HeldFor(sinceWanted) >= StopDelay]_observed
  BY StopDelayed DEF RuntimeSound
<1>2. QED BY <1>1, StaysSound, StopTimersHonest, PTL DEF HistorySpec, StopDelayKept

\* No want of a target ends a session before its minimum run time while the
\* import is within the deadband.
THEOREM MinimumRuns == HistorySpec => MinimumRunKept
<1>1. RuntimeSound /\ [HistoryNext]_observed
        => [requested > 0 /\ InRunPeriod /\ due /\ ~due' /\ call'.guarded /\ call'.calm
              => requested' >= MinCurrent]_observed
  BY RunKept
<1>2. QED BY <1>1, StaysSound, PTL DEF HistorySpec, MinimumRunKept
=============================================================================
