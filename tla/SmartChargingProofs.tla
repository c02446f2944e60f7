------------------------- MODULE SmartChargingProofs -------------------------
(***************************************************************************)
(* What is proved of the smart-charging state machine for every choice of  *)
(* currents, delays, limits and inputs.                                    *)
(***************************************************************************)
EXTENDS SmartCharging, FiniteSetTheorems, TLAPS

Currents == {0} \cup MinCurrent .. MaxCurrent

-----------------------------------------------------------------------------
(* The operators on currents and ages.                                     *)

\* _clamp_target returns nothing or a current the charger accepts.
LEMMA ClampedTarget ==
    ASSUME NEW target \in Nat
    PROVE  ClampTarget(target) \in Currents
BY CurrentAssumption DEF ClampTarget, Currents, Lesser

\* _apply_ramp moves towards the target, never past it, and by bounded steps.
LEMMA RampBounds ==
    ASSUME NEW current \in Nat, NEW target \in Nat, NEW urgent \in BOOLEAN
    PROVE  LET next == ApplyRamp(current, target, urgent)
           IN  /\ next \in Nat
               /\ target >= current => current <= next /\ next <= target
               /\ target <= current => target <= next /\ next <= current
               /\ current - DecreaseStep <= next
               /\ next <= current + 2 * IncreaseStep
<1>1. CASE urgent
  BY <1>1, CurrentAssumption DEF ApplyRamp, Lesser, Greater
<1>2. CASE ~urgent
  BY <1>2, CurrentAssumption DEF ApplyRamp, Lesser, Greater
<1>3. QED BY <1>1, <1>2

\* One tick later an age is still an age, and no smaller.
LEMMA OlderAge ==
    ASSUME NEW bound \in Nat, NEW age \in AgeUpTo(bound)
    PROVE  /\ Older(age, bound) \in AgeUpTo(bound)
           /\ HeldFor(age) \in 0 .. bound
BY NoneAssumption DEF Older, AgeUpTo, Lesser, HeldFor

\* The fields of a cycle's input.
LEMMA InputFields ==
    ASSUME NEW in \in Input
    PROVE  /\ in.target \in Nat
           /\ in.override \in BOOLEAN /\ in.urgent \in BOOLEAN
           /\ Fast(in) \in BOOLEAN
BY DEF Input, Fast

\* The current a session starts with.
LEMMA StartCurrentRange ==
    ASSUME NEW in \in Input, ClampTarget(in.target) > 0
    PROVE  StartCurrent(in) \in MinCurrent .. MaxCurrent
<1> DEFINE desired == ClampTarget(in.target)
<1>1. desired \in MinCurrent .. MaxCurrent
  BY InputFields, ClampedTarget, CurrentAssumption DEF Currents
<1>2. desired \in Nat /\ 0 \in Nat /\ 0 <= desired
  BY <1>1, CurrentAssumption
<1>3. ApplyRamp(0, desired, FALSE) \in Nat /\ ApplyRamp(0, desired, FALSE) <= desired
  BY <1>2, RampBounds
<1> HIDE DEF desired
<1>4. \/ StartCurrent(in) = Greater(MinCurrent, desired)
      \/ StartCurrent(in) = Greater(MinCurrent, ApplyRamp(0, desired, FALSE))
  BY DEF StartCurrent, desired
<1>5. \A a \in Nat : a <= desired => Greater(MinCurrent, a) \in MinCurrent .. MaxCurrent
  BY <1>1, CurrentAssumption DEF Greater
<1>6. desired <= desired
  BY <1>2
<1>7. QED BY <1>2, <1>3, <1>4, <1>5, <1>6

\* The floor of the stop path, and the next current of a running session.
LEMMA FloorRange ==
    ASSUME requested \in Currents
    PROVE  /\ Floor \in Nat
           /\ requested > MinCurrent => Floor \in MinCurrent .. MaxCurrent
           /\ Floor >= MinCurrent => Floor \in MinCurrent .. MaxCurrent
<1>1. requested \in Nat /\ MinCurrent \in Nat /\ FALSE \in BOOLEAN
  BY CurrentAssumption DEF Currents
<1>2. /\ Floor \in Nat
      /\ MinCurrent >= requested => requested <= Floor /\ Floor <= MinCurrent
      /\ MinCurrent <= requested => MinCurrent <= Floor /\ Floor <= requested
  BY <1>1, RampBounds DEF Floor
<1>3. QED BY <1>1, <1>2, CurrentAssumption DEF Currents

LEMMA NextCurrentRange ==
    ASSUME NEW in \in Input, requested \in Currents, requested > 0,
           ClampTarget(in.target) > 0
    PROVE  NextCurrent(in) \in MinCurrent .. MaxCurrent
<1> DEFINE desired == ClampTarget(in.target)
<1>1. desired \in MinCurrent .. MaxCurrent /\ requested \in MinCurrent .. MaxCurrent
  BY InputFields, ClampedTarget, CurrentAssumption DEF Currents
<1>2. desired \in Nat /\ requested \in Nat /\ in.urgent \in BOOLEAN
  BY <1>1, InputFields, CurrentAssumption
<1> HIDE DEF desired
<1>3. LET next == ApplyRamp(requested, desired, in.urgent)
      IN  /\ next \in Nat
          /\ desired >= requested => requested <= next /\ next <= desired
          /\ desired <= requested => desired <= next /\ next <= requested
  BY <1>2, RampBounds
<1>4. NextCurrent(in) = ApplyRamp(requested, desired, in.urgent)
  BY DEF NextCurrent, desired
<1>5. QED BY <1>1, <1>2, <1>3, <1>4, CurrentAssumption
-----------------------------------------------------------------------------
(* Type correctness.                                                       *)

LEMMA InitTyped == Init => TypeOK
BY CurrentAssumption, TimeAssumption, NoneAssumption
   DEF Init, TypeOK, States, AgeUpTo

\* Pruning keeps the starts in range.
LEMMA PrunedTyped ==
    ASSUME TypeOK PROVE RecentStarts \subseteq 0 .. Hour + 1
BY DEF TypeOK, RecentStarts

\* The import timer, once updated.
LEMMA ImportTimerTyped ==
    ASSUME TypeOK, NEW in \in Input PROVE ImportTimer(in) \in AgeUpTo(ImportTime + 1)
BY TimeAssumption, NoneAssumption DEF TypeOK, ImportTimer, HeldFor, AgeUpTo

\* What a call may return.
LEMMA DecisionTyped ==
    ASSUME NEW in \in Input, NEW a \in Currents, NEW kind \in {"stop", "fault"}
    PROVE  LET Decisions == [action : {"none", "set_current", "stop", "fault"},
                             current : Currents, fast : BOOLEAN]
           IN  /\ NoDecision(in) \in Decisions
               /\ SetCurrent(in, a) \in Decisions
               /\ StopDecision(in, kind) \in Decisions
<1>1. Fast(in) \in BOOLEAN /\ 0 \in Currents
  BY InputFields DEF Currents
<1>2. QED BY <1>1 DEF NoDecision, SetCurrent, StopDecision

\* Stated of the call alone, so that the engine can use it too.
LEMMA EvaluateTyped ==
    ASSUME TypeOK, NEW in \in Input, Evaluate(in), due' \in BOOLEAN
    PROVE  TypeOK'
<1> USE CurrentAssumption, TimeAssumption
<1>1. /\ RecentStarts \subseteq 0 .. Hour + 1
      /\ ImportTimer(in) \in AgeUpTo(ImportTime + 1)
      /\ NoDecision(in) \in [action : {"none", "set_current", "stop", "fault"},
                             current : Currents, fast : BOOLEAN]
      /\ \A a \in Currents :
            SetCurrent(in, a) \in [action : {"none", "set_current", "stop", "fault"},
                                  current : Currents, fast : BOOLEAN]
      /\ \A kind \in {"stop", "fault"} :
            StopDecision(in, kind) \in [action : {"none", "set_current", "stop", "fault"},
                                       current : Currents, fast : BOOLEAN]
  <2>1. 0 \in Currents
    BY DEF Currents
  <2>2. QED BY <2>1, PrunedTyped, ImportTimerTyped, DecisionTyped
<1>2. due' \in BOOLEAN /\ Evaluate(in)
  OBVIOUS
<1>3. starts' \subseteq 0 .. Hour + 1
  <2>1. starts' = RecentStarts \/ starts' = RecentStarts \cup {0}
    BY <1>2 DEF Evaluate, CountStart
  <2>2. 0 \in 0 .. Hour + 1
    OBVIOUS
  <2>3. QED BY <1>1, <2>1, <2>2
<1>4. requested \in Currents
  BY DEF TypeOK, Currents
<1>5. HeldFor(startSince) \in 0 .. StartDelay /\ HeldFor(stopSince) \in 0 .. StopDelay
  BY NoneAssumption DEF TypeOK, HeldFor, AgeUpTo
<1> USE <1>1, <1>2, <1>3 DEF TypeOK, AgeUpTo, States, Currents
<1>6. CASE Fault(in)
  BY <1>6 DEF Fault
<1>7. CASE UserPaused(in)
  BY <1>7 DEF UserPaused
<1>8. CASE NoVehicle(in)
  BY <1>8 DEF NoVehicle, ResetTimers
<1>9. CASE CoolingDown(in)
  BY <1>9 DEF CoolingDown
<1>10. CASE Reduce(in)
  <2>1. Floor \in MinCurrent .. MaxCurrent
    BY <1>4, <1>10, FloorRange DEF Reduce, ReducesFirst
  <2>2. QED BY <2>1, <1>10 DEF Reduce, Regulated
<1>11. CASE WaitToStop(in)
  BY <1>5, <1>11 DEF WaitToStop, Regulated
<1>12. CASE Stop(in)
  BY <1>12 DEF Stop, Regulated, MarkStopped
<1>13. CASE StartRateLimited(in)
  BY <1>13 DEF StartRateLimited, Starting, Regulated
<1>14. CASE WaitForExport(in)
  BY <1>14 DEF WaitForExport, Starting, Regulated
<1>15. CASE WaitToStart(in)
  BY <1>5, <1>15 DEF WaitToStart, Starting, Regulated
<1>16. CASE Hold(in)
  BY <1>4, <1>16 DEF Hold, Running, Regulated
<1>17. CASE Ramp(in)
  <2>1. NextCurrent(in) \in MinCurrent .. MaxCurrent
    BY <1>4, <1>17, NextCurrentRange DEF Ramp, Running
  <2>2. QED BY <2>1, <1>17 DEF Ramp, Running, Regulated
<1>18. CASE Start(in)
  <2>1. StartCurrent(in) \in MinCurrent .. MaxCurrent
    BY <1>18, StartCurrentRange DEF Start, Starting
  <2>2. QED BY <2>1, <1>18 DEF Start, Starting, Regulated
<1>19. QED
  BY <1>2, <1>6, <1>7, <1>8, <1>9, <1>10, <1>11, <1>12, <1>13, <1>14, <1>15, <1>16,
     <1>17, <1>18 DEF Evaluate

LEMMA CycleTyped ==
    ASSUME TypeOK, NEW in \in Input, Cycle(in)
    PROVE  TypeOK'
BY EvaluateTyped DEF Cycle

LEMMA TickTyped == ASSUME TypeOK, Tick PROVE TypeOK'
<1> USE TimeAssumption
<1>1. /\ startSince' \in AgeUpTo(StartDelay)
      /\ stopSince' \in AgeUpTo(StopDelay)
      /\ importSince' \in AgeUpTo(ImportTime + 1)
      /\ sinceStart' \in AgeUpTo(MinRunTime)
      /\ sinceStop' \in AgeUpTo(MinOffTime)
  BY OlderAge DEF Tick, Age, TypeOK
<1>2. cooldown' \in 0 .. MinOffTime
  BY DEF Tick, Age, TypeOK, Greater
<1>3. starts' \subseteq 0 .. Hour + 1
  BY DEF Tick, Age, TypeOK, Lesser
<1>4. QED BY <1>1, <1>2, <1>3 DEF Tick, Age, TypeOK

\* Every reachable runtime is well formed: in particular the current that is
\* requested is zero or within the charger's limits after any history of cycles.
THEOREM TypeCorrect == Spec => []TypeOK
<1>1. TypeOK /\ [Next]_vars => TypeOK'
  <2> SUFFICES ASSUME TypeOK, [Next]_vars PROVE TypeOK'
    OBVIOUS
  <2>1. ASSUME NEW in \in Inputs, Cycle(in) PROVE TypeOK'
    BY <2>1, InputAssumption, CycleTyped
  <2>2. CASE Tick
    BY <2>2, TickTyped
  <2>3. CASE UNCHANGED vars
    BY <2>3 DEF vars, runtimeVars, TypeOK
  <2>4. QED BY <2>1, <2>2, <2>3 DEF Next
<1>2. QED BY <1>1, InitTyped, PTL DEF Spec

-----------------------------------------------------------------------------
(* The state and the requested current.                                    *)

LEMMA EvaluateMatches ==
    ASSUME TypeOK, StateMatchesRequest, NEW in \in Input, Evaluate(in)
    PROVE  StateMatchesRequest'
<1> USE CurrentAssumption
<1>1. Evaluate(in)
  OBVIOUS
<1>2. requested \in Currents
  BY DEF TypeOK, Currents
<1> USE DEF StateMatchesRequest
<1>3. CASE Fault(in)
  BY <1>3 DEF Fault
<1>4. CASE UserPaused(in)
  BY <1>4 DEF UserPaused
<1>5. CASE NoVehicle(in)
  BY <1>5 DEF NoVehicle
<1>6. CASE CoolingDown(in)
  BY <1>6 DEF CoolingDown
<1>7. CASE Reduce(in)
  <2>1. Floor \in MinCurrent .. MaxCurrent
    BY <1>2, <1>7, FloorRange DEF Reduce, ReducesFirst
  <2>2. QED BY <2>1, <1>7 DEF Reduce
<1>8. CASE WaitToStop(in)
  BY <1>8 DEF WaitToStop
<1>9. CASE Stop(in)
  BY <1>9 DEF Stop
<1>10. CASE StartRateLimited(in)
  BY <1>10 DEF StartRateLimited
<1>11. CASE WaitForExport(in) \/ WaitToStart(in)
  \* Only the state is assigned: a start path is entered with nothing requested.
  <2>1. requested = 0
    BY <1>2, <1>11 DEF WaitForExport, WaitToStart, Starting, Currents
  <2>2. QED BY <2>1, <1>11 DEF WaitForExport, WaitToStart
<1>12. CASE Hold(in)
  BY <1>2, <1>12 DEF Hold, Running, Currents
<1>13. CASE Ramp(in)
  <2>1. NextCurrent(in) \in MinCurrent .. MaxCurrent
    BY <1>2, <1>13, NextCurrentRange DEF Ramp, Running
  <2>2. QED BY <2>1, <1>13 DEF Ramp
<1>14. CASE Start(in)
  <2>1. StartCurrent(in) \in MinCurrent .. MaxCurrent
    BY <1>14, StartCurrentRange DEF Start, Starting
  <2>2. QED BY <2>1, <1>14 DEF Start
<1>15. QED
  BY <1>1, <1>3, <1>4, <1>5, <1>6, <1>7, <1>8, <1>9, <1>10, <1>11, <1>12, <1>13, <1>14
     DEF Evaluate

\* The state always says whether a current is requested: no history of pauses,
\* faults and start paths left halfway makes the next cycle take the wrong path.
THEOREM StateMatches == Spec => []StateMatchesRequest
<1>1. Init => StateMatchesRequest
  BY DEF Init, StateMatchesRequest
<1>2. TypeOK /\ StateMatchesRequest /\ [Next]_vars => StateMatchesRequest'
  <2> SUFFICES ASSUME TypeOK, StateMatchesRequest, [Next]_vars
               PROVE  StateMatchesRequest'
    OBVIOUS
  <2>1. ASSUME NEW in \in Inputs, Cycle(in) PROVE StateMatchesRequest'
    BY <2>1, InputAssumption, EvaluateMatches DEF Cycle
  <2>2. CASE Tick
    BY <2>2 DEF Tick, Age, StateMatchesRequest
  <2>3. CASE UNCHANGED vars
    BY <2>3 DEF vars, runtimeVars, StateMatchesRequest
  <2>4. QED BY <2>1, <2>2, <2>3 DEF Next
<1>3. QED BY <1>1, <1>2, TypeCorrect, PTL DEF Spec

-----------------------------------------------------------------------------
(* The cooldown and the last stop.                                         *)

\* Past the cooldown check every path but a stop leaves no cooldown behind.
LEMMA CycleCooldown ==
    ASSUME TypeOK, CooldownMatchesStop, NEW in \in Input, Cycle(in)
    PROVE  CooldownMatchesStop'
<1> USE TimeAssumption, NoneAssumption DEF CooldownMatchesStop
<1>1. Evaluate(in)
  BY DEF Cycle
<1>2. CASE Fault(in)
  BY <1>2 DEF Fault
<1>3. CASE UserPaused(in) \/ CoolingDown(in)
  BY <1>3 DEF UserPaused, CoolingDown
<1>4. CASE NoVehicle(in)
  BY <1>4 DEF NoVehicle
<1>5. CASE Stop(in)
  BY <1>5 DEF Stop, MarkStopped
<1>6. CASE Reduce(in) \/ WaitToStop(in)
  BY <1>6 DEF Reduce, WaitToStop
<1>7. CASE StartRateLimited(in) \/ WaitForExport(in) \/ WaitToStart(in) \/ Start(in)
  BY <1>7 DEF StartRateLimited, WaitForExport, WaitToStart, Start, Starting
<1>8. CASE Hold(in) \/ Ramp(in)
  BY <1>8 DEF Hold, Ramp, Running
<1>9. QED
  BY <1>1, <1>2, <1>3, <1>4, <1>5, <1>6, <1>7, <1>8 DEF Evaluate

\* A tick takes one off the cooldown and adds one to the age of the stop, which
\* is not yet at its bound.
LEMMA TickCooldown ==
    ASSUME TypeOK, CooldownMatchesStop, Tick PROVE CooldownMatchesStop'
<1>1. CASE cooldown > 0
  BY <1>1, TimeAssumption, NoneAssumption
     DEF Tick, Age, TypeOK, CooldownMatchesStop, Older, Lesser, Greater, AgeUpTo
<1>2. CASE ~(cooldown > 0)
  BY <1>2, TimeAssumption DEF Tick, Age, TypeOK, CooldownMatchesStop, Greater
<1>3. QED BY <1>1, <1>2

\* cooldown_until and last_stop_at never disagree, and nothing is requested
\* during a cooldown.
THEOREM CooldownMatches == Spec => []CooldownMatchesStop
<1>1. Init => CooldownMatchesStop
  BY DEF Init, CooldownMatchesStop
<1>2. TypeOK /\ CooldownMatchesStop /\ [Next]_vars => CooldownMatchesStop'
  <2> SUFFICES ASSUME TypeOK, CooldownMatchesStop, [Next]_vars
               PROVE  CooldownMatchesStop'
    OBVIOUS
  <2>1. ASSUME NEW in \in Inputs, Cycle(in) PROVE CooldownMatchesStop'
    BY <2>1, InputAssumption, CycleCooldown
  <2>2. CASE Tick
    BY <2>2, TickCooldown
  <2>3. CASE UNCHANGED vars
    BY <2>3 DEF vars, runtimeVars, CooldownMatchesStop
  <2>4. QED BY <2>1, <2>2, <2>3 DEF Next
<1>3. QED BY <1>1, <1>2, TypeCorrect, PTL DEF Spec

-----------------------------------------------------------------------------
(* The hourly limit.                                                       *)

\* There are finitely many starts within the hour.
LEMMA FiniteStarts ==
    ASSUME TypeOK
    PROVE  IsFiniteSet(RecentStarts) /\ Cardinality(RecentStarts) \in Nat
<1>1. IsFiniteSet(0 .. Hour + 1)
  BY TimeAssumption, FS_Interval
<1>2. RecentStarts \subseteq 0 .. Hour + 1
  BY PrunedTyped
<1>3. QED BY <1>1, <1>2, FS_Subset, FS_CardinalityType

\* What a cycle does to the starts of the last hour.
LEMMA CycleStarts ==
    ASSUME TypeOK, NEW in \in Input, Cycle(in)
    PROVE  \/ RecentStarts' = RecentStarts
           \/ /\ Start(in) /\ ~Fast(in)
              /\ RecentStarts' = RecentStarts \cup {0}
<1> USE TimeAssumption
<1>1. CASE starts' = RecentStarts
  BY <1>1 DEF RecentStarts
<1>2. CASE Start(in) /\ CountStart(in)
  BY <1>2, InputFields DEF CountStart, RecentStarts
<1>3. QED BY <1>1, <1>2 DEF Cycle, Evaluate

LEMMA CycleLimit ==
    ASSUME TypeOK, HourlyLimit, NEW in \in Input, Cycle(in)
    PROVE  HourlyLimit'
<1>1. CASE RecentStarts' = RecentStarts
  BY <1>1 DEF HourlyLimit
<1>2. CASE Start(in) /\ ~Fast(in) /\ RecentStarts' = RecentStarts \cup {0}
  <2>1. Cardinality(RecentStarts) < MaxStarts
    BY <1>2 DEF Start, Permitted, StartAllowed
  <2>2. /\ IsFiniteSet(RecentStarts) /\ Cardinality(RecentStarts) \in Nat
        /\ Cardinality(RecentStarts \cup {0})
             = IF 0 \in RecentStarts THEN Cardinality(RecentStarts)
               ELSE Cardinality(RecentStarts) + 1
    BY FiniteStarts, FS_AddElement
  <2>3. QED BY <1>2, <2>1, <2>2, TimeAssumption DEF HourlyLimit
<1>3. QED BY <1>1, <1>2, CycleStarts

\* A tick ages the starts of the last hour, and lets the oldest expire.
LEMMA TickStarts ==
    ASSUME TypeOK, Tick
    PROVE  RecentStarts' = {age + 1 : age \in RecentStarts \ {Hour}}
<1>1. starts \subseteq 0 .. Hour + 1 /\ Hour \in Nat
  BY TimeAssumption DEF TypeOK
<1>2. starts' = {Lesser(age + 1, Hour + 1) : age \in starts}
  BY DEF Tick, Age
<1>3. ASSUME NEW age \in RecentStarts' PROVE age \in {a + 1 : a \in RecentStarts \ {Hour}}
  <2>1. age \in starts' /\ age <= Hour
    BY DEF RecentStarts
  <2>2. PICK a \in starts : age = Lesser(a + 1, Hour + 1)
    BY <1>2, <2>1
  <2>3. age = a + 1 /\ a <= Hour /\ a # Hour
    BY <1>1, <2>1, <2>2 DEF Lesser
  <2>4. QED BY <2>3 DEF RecentStarts
<1>4. ASSUME NEW a \in RecentStarts \ {Hour} PROVE a + 1 \in RecentStarts'
  <2>1. a \in starts /\ a <= Hour /\ a # Hour
    BY DEF RecentStarts
  <2>2. a + 1 = Lesser(a + 1, Hour + 1) /\ a + 1 <= Hour
    BY <1>1, <2>1 DEF Lesser
  <2>3. a + 1 \in starts'
    BY <1>2, <2>1, <2>2
  <2>4. QED BY <2>2, <2>3 DEF RecentStarts
<1>5. QED BY <1>3, <1>4

LEMMA TickLimit ==
    ASSUME TypeOK, HourlyLimit, Tick PROVE HourlyLimit'
<1> DEFINE Old == RecentStarts \ {Hour}
           New == {age + 1 : age \in Old}
           later == [age \in Old |-> age + 1]
<1>1. IsFiniteSet(RecentStarts) /\ Cardinality(RecentStarts) \in Nat
  BY FiniteStarts
<1>2. IsFiniteSet(Old) /\ Cardinality(Old) \in Nat
      /\ Cardinality(Old) <= Cardinality(RecentStarts)
  BY <1>1, FS_Subset, FS_CardinalityType
<1>3. later \in Surjection(Old, New)
  BY DEF Surjection
<1>4. IsFiniteSet(New) /\ Cardinality(New) <= Cardinality(Old)
  BY <1>2, <1>3, FS_Surjection
<1>5. Cardinality(New) \in Nat
  BY <1>4, FS_CardinalityType
<1>6. RecentStarts' = New
  BY TickStarts
<1>7. HourlyLimit' <=> Cardinality(New) <= MaxStarts
  BY <1>6 DEF HourlyLimit
<1>8. QED BY <1>1, <1>2, <1>4, <1>5, <1>7, TimeAssumption DEF HourlyLimit

\* No sliding hour ever holds more automatic starts than the configured limit.
THEOREM HourlyLimitKept == Spec => []HourlyLimit
<1>1. Init => HourlyLimit
  <2> SUFFICES ASSUME Init PROVE HourlyLimit
    OBVIOUS
  <2>1. RecentStarts = {}
    BY DEF Init, RecentStarts
  <2>2. QED BY <2>1, FS_EmptySet, TimeAssumption DEF HourlyLimit
<1>2. TypeOK /\ HourlyLimit /\ [Next]_vars => HourlyLimit'
  <2> SUFFICES ASSUME TypeOK, HourlyLimit, [Next]_vars PROVE HourlyLimit'
    OBVIOUS
  <2>1. ASSUME NEW in \in Inputs, Cycle(in) PROVE HourlyLimit'
    BY <2>1, InputAssumption, CycleLimit
  <2>2. CASE Tick
    BY <2>2, TickLimit
  <2>3. CASE UNCHANGED vars
    BY <2>3 DEF vars, runtimeVars, HourlyLimit, RecentStarts
  <2>4. QED BY <2>1, <2>2, <2>3 DEF Next
<1>3. QED BY <1>1, <1>2, TypeCorrect, PTL DEF Spec

-----------------------------------------------------------------------------
(* The state machine implements the guardrails.  The assumption that one   *)
(* step is smaller than the least current is needed: otherwise the stop    *)
(* path may raise a current that is not requested to the minimum, a start  *)
(* that is neither counted nor kept from following a stop.                 *)

Resting == IF sinceStop = None THEN 0 ELSE MinOffTime - sinceStop

\* The two variables of the guardrails a cycle leaves alone, unless it starts or stops.
LEMMA Undisturbed ==
    ASSUME TypeOK, NEW in \in Input, Cycle(in),
           starts' = RecentStarts, UNCHANGED sinceStop
    PROVE  /\ RecentStarts' = RecentStarts /\ Resting' = Resting
           /\ decision'.fast \in BOOLEAN
<1>1. TypeOK'
  BY CycleTyped
<1>2. decision'.fast \in BOOLEAN
  BY <1>1 DEF TypeOK
<1>3. QED BY <1>2 DEF RecentStarts, Resting

\* A cycle that drops the requested current without counting it as a stop.
LEMMA ReleaseStep ==
    ASSUME TypeOK, NEW in \in Input, Cycle(in),
           starts' = RecentStarts, UNCHANGED sinceStop, requested' = 0
    PROVE  Guardrails!Next
BY Undisturbed DEF Guardrails!Next, Guardrails!Release, Resting

\* A cycle that moves the current of a running session by a bounded step.
LEMMA AdjustStep ==
    ASSUME TypeOK, NEW in \in Input, Cycle(in),
           starts' = RecentStarts, UNCHANGED sinceStop,
           requested > 0, requested' \in MinCurrent .. MaxCurrent,
           requested - DecreaseStep <= requested',
           requested' <= requested + 2 * IncreaseStep
    PROVE  Guardrails!Next
<1>1. Guardrails!Adjust(requested')
  BY Undisturbed DEF Guardrails!Adjust, Resting
<1>2. QED BY <1>1 DEF Guardrails!Next, Guardrails!Currents

\* A cycle that keeps the requested current.
LEMMA KeptStep ==
    ASSUME TypeOK, NEW in \in Input, Cycle(in),
           starts' = RecentStarts, UNCHANGED <<sinceStop, requested>>
    PROVE  Guardrails!Next
<1>1. requested \in Currents
  BY DEF TypeOK, Currents
<1>2. CASE requested = 0
  BY <1>2, ReleaseStep
<1>3. CASE requested # 0
  <2>1. /\ requested > 0 /\ requested' \in MinCurrent .. MaxCurrent
        /\ requested - DecreaseStep <= requested'
        /\ requested' <= requested + 2 * IncreaseStep
    BY <1>1, <1>3, CurrentAssumption DEF Currents
  <2>2. QED BY <2>1, AdjustStep
<1>4. QED BY <1>2, <1>3

LEMMA ReduceStep ==
    ASSUME IncreaseStep < MinCurrent, TypeOK, NEW in \in Input, Cycle(in),
           Reduce(in), starts' = RecentStarts
    PROVE  Guardrails!Next
<1> USE CurrentAssumption
<1>1. requested \in Currents /\ UNCHANGED sinceStop /\ requested' = Floor
  BY DEF Reduce, TypeOK, Currents
<1>2. Floor >= MinCurrent \/ requested > MinCurrent
  BY DEF Reduce, ReducesFirst
<1>3. requested # 0
  <2>1. SUFFICES ASSUME requested = 0 PROVE FALSE
    OBVIOUS
  <2>2. Floor = IncreaseStep
    BY <2>1 DEF Floor, ApplyRamp, Lesser, Greater
  <2>3. QED BY <1>2, <2>1, <2>2
<1>4. requested \in Nat /\ requested > 0 /\ MinCurrent \in Nat /\ FALSE \in BOOLEAN
  BY <1>1, <1>3 DEF Currents
<1>5. Floor \in MinCurrent .. MaxCurrent
  BY <1>1, <1>2, FloorRange
<1>6. requested - DecreaseStep <= Floor /\ Floor <= requested + 2 * IncreaseStep
  BY <1>4, RampBounds DEF Floor
<1>7. QED BY <1>1, <1>4, <1>5, <1>6, AdjustStep

LEMMA RampStep ==
    ASSUME TypeOK, NEW in \in Input, Cycle(in), Ramp(in), starts' = RecentStarts
    PROVE  Guardrails!Next
<1>1. /\ requested \in Currents /\ requested > 0 /\ ClampTarget(in.target) > 0
      /\ UNCHANGED sinceStop /\ requested' = NextCurrent(in)
  BY DEF Ramp, Running, TypeOK, Currents
<1>2. NextCurrent(in) \in MinCurrent .. MaxCurrent
  BY <1>1, NextCurrentRange
<1>3. requested \in Nat /\ ClampTarget(in.target) \in Nat /\ in.urgent \in BOOLEAN
  BY <1>1, ClampedTarget, InputFields, CurrentAssumption DEF Currents
<1>4. /\ requested - DecreaseStep <= NextCurrent(in)
      /\ NextCurrent(in) <= requested + 2 * IncreaseStep
  BY <1>3, RampBounds DEF NextCurrent
<1>5. QED BY <1>1, <1>2, <1>4, AdjustStep

LEMMA StopStep ==
    ASSUME TypeOK, NEW in \in Input, Cycle(in), Stop(in), starts' = RecentStarts
    PROVE  Guardrails!Next
<1>1. requested' = 0 /\ Resting' = MinOffTime /\ RecentStarts' = RecentStarts
  BY TimeAssumption, NoneAssumption DEF Stop, MarkStopped, Resting, RecentStarts
<1>2. decision'.fast \in BOOLEAN
  BY CycleTyped DEF TypeOK
<1>3. QED BY <1>1, <1>2 DEF Guardrails!Next, Guardrails!Stop, Resting

\* ChargingGuardrails counts with an instance of the same operator.
LEMMA SameCardinality == \A S : Guardrails!Cardinality(S) = Cardinality(S)
BY DEF Guardrails!Cardinality, Cardinality

LEMMA StartStep ==
    ASSUME TypeOK, StateMatchesRequest, NEW in \in Input, Cycle(in), Start(in), CountStart(in)
    PROVE  Guardrails!Next
<1>1. requested = 0 /\ requested' = StartCurrent(in)
  BY CurrentAssumption DEF Start, Starting, StateMatchesRequest, TypeOK
<1>2. StartCurrent(in) \in MinCurrent .. MaxCurrent
  BY StartCurrentRange DEF Start, Starting
<1>3. decision'.fast = Fast(in) /\ UNCHANGED sinceStop
  BY DEF Start, SetCurrent
<1>4. CASE Fast(in)
  <2>1. Fast(in) = TRUE
    BY <1>4, InputFields
  <2>2. RecentStarts' = RecentStarts
    BY <1>4 DEF CountStart, RecentStarts
  <2>3. Guardrails!UserStart(StartCurrent(in))
    BY <1>1, <1>3, <2>1, <2>2 DEF Guardrails!UserStart
  <2>4. QED BY <1>2, <2>3 DEF Guardrails!Next, Guardrails!Currents
<1>5. CASE ~Fast(in)
  <2>1. Fast(in) = FALSE
    BY <1>5, InputFields
  <2>2. RecentStarts' = RecentStarts \cup {0}
    BY <1>5, TimeAssumption DEF CountStart, RecentStarts
  <2>3. Cardinality(RecentStarts) < MaxStarts /\ Resting = 0
    BY <1>5, TimeAssumption, NoneAssumption
       DEF Start, Permitted, StartAllowed, Resting, TypeOK, AgeUpTo
  <2>4. Guardrails!AutomaticStart(StartCurrent(in))
    BY <1>1, <1>3, <2>1, <2>2, <2>3, SameCardinality DEF Guardrails!AutomaticStart, Resting
  <2>5. QED BY <1>2, <2>4 DEF Guardrails!Next, Guardrails!Currents
<1>6. QED BY <1>4, <1>5

LEMMA CycleStep ==
    ASSUME IncreaseStep < MinCurrent, TypeOK, StateMatchesRequest,
           NEW in \in Input, Cycle(in)
    PROVE  Guardrails!Next
<1>1. CASE Start(in) /\ CountStart(in)
  BY <1>1, StartStep
<1>2. CASE ~(Start(in) /\ CountStart(in))
  <2>1. /\ starts' = RecentStarts
        /\ \/ Fault(in) \/ UserPaused(in) \/ NoVehicle(in) \/ CoolingDown(in)
           \/ Reduce(in) \/ WaitToStop(in) \/ Stop(in)
           \/ StartRateLimited(in) \/ WaitForExport(in) \/ WaitToStart(in)
           \/ Hold(in) \/ Ramp(in)
    BY <1>2 DEF Cycle, Evaluate
  <2>2. CASE UserPaused(in) \/ NoVehicle(in) \/ CoolingDown(in) \/ StartRateLimited(in)
    BY <2>1, <2>2, ReleaseStep DEF UserPaused, NoVehicle, CoolingDown, StartRateLimited
  <2>3. CASE Fault(in) \/ WaitToStop(in) \/ WaitForExport(in) \/ WaitToStart(in) \/ Hold(in)
    <3>1. UNCHANGED <<sinceStop, requested>>
      BY <2>3 DEF Fault, WaitToStop, WaitForExport, WaitToStart, Hold, Running
    <3>2. QED BY <2>1, <3>1, KeptStep
  <2>4. CASE Reduce(in)
    BY <2>1, <2>4, ReduceStep
  <2>5. CASE Stop(in)
    BY <2>1, <2>5, StopStep
  <2>6. CASE Ramp(in)
    BY <2>1, <2>6, RampStep
  <2>7. QED BY <2>1, <2>2, <2>3, <2>4, <2>5, <2>6
<1>3. QED BY <1>1, <1>2

LEMMA TickStep == ASSUME TypeOK, Tick PROVE Guardrails!Next
<1>1. Resting' = IF Resting > 0 THEN Resting - 1 ELSE 0
  BY TimeAssumption, NoneAssumption
     DEF Resting, Tick, Age, Older, Lesser, TypeOK, AgeUpTo
<1>2. requested' = requested /\ decision' = decision
  BY DEF Tick, Age
<1>3. QED BY <1>1, <1>2, TickStarts DEF Guardrails!Next, Guardrails!TimePasses, Resting

\* Whatever the optimizer, the charger and the user do, smart charging moves the
\* requested current only in the ways the guardrails allow.
THEOREM ImplementsGuardrails ==
    ASSUME IncreaseStep < MinCurrent PROVE Spec => KeepsGuardrails
<1>1. Init => Guardrails!Init
  BY DEF Init, Guardrails!Init, RecentStarts
<1>2. TypeOK /\ StateMatchesRequest /\ [Next]_vars => [Guardrails!Next]_(Guardrails!vars)
  <2> SUFFICES ASSUME TypeOK, StateMatchesRequest, [Next]_vars
               PROVE  [Guardrails!Next]_(Guardrails!vars)
    OBVIOUS
  <2>1. ASSUME NEW in \in Inputs, Cycle(in) PROVE Guardrails!Next
    BY <2>1, InputAssumption, CycleStep
  <2>2. CASE Tick
    BY <2>2, TickStep
  <2>3. CASE UNCHANGED vars
    BY <2>3 DEF vars, runtimeVars, Guardrails!vars, RecentStarts
  <2>4. QED BY <2>1, <2>2, <2>3 DEF Next
<1>3. QED BY <1>1, <1>2, TypeCorrect, StateMatches, PTL
          DEF Spec, KeepsGuardrails, Guardrails!Spec
=============================================================================
