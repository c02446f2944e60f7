------------------------- MODULE ChargingEngineProofs -------------------------
(***************************************************************************)
(* What is proved of the charging engine, for every number of failures,    *)
(* lane timeouts, restarts and requests of the user between any two steps  *)
(* of a cycle.  The lemmas on one call of evaluate_smart_charging are      *)
(* those of SmartChargingProofs.                                           *)
(***************************************************************************)
EXTENDS ChargingEngine, SmartChargingProofs

-----------------------------------------------------------------------------
(* The inductive invariant, in parts.                                      *)

\* The columns are such as a restart may go on from.
SavedMatches ==
    /\ saved.state \in {"PAUSED", "WAITING_TO_START", "STOPPING", "COOLDOWN"}
          => saved.requested \in {None, 0}
    /\ saved.state \in {"STARTING", "CHARGING_STABLE", "REDUCING"}
          => saved.requested # None /\ saved.requested >= MinCurrent

\* A charger that is due, or in a cycle, has no cycle of this moment in its log.
LogIsPast ==
    /\ due \/ pc # "idle" => 0 \notin log.on \cup log.off
    /\ pc \in {"decided", "commanded"} => ~due

\* The memory knows of a stop at least as recent as the committed one.
StopKnown ==
    saved.sinceStop # None => sinceStop # None /\ sinceStop <= saved.sinceStop

EngineInv ==
    /\ TypeOK /\ EngineTypeOK
    /\ StateMatchesRequest /\ SavedMatches
    /\ LogIsPast /\ StopKnown

-----------------------------------------------------------------------------
(* The parts of a cycle.                                                   *)

Applied == Currents \cup {None}

\* Types, unfolded once for the lemmas below.
LEMMA Numbers ==
    /\ 0 \in Currents /\ Currents \subseteq Nat
    /\ \A a \in Applied : \A b \in Currents : Or(a, b) \in Currents
    /\ \A a \in Currents : a > 0 => a \in MinCurrent .. MaxCurrent
    /\ None \notin Nat
BY CurrentAssumption, NoneAssumption DEF Currents, Applied, Or

\* What a cycle finds is an input of the state machine.
LEMMA FindingsTyped ==
    ASSUME EngineTypeOK, pc = "loaded"
    PROVE  Findings \in Input
<1>1. loaded \in Loads /\ wish \in Nat
  BY EngineAssumption DEF EngineTypeOK
<1>2. OptimizerTarget \in Nat
  BY <1>1, CurrentAssumption DEF OptimizerTarget
<1>3. /\ plugged \in BOOLEAN /\ (~online) \in BOOLEAN /\ (online /\ Charging) \in BOOLEAN
      /\ (loaded.override = "active") \in BOOLEAN
  BY DEF EngineTypeOK
<1>4. loaded.mode \in Modes
  BY <1>1 DEF Loads
<1> HIDE DEF Modes
<1>5. QED BY <1>2, <1>3, <1>4 DEF Findings, Input

\* Every way out of apply returns a result, keeps the memory typed and leaves a
\* current on the connector that it was sent.
LEMMA ApplyTyped ==
    ASSUME TypeOK, EngineTypeOK, NEW before \in Currents, Apply(decision, before)
    PROVE  /\ result' \in Results
           /\ limit' \in Currents /\ enabled' \in BOOLEAN
           /\ plugged' \in BOOLEAN /\ online' \in BOOLEAN
           /\ applied' \in Applied /\ commanded' \in Applied
           /\ sinceChange' \in AgeUpTo(MinChangeInterval)
           /\ failures' \in 0 .. MaxFailures
<1> DEFINE d == decision
<1>1. /\ limit \in Currents /\ enabled \in BOOLEAN /\ plugged \in BOOLEAN
      /\ online \in BOOLEAN /\ applied \in Applied /\ commanded \in Applied
      /\ sinceChange \in AgeUpTo(MinChangeInterval) /\ failures \in 0 .. MaxFailures
      /\ d.current \in Currents
      /\ 0 \in AgeUpTo(MinChangeInterval)
  BY CommandAssumption DEF EngineTypeOK, TypeOK, Currents, Applied, AgeUpTo
<1>2. \A b \in BOOLEAN, f \in BOOLEAN, a \in Currents :
         [applied |-> b, current |-> a, finished |-> f] \in Results
  BY DEF Results, Currents
<1>3. LastKnown \in Currents /\ 0 \in Applied /\ d.current \in Applied
  BY <1>1, Numbers DEF LastKnown, Applied
<1> HIDE DEF d
<1> USE <1>1, <1>2, <1>3, Numbers DEF device, memory, Returns
<1>4. CASE Skip(d)
  <2>1. (IF commanded = None THEN Or(applied, 0) ELSE commanded) \in Currents
    BY DEF Applied
  <2>2. QED BY <1>4, <2>1 DEF Skip
<1>5. CASE Unreachable(d) \/ NobodyThere(d)
  BY <1>5 DEF Unreachable, NobodyThere
<1>6. CASE ConfirmStopped(d)
  BY <1>6 DEF ConfirmStopped, RecordApplied
<1>7. CASE KeepCommand(d)
  BY <1>7 DEF KeepCommand, AlreadyRequested
<1>8. CASE HoldBack(d)
  <2>1. applied \in Currents
    BY <1>8 DEF HoldBack, Suppressed, MatchesPrevious, Applied
  <2>2. QED BY <1>8, <2>1 DEF HoldBack
<1>9. CASE Send(d)
  BY <1>9 DEF Send, StopEffect, StopCharging, SetEffect, SetLimit, StartCharging,
              RecordApplied, Works
<1>10. CASE SendFails(d) \/ SendCutOff(d, before)
  <2>1. limit' \in Currents /\ enabled' \in BOOLEAN
    BY <1>10 DEF SendFails, SendCutOff, PartialEffect, StopEffect, StopCharging, SetEffect,
                 SetLimit, StartCharging
  <2>2. failures' \in 0 .. MaxFailures
    BY <1>10, CommandAssumption DEF SendFails, SendCutOff, Fails
  <2>3. QED BY <1>10, <2>1, <2>2 DEF SendFails, SendCutOff, CutOff
<1>11. QED BY <1>4, <1>5, <1>6, <1>7, <1>8, <1>9, <1>10 DEF Apply, d

\* The starts read back from the log are ages of the last hour.
LEMMA ListedTyped ==
    ASSUME EngineTypeOK PROVE StartsListed \subseteq 0 .. Hour + 1
BY TimeAssumption DEF EngineTypeOK, StartsListed

-----------------------------------------------------------------------------
(* The invariant is inductive, one lemma for each action.                  *)

LEMMA InitEngine == EngineInit => EngineInv
<1> SUFFICES ASSUME EngineInit PROVE EngineInv
  OBVIOUS
<1>1. TypeOK /\ StateMatchesRequest
  BY InitTyped DEF EngineInit, Init, StateMatchesRequest
<1>2. EngineTypeOK
  <2>1. /\ limit = 0 /\ enabled = FALSE /\ plugged = FALSE /\ online = TRUE
        /\ applied = None /\ commanded = None /\ sinceChange = None /\ result = None
        /\ failures = 0 /\ pc = "idle" /\ override = "none" /\ loaded = None /\ crashes = 0
        /\ log.on = {} /\ log.off = {}
        /\ mode \in Modes /\ wish \in Wishes
    BY EngineAssumption DEF EngineInit, CommandInit
  <2>2. saved \in [state : States, requested : {None, 0} \cup MinCurrent .. MaxCurrent,
                   sinceStart : AgeUpTo(MinRunTime), sinceStop : AgeUpTo(MinOffTime),
                   applied : {None, 0} \cup MinCurrent .. MaxCurrent]
    BY DEF EngineInit, States, AgeUpTo
  <2>3. failures \in 0 .. MaxFailures /\ crashes \in 0 .. MaxCrashes
    BY <2>1, CommandAssumption, EngineAssumption
  <2> HIDE DEF Modes
  <2>4. QED BY <2>1, <2>2, <2>3 DEF EngineTypeOK, AgeUpTo, OverrideStates
<1>3. SavedMatches /\ LogIsPast /\ StopKnown
  BY DEF EngineInit, SavedMatches, LogIsPast, StopKnown
<1>4. QED BY <1>1, <1>2, <1>3 DEF EngineInv

LEMMA LoadKeeps == EngineInv /\ Load => EngineInv'
<1> SUFFICES ASSUME EngineInv, Load PROVE EngineInv'
  OBVIOUS
<1>1. /\ UNCHANGED <<vars, commandVars, wish, row, crashes>>
      /\ pc = "idle" /\ due /\ pc' = "loaded"
      /\ loaded' = [mode |-> mode, override |-> override]
  BY DEF Load
<1>2. TypeOK' /\ StateMatchesRequest'
  BY <1>1 DEF EngineInv, TypeOK, StateMatchesRequest, vars, runtimeVars
<1>3. loaded' \in Loads /\ loaded' # None
  BY <1>1, EngineAssumption DEF EngineInv, EngineTypeOK, Loads
<1>4. EngineTypeOK'
  BY <1>1, <1>3 DEF EngineInv, EngineTypeOK, commandVars, device, memory, row
<1>5. SavedMatches' /\ LogIsPast' /\ StopKnown'
  BY <1>1 DEF EngineInv, SavedMatches, LogIsPast, StopKnown, row, vars, runtimeVars
<1>6. QED BY <1>2, <1>4, <1>5 DEF EngineInv

\* The evaluation forgets no stop: it marks one now or leaves the last.
LEMMA EvaluateStop ==
    ASSUME NEW in \in Input, Evaluate(in)
    PROVE  sinceStop' = 0 \/ sinceStop' = sinceStop
BY DEF Evaluate, Fault, UserPaused, NoVehicle, CoolingDown, Reduce, WaitToStop, Stop,
       MarkStopped, StartRateLimited, WaitForExport, WaitToStart, Hold, Ramp, Running, Start

LEMMA DecideKeeps == EngineInv /\ Decide => EngineInv'
<1> SUFFICES ASSUME EngineInv, Decide PROVE EngineInv'
  OBVIOUS
<1>1. /\ pc = "loaded" /\ pc' = "decided" /\ Evaluate(Findings) /\ Arm /\ due' = FALSE
      /\ UNCHANGED <<limit, plugged, online, memory, result, wish, loaded, row, crashes>>
      /\ TypeOK /\ EngineTypeOK /\ StateMatchesRequest
  BY DEF Decide, EngineInv
<1>2. Findings \in Input
  BY <1>1, FindingsTyped
<1>3. TypeOK' /\ StateMatchesRequest'
  BY <1>1, <1>2, EvaluateTyped, EvaluateMatches
<1>4. enabled' \in BOOLEAN /\ failures' \in 0 .. MaxFailures
  <2>1. enabled \in BOOLEAN /\ failures \in 0 .. MaxFailures
    BY <1>1 DEF EngineTypeOK
  <2>2. enabled' = TRUE \/ enabled' = enabled
    BY <1>1 DEF Arm, StartCharging
  <2>3. failures' = failures \/ (failures < MaxFailures /\ failures' = failures + 1)
    BY <1>1 DEF Arm, Works, Fails
  <2>4. enabled' \in BOOLEAN
    BY <2>1, <2>2
  <2>5. failures' \in 0 .. MaxFailures
    BY <2>1, <2>3, CommandAssumption
  <2>6. QED BY <2>4, <2>5
<1>5. EngineTypeOK'
  BY <1>1, <1>4 DEF EngineTypeOK, memory, row
<1>6. SavedMatches' /\ LogIsPast'
  BY <1>1 DEF EngineInv, SavedMatches, LogIsPast, row
<1>7. StopKnown'
  <2>1. saved.sinceStop # None => sinceStop # None /\ sinceStop <= saved.sinceStop
    BY DEF EngineInv, StopKnown
  <2>2. saved.sinceStop # None => 0 <= saved.sinceStop
    BY <1>1, TimeAssumption DEF EngineTypeOK, AgeUpTo
  <2>3. sinceStop' = 0 \/ sinceStop' = sinceStop
    BY <1>1, <1>2, EvaluateStop
  <2>4. 0 # None
    BY NoneAssumption
  <2>5. QED BY <1>1, <2>1, <2>2, <2>3, <2>4 DEF StopKnown, row
<1>8. QED BY <1>3, <1>5, <1>6, <1>7 DEF EngineInv

LEMMA CommandKeeps == EngineInv /\ Command => EngineInv'
<1> SUFFICES ASSUME EngineInv, Command PROVE EngineInv'
  OBVIOUS
<1>1. /\ pc = "decided" /\ pc' = "commanded" /\ Apply(decision, Or(saved.applied, 0))
      /\ UNCHANGED <<vars, wish, loaded, row, crashes>>
      /\ TypeOK /\ EngineTypeOK /\ StateMatchesRequest
  BY DEF Command, EngineInv
<1>2. Or(saved.applied, 0) \in Currents
  <2>1. saved.applied \in Applied
    BY <1>1 DEF EngineTypeOK, Applied, Currents
  <2>2. QED BY <2>1, Numbers
<1>3. /\ result' \in Results
      /\ limit' \in Currents /\ enabled' \in BOOLEAN
      /\ plugged' \in BOOLEAN /\ online' \in BOOLEAN
      /\ applied' \in Applied /\ commanded' \in Applied
      /\ sinceChange' \in AgeUpTo(MinChangeInterval)
      /\ failures' \in 0 .. MaxFailures
  BY <1>1, <1>2, ApplyTyped
<1>4. result' # None
  BY <1>3, EngineAssumption
<1>5. EngineTypeOK'
  BY <1>1, <1>3, <1>4 DEF EngineTypeOK, Applied, Currents, row
<1>6. TypeOK' /\ StateMatchesRequest'
  BY <1>1 DEF TypeOK, StateMatchesRequest, vars, runtimeVars
<1>7. SavedMatches' /\ LogIsPast' /\ StopKnown'
  BY <1>1 DEF EngineInv, SavedMatches, LogIsPast, StopKnown, row, vars, runtimeVars
<1>8. QED BY <1>5, <1>6, <1>7 DEF EngineInv

LEMMA CommitKeeps == EngineInv /\ Commit => EngineInv'
<1> SUFFICES ASSUME EngineInv, Commit PROVE EngineInv'
  OBVIOUS
<1>1. /\ pc = "commanded" /\ pc' = "idle" /\ saved' = Columns
      /\ loaded' = None /\ result' = None
      /\ UNCHANGED <<vars, device, memory, failures, mode, wish, crashes>>
      /\ TypeOK /\ EngineTypeOK /\ StateMatchesRequest /\ SavedMatches /\ LogIsPast
  BY DEF Commit, EngineInv
<1>2. result \in Results /\ loaded \in Loads
  BY <1>1 DEF EngineTypeOK
<1>3. TypeOK' /\ StateMatchesRequest'
  BY <1>1 DEF TypeOK, StateMatchesRequest, vars, runtimeVars
<1>4. /\ Columns \in [state : States, requested : {None, 0} \cup MinCurrent .. MaxCurrent,
                      sinceStart : AgeUpTo(MinRunTime), sinceStop : AgeUpTo(MinOffTime),
                      applied : {None, 0} \cup MinCurrent .. MaxCurrent]
      /\ \/ /\ Columns.state = state /\ Columns.requested = requested
            /\ Columns.sinceStop = sinceStop
         \/ Columns = saved
  <2>1. result.current \in {0} \cup MinCurrent .. MaxCurrent
    BY <1>2 DEF Results
  <2>2. CASE result.finished
    BY <1>1, <2>1, <2>2 DEF Columns, TypeOK, EngineTypeOK
  <2>3. CASE ~result.finished
    BY <1>1, <2>3 DEF Columns, EngineTypeOK
  <2>4. QED BY <2>2, <2>3
<1> DEFINE on == IF result.current > 0 THEN log.on \cup {0} ELSE log.on
           off == IF result.current > 0 THEN log.off ELSE log.off \cup {0}
<1>5. /\ log'.on = on /\ log'.off = off
      /\ on \subseteq 0 .. Hour /\ off \subseteq 0 .. Hour /\ on \cap off = {}
  <2>1. log' = IF result.current > 0 THEN [log EXCEPT !.on = @ \cup {0}]
               ELSE [log EXCEPT !.off = @ \cup {0}]
    BY DEF Commit
  <2>2. 0 \notin log.on \cup log.off /\ 0 \in 0 .. Hour
    BY <1>1, TimeAssumption DEF LogIsPast
  <2>3. log.on \subseteq 0 .. Hour /\ log.off \subseteq 0 .. Hour /\ log.on \cap log.off = {}
    BY <1>1 DEF EngineTypeOK
  <2>4. QED BY <2>1, <2>2, <2>3
<1>6. override' \in OverrideStates
  BY <1>1, <1>2 DEF Commit, EngineTypeOK, OverrideStates
<1>7. EngineTypeOK'
  BY <1>1, <1>4, <1>5, <1>6 DEF EngineTypeOK, device, memory
<1>8. SavedMatches'
  BY <1>1, <1>4, NoneAssumption, CurrentAssumption
     DEF SavedMatches, StateMatchesRequest, TypeOK
<1>9. LogIsPast'
  BY <1>1 DEF LogIsPast, vars
<1>10. StopKnown'
  BY <1>1, <1>4, TimeAssumption, NoneAssumption
     DEF EngineInv, StopKnown, TypeOK, AgeUpTo, vars, runtimeVars
<1>11. QED BY <1>3, <1>7, <1>8, <1>9, <1>10 DEF EngineInv

\* What the restored state machine goes on from.
LEMMA CrashKeeps == EngineInv /\ Crash => EngineInv'
<1> SUFFICES ASSUME EngineInv, Crash PROVE EngineInv'
  OBVIOUS
<1>1. /\ crashes < MaxCrashes /\ crashes' = crashes + 1 /\ pc' = "idle"
      /\ due' = (due \/ pc # "idle") /\ loaded' = None /\ result' = None
      /\ UNCHANGED <<decision, device, failures, wish, row>>
      /\ state' = saved.state /\ requested' = Or(saved.requested, 0)
      /\ sinceStop' = saved.sinceStop /\ RestoreRest
      /\ TypeOK /\ EngineTypeOK /\ SavedMatches /\ LogIsPast
  BY DEF Crash, Restore, EngineInv
<1>2. /\ saved.state \in States
      /\ saved.requested \in {None, 0} \cup MinCurrent .. MaxCurrent
      /\ saved.requested \in Applied
      /\ saved.sinceStart \in AgeUpTo(MinRunTime)
      /\ saved.sinceStop \in AgeUpTo(MinOffTime)
      /\ saved.applied \in {None, 0} \cup MinCurrent .. MaxCurrent
  BY <1>1 DEF EngineTypeOK, Applied, Currents
<1>3. requested' \in Currents
  BY <1>1, <1>2, Numbers
<1>4. starts' \subseteq 0 .. Hour + 1
  BY <1>1, ListedTyped DEF RestoreRest
<1>5. TypeOK'
  <2>1. 0 \in 0 .. MinOffTime /\ due' \in BOOLEAN
    BY <1>1, TimeAssumption
  <2>2. QED BY <1>1, <1>2, <1>3, <1>4, <2>1 DEF TypeOK, RestoreRest, AgeUpTo, Currents
<1>6. EngineTypeOK'
  <2>1. crashes' \in 0 .. MaxCrashes
    BY <1>1, EngineAssumption DEF EngineTypeOK
  <2>2. applied' = saved.applied /\ commanded' = saved.requested /\ sinceChange' = None
    BY <1>1 DEF RestoreRest
  <2>3. QED BY <1>1, <1>2, <2>1, <2>2 DEF EngineTypeOK, device, row, AgeUpTo
<1>7. StateMatchesRequest'
  BY <1>1, <1>2, NoneAssumption, CurrentAssumption DEF StateMatchesRequest, SavedMatches, Or
<1>8. SavedMatches'
  BY <1>1 DEF SavedMatches, row
<1>9. LogIsPast'
  BY <1>1 DEF LogIsPast, row
<1>10. StopKnown'
  BY <1>1, <1>2, TimeAssumption DEF StopKnown, row, AgeUpTo
<1>11. QED BY <1>5, <1>6, <1>7, <1>8, <1>9, <1>10 DEF EngineInv

\* The log gets one tick older, and forgets what is older than an hour.
LEMMA AgedLog ==
    ASSUME EngineTypeOK
    PROVE  /\ AgeLog(log.on) \subseteq 0 .. Hour /\ AgeLog(log.off) \subseteq 0 .. Hour
           /\ AgeLog(log.on) \cap AgeLog(log.off) = {}
           /\ 0 \notin AgeLog(log.on) \cup AgeLog(log.off)
<1>1. log.on \subseteq 0 .. Hour /\ log.off \subseteq 0 .. Hour /\ log.on \cap log.off = {}
  BY DEF EngineTypeOK
<1>2. \A ages \in SUBSET (0 .. Hour) :
         AgeLog(ages) \subseteq 0 .. Hour /\ 0 \notin AgeLog(ages)
  BY TimeAssumption DEF AgeLog
<1>3. ASSUME NEW a \in AgeLog(log.on), a \in AgeLog(log.off) PROVE FALSE
  <2>1. PICK b \in log.on : a = b + 1
    BY DEF AgeLog
  <2>2. PICK c \in log.off : a = c + 1
    BY <1>3 DEF AgeLog
  <2>3. b = c
    BY <1>1, <2>1, <2>2
  <2>4. QED BY <1>1, <2>3
<1>4. QED BY <1>1, <1>2, <1>3

LEMMA PassTimeKeeps == EngineInv /\ PassTime => EngineInv'
<1> SUFFICES ASSUME EngineInv, PassTime PROVE EngineInv'
  OBVIOUS
<1> DEFINE on == AgeLog(log.on)
           off == AgeLog(log.off)
<1>1. /\ pc = "idle" /\ Tick
      /\ sinceChange' = Older(sinceChange, MinChangeInterval)
      /\ saved' = [saved EXCEPT !.sinceStart = Older(@, MinRunTime),
                                !.sinceStop = Older(@, MinOffTime)]
      /\ log'.on = on /\ log'.off = off
      /\ UNCHANGED <<device, applied, commanded, result, failures,
                     pc, mode, override, wish, loaded, crashes>>
      /\ TypeOK /\ EngineTypeOK /\ StateMatchesRequest /\ SavedMatches /\ StopKnown
  BY DEF PassTime, EngineInv
<1>2. TypeOK' /\ StateMatchesRequest'
  BY <1>1, TickTyped DEF Tick, Age, StateMatchesRequest
<1>3. /\ on \subseteq 0 .. Hour /\ off \subseteq 0 .. Hour /\ on \cap off = {}
      /\ 0 \notin on \cup off
  BY <1>1, AgedLog
<1>4. sinceChange' \in AgeUpTo(MinChangeInterval)
  BY <1>1, CommandAssumption, OlderAge DEF EngineTypeOK
<1> DEFINE Saved == [state : States, requested : {None, 0} \cup MinCurrent .. MaxCurrent,
                     sinceStart : AgeUpTo(MinRunTime), sinceStop : AgeUpTo(MinOffTime),
                     applied : {None, 0} \cup MinCurrent .. MaxCurrent]
<1>5. saved \in Saved
  BY <1>1 DEF EngineTypeOK
<1>6. /\ saved' \in Saved
      /\ saved'.state = saved.state /\ saved'.requested = saved.requested
      /\ saved'.sinceStop = Older(saved.sinceStop, MinOffTime)
  <2>1. /\ Older(saved.sinceStart, MinRunTime) \in AgeUpTo(MinRunTime)
        /\ Older(saved.sinceStop, MinOffTime) \in AgeUpTo(MinOffTime)
    BY <1>5, TimeAssumption, OlderAge
  <2>2. QED BY <1>1, <1>5, <2>1
<1> HIDE DEF Saved, on, off
<1>7. EngineTypeOK'
  <2>1. saved' \in [state : States, requested : {None, 0} \cup MinCurrent .. MaxCurrent,
                    sinceStart : AgeUpTo(MinRunTime), sinceStop : AgeUpTo(MinOffTime),
                    applied : {None, 0} \cup MinCurrent .. MaxCurrent]
    BY <1>6 DEF Saved
  <2>2. QED BY <1>1, <1>3, <1>4, <2>1 DEF EngineTypeOK, device
<1>8. SavedMatches' /\ LogIsPast'
  BY <1>1, <1>3, <1>6 DEF SavedMatches, LogIsPast
<1>9. StopKnown'
  <2>1. sinceStop' = Older(sinceStop, MinOffTime)
    BY <1>1 DEF Tick, Age
  <2>2. sinceStop \in AgeUpTo(MinOffTime) /\ saved.sinceStop \in AgeUpTo(MinOffTime)
    BY <1>1, <1>5 DEF TypeOK, Saved
  <2>3. QED BY <1>1, <1>6, <2>1, <2>2, TimeAssumption, NoneAssumption
            DEF StopKnown, Older, Lesser, AgeUpTo
<1>10. QED BY <1>2, <1>7, <1>8, <1>9 DEF EngineInv

\* Users, the optimizer, cars and outages touch neither the state machine nor
\* the columns it writes.
LEMMA OthersKeep ==
    EngineInv /\ (User \/ OverrideExpires \/ ChangeWish \/ World) => EngineInv'
<1> SUFFICES ASSUME EngineInv, User \/ OverrideExpires \/ ChangeWish \/ World PROVE EngineInv'
  OBVIOUS
<1>1. /\ UNCHANGED <<vars, pc, loaded, saved, log, crashes>>
      /\ UNCHANGED <<applied, commanded, sinceChange, result, limit, enabled>>
      /\ TypeOK /\ EngineTypeOK
  BY DEF EngineInv, User, SetMode, SetOverride, ClearOverride, OverrideExpires, ChangeWish,
         World, Environment, PlugIn, Unplug, GoOffline, ComeBack, row, commandVars, device,
         memory
<1>2. TypeOK' /\ StateMatchesRequest' /\ SavedMatches' /\ LogIsPast' /\ StopKnown'
  BY <1>1 DEF EngineInv, TypeOK, StateMatchesRequest, SavedMatches, LogIsPast, StopKnown,
              vars, runtimeVars
<1>3. mode' \in Modes /\ override' \in OverrideStates
  BY <1>1, EngineAssumption
     DEF User, SetMode, SetOverride, ClearOverride, OverrideExpires, ChangeWish, World,
         EngineTypeOK, OverrideStates, row, Modes
<1>4. wish' \in Wishes
  BY <1>1 DEF User, SetMode, SetOverride, ClearOverride, OverrideExpires, ChangeWish, World,
              EngineTypeOK
<1>5. /\ plugged' \in BOOLEAN /\ online' \in BOOLEAN /\ failures' \in 0 .. MaxFailures
  <2>1. plugged \in BOOLEAN /\ online \in BOOLEAN /\ failures \in 0 .. MaxFailures
    BY <1>1 DEF EngineTypeOK
  <2>2. CASE User \/ OverrideExpires \/ ChangeWish
    BY <2>1, <2>2 DEF User, SetMode, SetOverride, ClearOverride, OverrideExpires, ChangeWish,
                      commandVars, device
  <2>3. CASE World
    <3>1. plugged' \in {TRUE, FALSE, plugged} /\ online' \in {TRUE, FALSE, online}
      BY <2>3 DEF World, Environment, PlugIn, Unplug, GoOffline, ComeBack
    <3>2. failures' = failures \/ (failures < MaxFailures /\ failures' = failures + 1)
      BY <2>3 DEF World, Environment, PlugIn, Unplug, GoOffline, ComeBack, Fails
    <3>3. failures' \in 0 .. MaxFailures
      BY <2>1, <3>2, CommandAssumption
    <3>4. QED BY <2>1, <3>1, <3>3
  <2>4. QED BY <2>2, <2>3
<1>6. EngineTypeOK'
  BY <1>1, <1>3, <1>4, <1>5 DEF EngineTypeOK
<1>7. QED BY <1>2, <1>6 DEF EngineInv

LEMMA EngineInductive == EngineInv /\ [EngineNext]_engineVars => EngineInv'
<1> SUFFICES ASSUME EngineInv, [EngineNext]_engineVars PROVE EngineInv'
  OBVIOUS
<1>1. CASE Load
  BY <1>1, LoadKeeps
<1>2. CASE Decide
  BY <1>2, DecideKeeps
<1>3. CASE Command
  BY <1>3, CommandKeeps
<1>4. CASE Commit
  BY <1>4, CommitKeeps
<1>5. CASE Crash
  BY <1>5, CrashKeeps
<1>6. CASE PassTime
  BY <1>6, PassTimeKeeps
<1>7. CASE User \/ OverrideExpires \/ ChangeWish \/ World
  BY <1>7, OthersKeep
<1>8. CASE UNCHANGED engineVars
  <2>1. UNCHANGED <<vars, device, memory, result, failures, pc, wish, loaded, mode,
                    override, saved, log, crashes>>
    BY <1>8 DEF engineVars, row, commandVars
  <2>2. TypeOK' /\ StateMatchesRequest' /\ SavedMatches' /\ LogIsPast' /\ StopKnown'
    BY <2>1 DEF EngineInv, TypeOK, StateMatchesRequest, SavedMatches, LogIsPast, StopKnown,
                vars, runtimeVars
  <2>3. EngineTypeOK'
    BY <2>1 DEF EngineInv, EngineTypeOK, device, memory
  <2>4. QED BY <2>2, <2>3 DEF EngineInv
<1>9. QED
  BY <1>1, <1>2, <1>3, <1>4, <1>5, <1>6, <1>7, <1>8 DEF EngineNext, Run

-----------------------------------------------------------------------------
(* The theorems.                                                           *)

THEOREM EngineInvHolds == EngineSpec => []EngineInv
BY InitEngine, EngineInductive, PTL DEF EngineSpec

\* Row, log, memory, result and connector stay well formed: only currents that
\* the charger accepts are recorded, logged or sent, in whatever step a cycle
\* was cut off.
THEOREM EngineTypeCorrect == EngineSpec => []EngineTypeOK
<1>1. EngineInv => EngineTypeOK
  BY DEF EngineInv
<1>2. QED BY <1>1, EngineInvHolds, PTL

\* Restored from columns some cycles of which were never committed, the state
\* still says whether a current is requested.
THEOREM EngineStateMatches == EngineSpec => []StateMatchesRequest
<1>1. EngineInv => StateMatchesRequest
  BY DEF EngineInv
<1>2. QED BY <1>1, EngineInvHolds, PTL

\* Until something fails or restarts, the controller's record of what it applied
\* is the limit of the charger, whatever anti-flapping holds back.
LEMMA CommandKnows ==
    ASSUME EngineTypeOK, KnowsLimit, Command PROVE KnowsLimit'
<1>1. /\ Apply(decision, Or(saved.applied, 0)) /\ UNCHANGED crashes
      /\ failures \in Nat
  BY DEF Command, EngineTypeOK
<1> DEFINE d == decision
           before == Or(saved.applied, 0)
<1> USE <1>1 DEF KnowsLimit, device, memory
<1>2. CASE Skip(d) \/ Unreachable(d) \/ NobodyThere(d)
  BY <1>2 DEF Skip, Unreachable, NobodyThere
<1>3. CASE KeepCommand(d) \/ HoldBack(d)
  BY <1>3 DEF KeepCommand, HoldBack
<1>4. CASE ConfirmStopped(d)
  BY <1>4 DEF ConfirmStopped, AlreadyStopped, RecordApplied
<1>5. CASE Send(d)
  BY <1>5 DEF Send, StopEffect, StopCharging, SetEffect, SetLimit, RecordApplied
<1>6. CASE SendFails(d) \/ SendCutOff(d, before)
  <2>1. failures' = failures + 1
    BY <1>6 DEF SendFails, SendCutOff, Fails
  <2>2. failures' # 0
    BY <1>1, <2>1
  <2>3. QED BY <2>2
<1>7. QED BY <1>2, <1>3, <1>4, <1>5, <1>6 DEF Apply

THEOREM LimitIsKnown == EngineSpec => []KnowsLimit
<1>1. EngineInit => KnowsLimit
  BY DEF EngineInit, CommandInit, KnowsLimit
<1>2. EngineInv /\ KnowsLimit /\ [EngineNext]_engineVars => KnowsLimit'
  <2> SUFFICES ASSUME EngineTypeOK, KnowsLimit, [EngineNext]_engineVars PROVE KnowsLimit'
    BY DEF EngineInv
  <2>1. failures \in Nat /\ crashes \in Nat
    BY DEF EngineTypeOK
  <2>2. CASE Command
    BY <2>2, CommandKnows
  <2>3. CASE Crash
    BY <2>1, <2>3 DEF Crash, KnowsLimit
  <2>4. CASE Decide
    BY <2>1, <2>4 DEF Decide, Arm, Works, Fails, KnowsLimit, memory
  <2>5. CASE Load \/ Commit \/ PassTime \/ User \/ OverrideExpires \/ ChangeWish
    BY <2>5 DEF Load, Commit, PassTime, User, SetMode, SetOverride, ClearOverride,
                OverrideExpires, ChangeWish, KnowsLimit, commandVars, device, memory
  <2>6. CASE World
    BY <2>1, <2>6 DEF World, Environment, PlugIn, Unplug, GoOffline, ComeBack, Fails,
                      KnowsLimit, memory
  <2>7. CASE UNCHANGED engineVars
    BY <2>7 DEF engineVars, commandVars, device, memory, KnowsLimit
  <2>8. QED BY <2>2, <2>3, <2>4, <2>5, <2>6, <2>7 DEF EngineNext, Run
<1>3. QED BY <1>1, <1>2, EngineInvHolds, PTL DEF EngineSpec

\* An automatic start finds the minimum off time of the memory over.
LEMMA StartIsRested ==
    ASSUME IncreaseStep < MinCurrent, TypeOK, NEW in \in Input, Evaluate(in),
           requested = 0, requested' > 0, ~decision'.fast
    PROVE  sinceStop # None => sinceStop >= MinOffTime
<1> USE CurrentAssumption
<1>1. CASE Start(in)
  BY <1>1 DEF Start, Permitted, StartAllowed, SetCurrent
<1>2. CASE Reduce(in)
  <2>1. Floor = IncreaseStep
    BY DEF Floor, ApplyRamp, Lesser, Greater
  <2>2. QED BY <1>2, <2>1 DEF Reduce, ReducesFirst
<1>3. CASE ~Start(in) /\ ~Reduce(in)
  BY <1>3 DEF Evaluate, Fault, UserPaused, NoVehicle, CoolingDown, WaitToStop, Stop,
              StartRateLimited, WaitForExport, WaitToStart, Hold, Ramp, Running
<1>4. QED BY <1>1, <1>2, <1>3

\* EMIC starts a session on its own only when the minimum off time has passed
\* since the last stop that was committed, across restarts and lost commits.
THEOREM CommittedStopsRest ==
    ASSUME IncreaseStep < MinCurrent PROVE EngineSpec => CommittedStopRests
<1>1. EngineInv /\ [EngineNext]_engineVars
         => [pc = "loaded" /\ pc' = "decided" /\ requested = 0 /\ requested' > 0
               /\ ~decision'.fast /\ saved.sinceStop # None
             => saved.sinceStop >= MinOffTime]_engineVars
  <2> SUFFICES ASSUME EngineInv, EngineNext,
                      pc = "loaded", pc' = "decided", requested = 0, requested' > 0,
                      ~decision'.fast, saved.sinceStop # None
               PROVE  saved.sinceStop >= MinOffTime
    OBVIOUS
  <2>1. Decide
    BY DEF EngineNext, Run, Load, Command, Commit, Crash, PassTime, User, SetMode, SetOverride,
           ClearOverride, OverrideExpires, ChangeWish, World
  <2>2. TypeOK /\ Findings \in Input /\ Evaluate(Findings)
    BY <2>1, FindingsTyped DEF Decide, EngineInv
  <2>3. sinceStop # None /\ sinceStop <= saved.sinceStop
    BY DEF EngineInv, StopKnown
  <2>4. sinceStop >= MinOffTime
    BY <2>2, <2>3, StartIsRested
  <2>5. sinceStop \in Nat /\ saved.sinceStop \in Nat
    BY <2>2, <2>3 DEF EngineInv, EngineTypeOK, TypeOK, AgeUpTo
  <2>6. QED BY <2>3, <2>4, <2>5, TimeAssumption
<1>2. QED BY <1>1, EngineInvHolds, PTL DEF EngineSpec, CommittedStopRests

=============================================================================
