---------------------------- MODULE EvAccounting ----------------------------
(***************************************************************************)
(* The accounting of charged energy (ev_accounting): the medium lane of    *)
(* the collector reads the meter of a charger, opens a session when a car  *)
(* is plugged in, books an interval of energy at each pass, and completes  *)
(* the session with its totals when the car leaves.                        *)
(*                                                                         *)
(* What the next interval starts from, and whether a car was there, is     *)
(* kept in the memory of the process; sessions and intervals are in the    *)
(* database, in a transaction the whole lane shares.  A pass that fails    *)
(* rolls back the rows and not the memory; a restart loses the memory and  *)
(* makes it up from the rows.                                              *)
(*                                                                         *)
(* One charger.  The unit of time is the interval of the lane, the unit of *)
(* energy what a charging car draws in it.                                 *)
(***************************************************************************)
EXTENDS Naturals, FiniteSets, SequencesExt

CONSTANTS
    MaxTime,    \* how far the clock runs (a bound)
    MaxPlugs,   \* how often a car is plugged in (a bound)
    MaxFaults,  \* passes rolled back and restarts (a bound)
    None

ASSUME AccountingAssumption ==
    /\ MaxTime \in Nat /\ MaxPlugs \in Nat /\ MaxFaults \in Nat
    /\ None \notin Nat \cup BOOLEAN

Power == 0..1

VARIABLES
    now,
    due,         \* whether the lane has yet to pass in this unit of time
    connected,   \* whether a car is plugged in
    register,    \* the consumption register of the charger
    resets,      \* whether the charger resets it when the car leaves
    runtime,     \* ChargerSessionState
    sessions,    \* ev_charging_sessions of the charger, by id
    intervals,   \* ev_charging_intervals of each session, as list_for_session has them
    energy,      \* history: the energy drawn so far
    rolledBack,  \* history: whether this process has lost a transaction
    plugs, faults

car == <<connected, register, resets, energy, plugs>>
books == <<sessions, intervals>>
accountingVars == <<now, due, car, runtime, books, rolledBack, faults>>

\* read is history: the energy drawn when the meter was last read.
Blank == [connected |-> None, meter |-> None, at |-> None, read |-> 0]

\* get_active_for_charger: the ACTIVE session that started last.
ActiveOf(ss) ==
    LET active == {k \in DOMAIN ss : ss[k].status = "ACTIVE"}
    IN  IF active = {} THEN None
        ELSE CHOOSE k \in active : \A l \in active : ss[l].start <= ss[k].start

Charged(ivs) == FoldLeft(LAMBDA sum, i : sum + i.kwh, 0, ivs)

\* session_energy_from_meter: None stands for INCOMPLETE.
MeterEnergy(first, last) ==
    IF first = None \/ last = None THEN None
    ELSE IF last < first THEN None ELSE last - first

\* total_energy_kwh: the meter wins, unless it does not know or reads nothing
\* although energy was booked, as it does after a reset of the register.
Total(ivs, measured) ==
    IF measured = None \/ (measured = 0 /\ Charged(ivs) > 0)
    THEN Charged(ivs)
    ELSE measured

-----------------------------------------------------------------------------
(***************************************************************************)
(* A pass, as steps on s, what the process and its transaction hold, given *)
(* the snapshot m of the meter and the power ev of the car in the live     *)
(* overview.  drawn, from and upTo are history: the energy at the start of *)
(* a session or interval and at its end.                                   *)
(***************************************************************************)
Opened(s, m) ==
    [s EXCEPT !.sessions = Append(@,
                 [status |-> "ACTIVE", start |-> now, first |-> m.kwh, last |-> None,
                  total |-> None, drawn |-> energy, upTo |-> None]),
              !.intervals = Append(@, <<>>),
              !.runtime = [connected |-> TRUE, meter |-> m.kwh, at |-> now, read |-> energy]]

\* Mutant: the totals of a session are those of its intervals.
Completed_Unmeasured(s, m, k) ==
    [s EXCEPT !.sessions[k].status = "COMPLETED",
              !.sessions[k].last = m.kwh,
              !.sessions[k].total = Total(s.intervals[k], None),
              !.sessions[k].upTo = energy,
              !.runtime = [connected |-> FALSE, meter |-> m.kwh, at |-> now, read |-> energy]]

Completed(s, m, k) ==
    [s EXCEPT !.sessions[k].status = "COMPLETED",
              !.sessions[k].last = m.kwh,
              !.sessions[k].total = Total(s.intervals[k],
                                          MeterEnergy(s.sessions[k].first, m.kwh)),
              !.sessions[k].upTo = energy,
              !.runtime = [connected |-> FALSE, meter |-> m.kwh, at |-> now, read |-> energy]]

\* Mutant: a car that was not there opens a session, open one or not.
ProcessCharger_AnyActive(s, m) ==
    LET active == ActiveOf(s.sessions)
        was == s.runtime.connected = TRUE
    IN  IF m.connected /\ ~was THEN Opened(s, m)
        ELSE IF ~m.connected /\ was /\ active # None THEN Completed(s, m, active)
        ELSE [s EXCEPT !.runtime.connected = m.connected]

\* A car that comes opens a session, one that goes completes it.
ProcessCharger(s, m) ==
    LET active == ActiveOf(s.sessions)
        was == s.runtime.connected = TRUE
    IN  IF m.connected /\ ~was /\ active = None THEN Opened(s, m)
        ELSE IF ~m.connected /\ was /\ active # None THEN Completed(s, m, active)
        ELSE [s EXCEPT !.runtime.connected = m.connected]

\* Whether the interval is measured, and its energy: the difference of two
\* readings, else the power of the moment, else that of the overview.
Measured(s, m) ==
    s.runtime.meter # None /\ m.kwh # None /\ m.kwh > s.runtime.meter

ChargedSince(start, s, m, ev) ==
    IF Measured(s, m) THEN m.kwh - s.runtime.meter
    ELSE (now - start) * (IF m.power > 0 THEN m.power ELSE ev)

Booked(s, m, k, start, kwh) ==
    LET ivs == Append(s.intervals[k], [start |-> start, end |-> now, kwh |-> kwh,
                                       measured |-> Measured(s, m),
                                       from |-> s.runtime.read, upTo |-> energy])
    IN  [s EXCEPT !.intervals[k] = ivs,
                  !.sessions[k].total = Total(ivs, None),
                  !.runtime = [@ EXCEPT !.meter = m.kwh, !.at = now, !.read = energy]]

SampleActive(s, m, ev) ==
    LET k == ActiveOf(s.sessions)
        start == IF s.runtime.at # None THEN s.runtime.at ELSE s.sessions[k].start
        kwh == ChargedSince(start, s, m, ev)
    IN  IF k = None \/ start >= now THEN s
        ELSE IF kwh = 0 THEN [s EXCEPT !.runtime.at = now]
        ELSE Booked(s, m, k, start, kwh)

\* The snapshot may miss the register; without an overview nothing is sampled.
Snapshots ==
    [kwh : {register, None}, power : IF connected THEN Power ELSE {0},
     connected : {connected}]
Overviews == (IF connected THEN Power ELSE {0}) \cup {None}

Before == [runtime |-> runtime, sessions |-> sessions, intervals |-> intervals]
Processed(m) == ProcessCharger(Before, m)
Sampled(m, ev) == IF ev = None THEN Processed(m) ELSE SampleActive(Processed(m), m, ev)

\* The pass is committed with the rest of the lane.
Pass ==
    /\ due
    /\ \E m \in Snapshots, ev \in Overviews :
          /\ runtime' = Sampled(m, ev).runtime
          /\ sessions' = Sampled(m, ev).sessions
          /\ intervals' = Sampled(m, ev).intervals
    /\ due' = FALSE
    /\ UNCHANGED <<now, car, rolledBack, faults>>

\* A statement, a later task of the lane or the commit fails, or the lane runs
\* into its timeout: the transaction is lost, the memory is as far as it got.
RolledBackPass ==
    /\ due /\ faults < MaxFaults
    /\ \E m \in Snapshots, ev \in Overviews :
          runtime' \in {runtime, Processed(m).runtime, Sampled(m, ev).runtime}
    /\ due' = FALSE
    /\ rolledBack' = TRUE
    /\ faults' = faults + 1
    /\ UNCHANGED <<now, car, books>>

\* resume_active_sessions: sampling goes on where the last interval ended.
Anchor(k) ==
    LET ends == {intervals[k][i].end : i \in DOMAIN intervals[k]}
    IN  IF ends = {} THEN sessions[k].start
        ELSE CHOOSE t \in ends : \A u \in ends : u <= t

\* Mutant: the session is resumed from its opening, as it once was.
Resumed_FromStart ==
    LET k == ActiveOf(sessions)
    IN  IF k = None THEN Blank
        ELSE [connected |-> TRUE, meter |-> sessions[k].first, at |-> sessions[k].start,
               read |-> sessions[k].drawn]

Resumed ==
    LET k == ActiveOf(sessions)
    IN  IF k = None THEN Blank
        ELSE [connected |-> TRUE, meter |-> None, at |-> Anchor(k), read |-> 0]

\* The collector stops, also in the middle of a pass, and starts again.
Restart ==
    /\ faults < MaxFaults
    /\ runtime' = Resumed
    /\ rolledBack' = FALSE
    /\ faults' = faults + 1
    /\ UNCHANGED <<now, due, car, books>>

-----------------------------------------------------------------------------
Elapse ==
    /\ now < MaxTime
    /\ now' = now + 1
    /\ due' = TRUE
    /\ \E draw \in IF connected THEN Power ELSE {0} :
          /\ register' = register + draw
          /\ energy' = energy + draw
    /\ UNCHANGED <<connected, resets, plugs, runtime, books, rolledBack, faults>>

PlugIn ==
    /\ ~connected
    /\ plugs < MaxPlugs
    /\ connected' = TRUE
    /\ plugs' = plugs + 1
    /\ UNCHANGED <<now, due, register, resets, energy, runtime, books, rolledBack, faults>>

Unplug ==
    /\ connected
    /\ connected' = FALSE
    /\ register' = IF resets THEN 0 ELSE register
    /\ UNCHANGED <<now, due, resets, energy, plugs, runtime, books, rolledBack, faults>>

AccountingInit ==
    /\ now = 0 /\ due = TRUE /\ connected \in BOOLEAN /\ register = 0 /\ resets \in BOOLEAN
    /\ runtime = Blank /\ sessions = <<>> /\ intervals = <<>>
    /\ energy = 0 /\ rolledBack = FALSE /\ plugs = 0 /\ faults = 0

AccountingNext == Pass \/ RolledBackPass \/ Restart \/ Elapse \/ PlugIn \/ Unplug

AccountingSpec == AccountingInit /\ [][AccountingNext]_accountingVars

-----------------------------------------------------------------------------
(***************************************************************************)
(* No time and no energy is booked twice, whatever is rolled back or       *)
(* restarted ("a restart must not re-count the session"): an interval      *)
(* starts where all before it had ended, in its session or an earlier one, *)
(* and what one measured is no more than was drawn since the reading it    *)
(* started from, which is not before its session nor before the reading    *)
(* another one ended with.                                                 *)
(***************************************************************************)
UpTo(k) == IF sessions[k].upTo = None THEN energy ELSE sessions[k].upTo

TimeCountedOnce ==
    /\ \A k \in DOMAIN intervals : \A i, j \in DOMAIN intervals[k] :
          i < j => intervals[k][i].end <= intervals[k][j].start
    /\ \A k, l \in DOMAIN intervals : k < l =>
          \A i \in DOMAIN intervals[k], j \in DOMAIN intervals[l] :
             intervals[k][i].end <= intervals[l][j].start

EnergyCountedOnce ==
    \A k \in DOMAIN intervals : \A i \in DOMAIN intervals[k] :
       intervals[k][i].measured =>
          /\ sessions[k].drawn <= intervals[k][i].from
          /\ intervals[k][i].from + intervals[k][i].kwh <= intervals[k][i].upTo
          /\ intervals[k][i].upTo <= UpTo(k)
          /\ \A j \in DOMAIN intervals[k] :
                i < j /\ intervals[k][j].measured
                   => intervals[k][i].upTo <= intervals[k][j].from

CountedOnce == TimeCountedOnce /\ EnergyCountedOnce

(***************************************************************************)
(* process_charger decides by its memory, the sampler by the database: at  *)
(* most one session is ever open, and one is open exactly while the last   *)
(* pass has seen a car, unless this process has lost a transaction.  A     *)
(* restart puts even that right.                                           *)
(***************************************************************************)
SessionFollowsCar ==
    /\ Cardinality({k \in DOMAIN sessions : sessions[k].status = "ACTIVE"}) <= 1
    /\ ~rolledBack /\ runtime.connected # None
         => (runtime.connected <=> ActiveOf(sessions) # None)

\* _resume_duplicates: the intervals from the start of the session, but the
\* one that ends first.
Duplicates(k) ==
    LET fromStart == {i \in DOMAIN intervals[k] : intervals[k][i].start = sessions[k].start}
    IN  {i \in fromStart :
            \E j \in fromStart : intervals[k][j].end < intervals[k][i].end}

\* The total repair_sessions gives a session.
RepairedTotal(k) ==
    Total(intervals[k],
          IF sessions[k].status = "ACTIVE" THEN None
          ELSE MeterEnergy(sessions[k].first, sessions[k].last))

(***************************************************************************)
(* The repair of old sessions leaves alone what this code wrote, at any    *)
(* moment it may be run ("a session already matching its intervals is left *)
(* untouched, so this is safe to re-run"): it drops no interval and agrees *)
(* with every total.                                                       *)
(***************************************************************************)
RepairLeavesAlone ==
    \A k \in DOMAIN sessions :
       intervals[k] # <<>> =>
          Duplicates(k) = {} /\ RepairedTotal(k) = sessions[k].total

=============================================================================
