-------------------------- MODULE EvAccountingProofs --------------------------
(***************************************************************************)
(* What is proved of the accounting of charged energy, for every number of *)
(* cars, passes, rolled back passes and restarts, and for a clock and a    *)
(* register of any size.                                                   *)
(*                                                                         *)
(* A pass is two steps on s, the memory and the rows, and a pass rolled    *)
(* back keeps the memory of either: the invariant is stated of such an s,  *)
(* and of Before, what the process and the database hold between passes.   *)
(***************************************************************************)
EXTENDS EvAccounting, SequenceTheorems, FiniteSetTheorems, TLAPS

Readings == Nat \cup {None}

IntervalTypes ==
    [start : Nat, end : Nat, kwh : Nat, measured : BOOLEAN, from : Nat, upTo : Nat]

\* What a total can be; that a sum of intervals is a number is left to TLC.
Totals == Readings \cup {Charged(ivs) : ivs \in Seq(IntervalTypes)}

SessionTypes ==
    [status : {"ACTIVE", "COMPLETED"}, start : Nat, first : Readings, last : Readings,
     total : Totals, drawn : Nat, upTo : Readings]
RuntimeTypes ==
    [connected : BOOLEAN \cup {None}, meter : Readings, at : Readings, read : Nat]

-----------------------------------------------------------------------------
(* The inductive invariant, in parts.                                      *)

Typed(s) ==
    /\ s \in [runtime : RuntimeTypes, sessions : Seq(SessionTypes),
              intervals : Seq(Seq(IntervalTypes))]
    /\ Len(s.intervals) = Len(s.sessions)

Active(s, k) == k \in 1 .. Len(s.sessions) /\ s.sessions[k].status = "ACTIVE"

\* The intervals of a session, in the order of time.
TimeOrder(session, ivs) ==
    /\ session.start <= now
    /\ \A i \in 1 .. Len(ivs) :
          session.start <= ivs[i].start /\ ivs[i].start < ivs[i].end /\ ivs[i].end <= now
    /\ \A i, j \in 1 .. Len(ivs) : i < j => ivs[i].end <= ivs[j].start

\* The measured ones are also in the order of the energy they stand for.
EnergyOrder(session, ivs) ==
    /\ session.drawn <= energy
    /\ session.upTo # None => session.upTo <= energy
    /\ \A i \in 1 .. Len(ivs) : ivs[i].measured =>
          /\ session.drawn <= ivs[i].from
          /\ ivs[i].from + ivs[i].kwh <= ivs[i].upTo
          /\ ivs[i].upTo <= energy
          /\ session.upTo # None => ivs[i].upTo <= session.upTo
    /\ \A i, j \in 1 .. Len(ivs) :
          i < j /\ ivs[i].measured /\ ivs[j].measured => ivs[i].upTo <= ivs[j].from

\* The total is what the repair makes of the rows.
TotalAgrees(session, ivs) ==
    ivs # <<>> =>
       session.total = Total(ivs, IF session.status = "ACTIVE" THEN None
                                  ELSE MeterEnergy(session.first, session.last))

Sound(session, ivs) ==
    TimeOrder(session, ivs) /\ EnergyOrder(session, ivs) /\ TotalAgrees(session, ivs)

\* The memory goes on from an open session: it knows a time that no interval
\* goes beyond, and a reading, if any, that no measured one goes beyond.
GoesOn(memory, session, ivs) ==
    /\ session.upTo = None
    /\ memory.connected # None
    /\ memory.at # None
    /\ session.start <= memory.at
    /\ \A i \in 1 .. Len(ivs) : ivs[i].end <= memory.at
    /\ memory.meter # None =>
          /\ session.drawn <= memory.read
          /\ \A i \in 1 .. Len(ivs) : ivs[i].measured => ivs[i].upTo <= memory.read

\* What the memory holds is not of the future, and the register has gone on
\* since its reading by no more than the car drew.
IsPast(memory) ==
    /\ memory.at # None => memory.at <= now
    /\ memory.read <= energy
    /\ memory.meter # None => register + memory.read <= energy + memory.meter

\* Only the last session can be open, and the memory goes on from it.
OpenIsLast(s) ==
    \A k \in 1 .. Len(s.sessions) : s.sessions[k].status = "ACTIVE" =>
       k = Len(s.sessions) /\ GoesOn(s.runtime, s.sessions[k], s.intervals[k])

\* A session starts where the intervals of all before it had ended.
SessionOrder(s) ==
    \A k, l \in 1 .. Len(s.sessions) : k < l =>
       \A i \in 1 .. Len(s.intervals[k]) : s.intervals[k][i].end <= s.sessions[l].start

AllSound(s) == \A k \in 1 .. Len(s.sessions) : Sound(s.sessions[k], s.intervals[k])

Consistent(s) ==
    Typed(s) /\ IsPast(s.runtime) /\ OpenIsLast(s) /\ SessionOrder(s) /\ AllSound(s)

\* The memory and the rows agree on whether a car is there.
MemoryFollows(s) ==
    s.runtime.connected # None
       => (s.runtime.connected <=> \E k \in 1 .. Len(s.sessions) : Active(s, k))

WorldTyped ==
    /\ now \in Nat /\ register \in Nat /\ energy \in Nat
    /\ connected \in BOOLEAN /\ rolledBack \in BOOLEAN

AccountingInv ==
    /\ WorldTyped
    /\ Consistent(Before)
    /\ ~rolledBack => MemoryFollows(Before)

-----------------------------------------------------------------------------
(* The operators a pass is built from.                                     *)

\* None is no number and no truth value.
LEMMA NoneDiffers ==
    /\ \A a \in Nat : a # None
    /\ \A b \in BOOLEAN : b # None
    /\ TRUE # None /\ FALSE # None
BY AccountingAssumption

\* An index of a sequence that was appended to.
LEMMA Indices ==
    ASSUME NEW n \in Nat
    PROVE  /\ n + 1 \in 1 .. n + 1
           /\ \A k \in 1 .. n : k \in 1 .. n + 1 /\ k < n + 1
           /\ \A k \in 1 .. n + 1 : k \in 1 .. n \/ k = n + 1
           /\ \A k, l \in 1 .. n + 1 : k < l => k \in 1 .. n
OBVIOUS

\* What the rows and the memory are made of.
LEMMA Parts ==
    ASSUME NEW s, Typed(s)
    PROVE  /\ s.runtime \in RuntimeTypes
           /\ s.sessions \in Seq(SessionTypes)
           /\ s.intervals \in Seq(Seq(IntervalTypes))
           /\ Len(s.sessions) \in Nat /\ Len(s.intervals) = Len(s.sessions)
           /\ DOMAIN s.sessions = 1 .. Len(s.sessions)
           /\ DOMAIN s.intervals = 1 .. Len(s.sessions)
           /\ \A k \in 1 .. Len(s.sessions) :
                 /\ s.sessions[k] \in SessionTypes
                 /\ s.intervals[k] \in Seq(IntervalTypes)
                 /\ Len(s.intervals[k]) \in Nat
                 /\ DOMAIN s.intervals[k] = 1 .. Len(s.intervals[k])
                 /\ \A i \in 1 .. Len(s.intervals[k]) : s.intervals[k][i] \in IntervalTypes
<1>1. /\ s.runtime \in RuntimeTypes
      /\ s.sessions \in Seq(SessionTypes)
      /\ s.intervals \in Seq(Seq(IntervalTypes))
      /\ Len(s.intervals) = Len(s.sessions)
  BY DEF Typed
<1>2. /\ Len(s.sessions) \in Nat
      /\ DOMAIN s.sessions = 1 .. Len(s.sessions)
      /\ \A k \in 1 .. Len(s.sessions) : s.sessions[k] \in SessionTypes
  BY <1>1, ElementOfSeq, LenProperties
<1>3. /\ DOMAIN s.intervals = 1 .. Len(s.sessions)
      /\ \A k \in 1 .. Len(s.sessions) : s.intervals[k] \in Seq(IntervalTypes)
  BY <1>1, ElementOfSeq, LenProperties
<1>4. \A ivs \in Seq(IntervalTypes) :
         /\ Len(ivs) \in Nat
         /\ DOMAIN ivs = 1 .. Len(ivs)
         /\ \A i \in 1 .. Len(ivs) : ivs[i] \in IntervalTypes
  BY ElementOfSeq, LenProperties
<1>5. QED BY <1>1, <1>2, <1>3, <1>4

\* get_active_for_charger finds the last session or none.
LEMMA ActiveIsLast ==
    ASSUME NEW s, Typed(s), OpenIsLast(s)
    PROVE  \/ /\ ActiveOf(s.sessions) = None
              /\ \A l \in 1 .. Len(s.sessions) : ~Active(s, l)
           \/ /\ ActiveOf(s.sessions) = Len(s.sessions)
              /\ Active(s, Len(s.sessions))
<1> DEFINE active == {k \in DOMAIN s.sessions : s.sessions[k].status = "ACTIVE"}
<1>1. /\ s.sessions \in Seq(SessionTypes)
      /\ DOMAIN s.sessions = 1 .. Len(s.sessions)
      /\ \A k \in DOMAIN s.sessions : s.sessions[k].start \in Nat
  BY Parts DEF SessionTypes
<1>2. CASE active = {}
  BY <1>1, <1>2 DEF ActiveOf, Active
<1>3. CASE active # {}
  <2>1. active = {Len(s.sessions)}
    BY <1>1, <1>3 DEF OpenIsLast
  <2>2. \A k \in active : \A l \in active : s.sessions[l].start <= s.sessions[k].start
    BY <1>1, <2>1
  <2>3. ActiveOf(s.sessions) \in active
    BY <1>3, <2>2 DEF ActiveOf
  <2>4. QED BY <1>1, <2>1, <2>3 DEF Active
<1>4. QED BY <1>2, <1>3

\* total_energy_kwh is a total, whatever the meter says.
LEMMA TotalTyped ==
    ASSUME NEW ivs \in Seq(IntervalTypes), NEW measured \in Readings
    PROVE  Total(ivs, measured) \in Totals
BY DEF Total, Totals

LEMMA MeterEnergyTyped ==
    ASSUME NEW first \in Readings, NEW last \in Readings
    PROVE  MeterEnergy(first, last) \in Readings
BY AccountingAssumption DEF MeterEnergy, Readings

\* The parts of a snapshot.
LEMMA SnapshotTyped ==
    ASSUME WorldTyped, NEW m \in Snapshots
    PROVE  /\ m.kwh \in Readings
           /\ m.kwh = register \/ m.kwh = None
           /\ m.power \in Nat
           /\ m.connected = connected /\ m.connected \in BOOLEAN
BY DEF WorldTyped, Snapshots, Readings, Power

-----------------------------------------------------------------------------
(* process_charger.                                                        *)

LEMMA OpenedConsistent ==
    ASSUME WorldTyped, NEW m \in Snapshots, NEW s, Consistent(s),
           \A k \in 1 .. Len(s.sessions) : ~Active(s, k)
    PROVE  Consistent(Opened(s, m))
<1> DEFINE t == Opened(s, m)
           n == Len(s.sessions)
           new == [status |-> "ACTIVE", start |-> now, first |-> m.kwh, last |-> None,
                   total |-> None, drawn |-> energy, upTo |-> None]
<1>1. /\ t.sessions = Append(s.sessions, new)
      /\ t.intervals = Append(s.intervals, <<>>)
      /\ t.runtime = [connected |-> TRUE, meter |-> m.kwh, at |-> now, read |-> energy]
      /\ t \in [runtime : {t.runtime}, sessions : {t.sessions}, intervals : {t.intervals}]
  BY DEF Consistent, Typed, Opened
<1>2. new \in SessionTypes /\ t.runtime \in RuntimeTypes /\ <<>> \in Seq(IntervalTypes)
  BY <1>1, SnapshotTyped
     DEF SessionTypes, RuntimeTypes, Readings, Totals, WorldTyped
<1>3. Typed(s) /\ OpenIsLast(s) /\ SessionOrder(s) /\ AllSound(s)
  BY DEF Consistent
<1>4. /\ n \in Nat /\ Len(t.sessions) = n + 1 /\ Len(t.intervals) = n + 1
      /\ t.sessions \in Seq(SessionTypes) /\ t.intervals \in Seq(Seq(IntervalTypes))
      /\ t.sessions[n + 1] = new /\ t.intervals[n + 1] = <<>>
      /\ \A k \in 1 .. n : t.sessions[k] = s.sessions[k] /\ t.intervals[k] = s.intervals[k]
  BY <1>1, <1>2, <1>3, Parts, AppendProperties
<1> HIDE DEF t
<1>5. Typed(t)
  BY <1>1, <1>2, <1>4 DEF Typed
<1>6. /\ \A k \in 1 .. n : k \in 1 .. n + 1 /\ k < n + 1
      /\ \A k \in 1 .. n + 1 : k \in 1 .. n \/ k = n + 1
      /\ \A k, l \in 1 .. n + 1 : k < l => k \in 1 .. n
  BY <1>4, Indices
<1>7. Sound(new, <<>>) /\ GoesOn(t.runtime, new, <<>>) /\ IsPast(t.runtime)
  <2>1. Len(<<>>) = 0 /\ 1 .. 0 = {}
    OBVIOUS
  <2>2. Sound(new, <<>>)
    BY <2>1 DEF Sound, TimeOrder, EnergyOrder, TotalAgrees, WorldTyped
  <2>3. GoesOn(t.runtime, new, <<>>)
    <3>1. /\ t.runtime.connected = TRUE /\ t.runtime.at = now /\ t.runtime.read = energy
          /\ new.start = now /\ new.drawn = energy /\ new.upTo = None
          /\ now <= now /\ energy <= energy /\ now # None
      BY <1>1, NoneDiffers DEF WorldTyped
    <3> HIDE DEF new
    <3>2. QED BY <2>1, <3>1, NoneDiffers DEF GoesOn
  <2>4. IsPast(t.runtime)
    BY <1>1, SnapshotTyped DEF IsPast, WorldTyped
  <2>5. QED BY <2>2, <2>3, <2>4
<1>8. AllSound(t)
  BY <1>3, <1>4, <1>6, <1>7 DEF AllSound
<1>9. OpenIsLast(t)
  <2>1. \A k \in 1 .. n : t.sessions[k].status # "ACTIVE"
    BY <1>4 DEF Active
  <2>2. QED BY <1>4, <1>6, <1>7, <2>1 DEF OpenIsLast
<1>10. SessionOrder(t)
  <2> SUFFICES ASSUME NEW k \in 1 .. Len(t.sessions), NEW l \in 1 .. Len(t.sessions),
                      k < l, NEW i \in 1 .. Len(t.intervals[k])
               PROVE  t.intervals[k][i].end <= t.sessions[l].start
    BY DEF SessionOrder
  <2>1. k \in 1 .. n /\ t.intervals[k] = s.intervals[k]
    BY <1>4, <1>6
  <2>2. CASE l \in 1 .. n
    BY <1>3, <1>4, <2>1, <2>2 DEF SessionOrder
  <2>3. CASE l = n + 1
    <3>1. s.intervals[k][i].end <= now
      BY <1>3, <2>1 DEF AllSound, Sound, TimeOrder
    <3>2. t.sessions[l] = new /\ new.start = now
      BY <1>4, <2>3
    <3> HIDE DEF new
    <3>3. QED BY <2>1, <3>1, <3>2
  <2>4. QED BY <1>4, <1>6, <2>2, <2>3
<1>11. QED BY <1>5, <1>7, <1>8, <1>9, <1>10 DEF Consistent, t

\* The same for a session that is changed, and possibly its intervals.
LEMMA ChangedConsistent ==
    ASSUME WorldTyped, NEW s, Consistent(s), NEW t, Typed(t), IsPast(t.runtime),
           NEW n, n = Len(s.sessions), Active(s, n),
           Len(t.sessions) = n,
           \A k \in 1 .. n : k # n => t.sessions[k] = s.sessions[k]
                                       /\ t.intervals[k] = s.intervals[k],
           t.sessions[n].start = s.sessions[n].start,
           Sound(t.sessions[n], t.intervals[n]),
           t.sessions[n].status = "ACTIVE"
              => GoesOn(t.runtime, t.sessions[n], t.intervals[n])
    PROVE  Consistent(t)
<1>1. /\ Typed(s) /\ OpenIsLast(s) /\ SessionOrder(s) /\ AllSound(s)
      /\ n \in Nat
  BY Parts DEF Consistent
<1>2. AllSound(t)
  BY <1>1 DEF AllSound
<1>3. OpenIsLast(t)
  BY <1>1 DEF OpenIsLast
<1>4. SessionOrder(t)
  <2>1. \A k, l \in 1 .. n : k < l => k # n /\ t.intervals[k] = s.intervals[k]
                                        /\ t.sessions[l].start = s.sessions[l].start
    BY <1>1
  <2>2. QED BY <1>1, <2>1 DEF SessionOrder
<1>5. QED BY <1>2, <1>3, <1>4 DEF Consistent

\* Nothing but the memory is changed.
LEMMA MemoryConsistent ==
    ASSUME NEW s, Consistent(s), NEW t, Typed(t), IsPast(t.runtime),
           t.sessions = s.sessions, t.intervals = s.intervals,
           \A session \in SessionTypes, ivs \in Seq(IntervalTypes) :
              Sound(session, ivs) /\ GoesOn(s.runtime, session, ivs)
                 => GoesOn(t.runtime, session, ivs)
    PROVE  Consistent(t)
<1>1. /\ Typed(s) /\ OpenIsLast(s) /\ SessionOrder(s) /\ AllSound(s)
  BY DEF Consistent
<1>2. AllSound(t) /\ SessionOrder(t)
  BY <1>1 DEF AllSound, SessionOrder
<1>3. OpenIsLast(t)
  BY <1>1, Parts DEF OpenIsLast, AllSound
<1>4. QED BY <1>2, <1>3 DEF Consistent

LEMMA CompletedConsistent ==
    ASSUME WorldTyped, NEW m \in Snapshots, NEW s, Consistent(s),
           Active(s, Len(s.sessions))
    PROVE  Consistent(Completed(s, m, Len(s.sessions)))
<1> DEFINE t == Completed(s, m, Len(s.sessions))
           n == Len(s.sessions)
           old == s.sessions[n]
           ivs == s.intervals[n]
           total == Total(ivs, MeterEnergy(old.first, m.kwh))
           new == [old EXCEPT !.status = "COMPLETED", !.last = m.kwh,
                              !.total = total, !.upTo = energy]
<1>1. Typed(s) /\ n \in 1 .. n /\ OpenIsLast(s) /\ AllSound(s)
  BY DEF Consistent, Active
<1>2. /\ t.sessions = [s.sessions EXCEPT ![n] = new]
      /\ t.intervals = s.intervals
      /\ t.runtime = [connected |-> FALSE, meter |-> m.kwh, at |-> now, read |-> energy]
      /\ t \in [runtime : {t.runtime}, sessions : {t.sessions}, intervals : {t.intervals}]
  BY <1>1, Parts DEF Typed, Completed
<1>3. old \in SessionTypes /\ ivs \in Seq(IntervalTypes) /\ total \in Totals
  BY <1>1, Parts, SnapshotTyped, MeterEnergyTyped, TotalTyped DEF SessionTypes
<1>4. /\ new \in SessionTypes
      /\ new.status = "COMPLETED" /\ new.start = old.start /\ new.first = old.first
      /\ new.last = m.kwh /\ new.total = total /\ new.drawn = old.drawn /\ new.upTo = energy
  BY <1>3, SnapshotTyped DEF SessionTypes, WorldTyped, Readings
<1>5. t.runtime \in RuntimeTypes /\ IsPast(t.runtime)
  BY <1>2, SnapshotTyped DEF RuntimeTypes, WorldTyped, Readings, IsPast
<1> HIDE DEF t, new
<1>6. /\ t.sessions \in Seq(SessionTypes) /\ Len(t.sessions) = n
      /\ t.sessions[n] = new
      /\ \A k \in 1 .. n : k # n => t.sessions[k] = s.sessions[k]
  BY <1>1, <1>2, <1>4, Parts, ExceptSeq
<1>7. Typed(t)
  BY <1>1, <1>2, <1>5, <1>6, Parts DEF Typed
<1>8. Sound(new, ivs)
  <2>1. Sound(old, ivs)
    BY <1>1 DEF AllSound
  <2>2. TimeOrder(new, ivs)
    BY <1>4, <2>1 DEF Sound, TimeOrder
  <2>3. EnergyOrder(new, ivs)
    <3>1. energy <= energy
      BY DEF WorldTyped
    <3>2. QED BY <1>4, <2>1, <3>1 DEF Sound, EnergyOrder
  <2>4. TotalAgrees(new, ivs)
    BY <1>4 DEF TotalAgrees
  <2>5. QED BY <2>2, <2>3, <2>4 DEF Sound
<1>9. QED BY <1>2, <1>4, <1>5, <1>6, <1>7, <1>8, ChangedConsistent DEF t

\* What a pass may do to the memory, whatever becomes of its transaction: the
\* sampler goes on from now, and the meter is read anew, or neither.
Advances(old, memory) ==
    /\ memory \in RuntimeTypes
    /\ old.connected # None => memory.connected # None
    /\ memory.at \in {old.at, now}
    /\ \/ memory.meter = old.meter /\ memory.read = old.read
       \/ memory.meter \in {None, register} /\ memory.read = energy

LEMMA ReadAnewAdvances ==
    ASSUME WorldTyped, NEW old, NEW b \in BOOLEAN, NEW m \in Snapshots
    PROVE  Advances(old, [connected |-> b, meter |-> m.kwh, at |-> now, read |-> energy])
<1> DEFINE memory == [connected |-> b, meter |-> m.kwh, at |-> now, read |-> energy]
<1>1. memory \in RuntimeTypes
  BY SnapshotTyped DEF RuntimeTypes, Readings, WorldTyped
<1>2. /\ memory.connected # None /\ memory.at = now
      /\ memory.meter \in {None, register} /\ memory.read = energy
  BY SnapshotTyped, NoneDiffers
<1>3. QED BY <1>1, <1>2 DEF Advances

LEMMA AdvancedGoesOn ==
    ASSUME WorldTyped, NEW old \in RuntimeTypes, NEW memory, Advances(old, memory),
           NEW session \in SessionTypes, NEW ivs \in Seq(IntervalTypes),
           Sound(session, ivs), GoesOn(old, session, ivs)
    PROVE  GoesOn(memory, session, ivs)
<1>1. /\ session.upTo = None /\ memory.connected # None /\ memory.at # None
  BY NoneDiffers DEF Advances, GoesOn, WorldTyped
<1>2. /\ session.start <= memory.at
      /\ \A i \in 1 .. Len(ivs) : ivs[i].end <= memory.at
  BY DEF Advances, GoesOn, Sound, TimeOrder
<1>3. memory.meter # None => session.drawn <= memory.read
  BY DEF Advances, GoesOn, Sound, EnergyOrder
<1>4. ASSUME memory.meter # None, NEW i \in 1 .. Len(ivs), ivs[i].measured
      PROVE  ivs[i].upTo <= memory.read
  BY <1>4 DEF Advances, GoesOn, Sound, EnergyOrder
<1>5. QED BY <1>1, <1>2, <1>3, <1>4 DEF GoesOn

LEMMA AdvancedIsPast ==
    ASSUME WorldTyped, NEW old \in RuntimeTypes, IsPast(old),
           NEW memory, Advances(old, memory)
    PROVE  IsPast(memory)
<1>1. memory.at # None => memory.at <= now
  BY DEF Advances, IsPast, WorldTyped
<1>2. memory.read <= energy
  BY DEF Advances, IsPast, WorldTyped
<1>3. memory.meter # None => register + memory.read <= energy + memory.meter
  BY DEF Advances, IsPast, WorldTyped
<1>4. QED BY <1>1, <1>2, <1>3 DEF IsPast

LEMMA AdvancedConsistent ==
    ASSUME WorldTyped, NEW s, Consistent(s), NEW t, Typed(t),
           t.sessions = s.sessions, t.intervals = s.intervals,
           Advances(s.runtime, t.runtime)
    PROVE  Consistent(t)
<1>1. s.runtime \in RuntimeTypes /\ IsPast(s.runtime)
  BY Parts DEF Consistent
<1>2. IsPast(t.runtime)
  BY <1>1, AdvancedIsPast
<1>3. \A session \in SessionTypes, ivs \in Seq(IntervalTypes) :
         Sound(session, ivs) /\ GoesOn(s.runtime, session, ivs)
            => GoesOn(t.runtime, session, ivs)
  BY <1>1, AdvancedGoesOn
<1>4. QED BY <1>2, <1>3, MemoryConsistent

LEMMA ProcessedConsistent ==
    ASSUME WorldTyped, NEW m \in Snapshots, NEW s, Consistent(s)
    PROVE  /\ Consistent(ProcessCharger(s, m))
           /\ Advances(s.runtime, ProcessCharger(s, m).runtime)
           /\ ProcessCharger(s, m).runtime.connected = connected
           /\ MemoryFollows(s) => MemoryFollows(ProcessCharger(s, m))
<1> DEFINE t == ProcessCharger(s, m)
           n == Len(s.sessions)
           none == \A k \in 1 .. n : ~Active(s, k)
<1>1. /\ Typed(s) /\ OpenIsLast(s)
      /\ s.runtime \in RuntimeTypes
      /\ m.connected = connected /\ connected \in BOOLEAN
      /\ m.kwh \in {None, register} /\ m.kwh \in Readings
  BY Parts, SnapshotTyped DEF Consistent
<1>2. \/ ActiveOf(s.sessions) = None /\ none
      \/ ActiveOf(s.sessions) = n /\ ActiveOf(s.sessions) # None /\ Active(s, n)
  BY <1>1, ActiveIsLast, Parts, NoneDiffers
<1>3. CASE m.connected /\ s.runtime.connected # TRUE /\ ActiveOf(s.sessions) = None
  <2>1. t = Opened(s, m)
    BY <1>3 DEF ProcessCharger
  <2>2. none
    BY <1>1, <1>2, <1>3, Parts, NoneDiffers DEF Active
  <2>3. Consistent(Opened(s, m))
    BY <2>2, OpenedConsistent
  <2>4. /\ Opened(s, m).runtime =
              [connected |-> TRUE, meter |-> m.kwh, at |-> now, read |-> energy]
        /\ Opened(s, m).sessions =
              Append(s.sessions,
                     [status |-> "ACTIVE", start |-> now, first |-> m.kwh, last |-> None,
                      total |-> None, drawn |-> energy, upTo |-> None])
    BY <1>1 DEF Opened, Typed
  <2>5. Advances(s.runtime, Opened(s, m).runtime)
    BY <2>4, ReadAnewAdvances
  <2>6. Active(Opened(s, m), n + 1)
    <3>1. Typed(Opened(s, m)) /\ n \in Nat
      BY <1>1, <2>3, Parts DEF Consistent
    <3>2. Len(Opened(s, m).sessions) = n + 1
      BY <1>1, <2>4, <3>1, Parts DEF Active
    <3>3. Opened(s, m).sessions[n + 1].status = "ACTIVE"
      BY <1>1, <2>4, <3>1, Parts
    <3>4. QED BY <3>1, <3>2, <3>3 DEF Active
  <2>7. MemoryFollows(Opened(s, m))
    BY <2>4, <2>6 DEF MemoryFollows, Active
  <2>8. QED BY <1>1, <1>3, <2>1, <2>3, <2>4, <2>5, <2>7
<1>4. CASE ~m.connected /\ s.runtime.connected = TRUE /\ ActiveOf(s.sessions) # None
  <2>1. t = Completed(s, m, n) /\ Active(s, n)
    BY <1>2, <1>4 DEF ProcessCharger
  <2>2. Consistent(Completed(s, m, n))
    BY <2>1, CompletedConsistent
  <2>3. /\ Completed(s, m, n).runtime =
              [connected |-> FALSE, meter |-> m.kwh, at |-> now, read |-> energy]
        /\ Len(Completed(s, m, n).sessions) = n
        /\ \A k \in 1 .. n : Completed(s, m, n).sessions[k].status
              = IF k = n THEN "COMPLETED" ELSE s.sessions[k].status
    BY <1>1, Parts DEF Completed, Typed, SessionTypes
  <2>4. Advances(s.runtime, Completed(s, m, n).runtime)
    BY <2>3, ReadAnewAdvances
  <2>5. \A k \in 1 .. n : ~Active(Completed(s, m, n), k)
    BY <1>1, <2>3 DEF Active, OpenIsLast
  <2>6. MemoryFollows(Completed(s, m, n))
    BY <2>3, <2>5 DEF MemoryFollows
  <2>7. Completed(s, m, n).runtime.connected = connected
    <3>1. connected = FALSE
      BY <1>1, <1>4
    <3>2. Completed(s, m, n).runtime.connected = FALSE
      BY <2>3
    <3>3. QED BY <3>1, <3>2
  <2> HIDE DEF n
  <2>8. QED BY <2>1, <2>2, <2>4, <2>6, <2>7
<1>5. CASE /\ ~(m.connected /\ s.runtime.connected # TRUE /\ ActiveOf(s.sessions) = None)
           /\ ~(~m.connected /\ s.runtime.connected = TRUE /\ ActiveOf(s.sessions) # None)
  <2>1. t = [s EXCEPT !.runtime.connected = m.connected]
    BY <1>5 DEF ProcessCharger
  <2>2. /\ t.runtime = [s.runtime EXCEPT !.connected = m.connected]
        /\ t.sessions = s.sessions /\ t.intervals = s.intervals
        /\ t.runtime \in RuntimeTypes
        /\ Typed(t)
    BY <1>1, <2>1 DEF Typed, RuntimeTypes
  <2>3. Advances(s.runtime, t.runtime) /\ t.runtime.connected = connected
    BY <1>1, <2>2, NoneDiffers DEF Advances, RuntimeTypes
  <2> HIDE DEF t
  <2>4. Consistent(t)
    BY <2>2, <2>3, AdvancedConsistent
  <2>5. \A k : Active(t, k) <=> Active(s, k)
    BY <2>2 DEF Active
  <2>6. MemoryFollows(s) => MemoryFollows(t)
    <3>1. s.runtime.connected = None => none
      BY <1>1 DEF Active, OpenIsLast, GoesOn
    <3>2. connected = TRUE \/ connected = FALSE
      BY <1>1
    <3>3. (\E k \in 1 .. n : Active(s, k)) <=> ActiveOf(s.sessions) # None
      BY <1>2 DEF Active
    <3>4. s.runtime.connected \in {TRUE, FALSE, None}
      BY <1>1 DEF RuntimeTypes
    <3>5. QED BY <1>1, <1>5, <2>2, <2>3, <2>5, <3>1, <3>2, <3>3, <3>4 DEF MemoryFollows
  <2>7. QED BY <2>3, <2>4, <2>6 DEF t
<1>6. QED BY <1>3, <1>4, <1>5

-----------------------------------------------------------------------------
(* sample_active.                                                          *)

\* An interval is an amount of energy over some time.
LEMMA ChargedTyped ==
    ASSUME WorldTyped, NEW m \in Snapshots, NEW ev \in Nat, NEW s, Typed(s),
           NEW start \in Nat, start < now
    PROVE  ChargedSince(start, s, m, ev) \in Nat
<1>1. /\ s.runtime.meter \in Readings /\ m.kwh \in Readings /\ m.power \in Nat
  BY Parts, SnapshotTyped DEF RuntimeTypes
<1>2. CASE Measured(s, m)
  BY <1>1, <1>2 DEF ChargedSince, Measured, Readings
<1>3. CASE ~Measured(s, m)
  <2>1. now - start \in Nat /\ (IF m.power > 0 THEN m.power ELSE ev) \in Nat
    BY <1>1 DEF WorldTyped
  <2>2. \A a, b \in Nat : a * b \in Nat
    OBVIOUS
  <2>3. QED BY <1>3, <2>1, <2>2 DEF ChargedSince
<1>4. QED BY <1>2, <1>3

LEMMA BookedConsistent ==
    ASSUME WorldTyped, NEW m \in Snapshots, NEW ev \in Nat, NEW s, Consistent(s),
           Active(s, Len(s.sessions)),
           NEW start, start = s.runtime.at, start < now
    PROVE  LET t == Booked(s, m, Len(s.sessions), start, ChargedSince(start, s, m, ev))
           IN  /\ Consistent(t)
               /\ Advances(s.runtime, t.runtime)
               /\ t.runtime.connected = s.runtime.connected
               /\ MemoryFollows(s) => MemoryFollows(t)
<1> DEFINE n == Len(s.sessions)
           old == s.sessions[n]
           ivs == s.intervals[n]
           kwh == ChargedSince(start, s, m, ev)
           iv == [start |-> start, end |-> now, kwh |-> kwh, measured |-> Measured(s, m),
                  from |-> s.runtime.read, upTo |-> energy]
           new == [old EXCEPT !.total = Total(Append(ivs, iv), None)]
           t == Booked(s, m, n, start, kwh)
<1>1. /\ Typed(s) /\ n \in 1 .. n /\ OpenIsLast(s) /\ AllSound(s) /\ IsPast(s.runtime)
      /\ old.status = "ACTIVE"
  BY DEF Consistent, Active
<1>2. /\ old \in SessionTypes /\ ivs \in Seq(IntervalTypes)
      /\ s.runtime \in RuntimeTypes
      /\ Sound(old, ivs) /\ GoesOn(s.runtime, old, ivs)
  BY <1>1, Parts DEF AllSound, OpenIsLast
<1>3. start \in Nat
  BY <1>2 DEF GoesOn, RuntimeTypes, Readings
<1>4. iv \in IntervalTypes
  <2>1. kwh \in Nat
    BY <1>1, <1>3, ChargedTyped
  <2>2. Measured(s, m) \in BOOLEAN
    BY DEF Measured
  <2>3. s.runtime.read \in Nat
    BY <1>2 DEF RuntimeTypes
  <2> HIDE DEF kwh
  <2>4. QED BY <1>3, <2>1, <2>2, <2>3 DEF IntervalTypes, WorldTyped
<1>5. /\ iv.start = start /\ iv.end = now /\ iv.kwh = kwh
      /\ iv.measured = Measured(s, m) /\ iv.from = s.runtime.read /\ iv.upTo = energy
  OBVIOUS
<1>6. /\ t.sessions = [s.sessions EXCEPT ![n] = new]
      /\ t.intervals = [s.intervals EXCEPT ![n] = Append(ivs, iv)]
      /\ t.runtime = [s.runtime EXCEPT !.meter = m.kwh, !.at = now, !.read = energy]
      /\ t \in [runtime : {t.runtime}, sessions : {t.sessions}, intervals : {t.intervals}]
  BY <1>1, Parts DEF Typed, Booked
<1> HIDE DEF t, iv
<1>7. /\ Append(ivs, iv) \in Seq(IntervalTypes)
      /\ Len(ivs) \in Nat /\ Len(Append(ivs, iv)) = Len(ivs) + 1
      /\ \A i \in 1 .. Len(ivs) : Append(ivs, iv)[i] = ivs[i]
      /\ Append(ivs, iv)[Len(ivs) + 1] = iv
  BY <1>2, <1>4, AppendProperties, LenProperties
<1>8. Total(Append(ivs, iv), None) \in Totals
  BY <1>7, TotalTyped DEF Readings
<1>9. /\ new \in SessionTypes
      /\ new.status = "ACTIVE" /\ new.start = old.start /\ new.drawn = old.drawn
      /\ new.upTo = old.upTo /\ new.total = Total(Append(ivs, iv), None)
  BY <1>1, <1>2, <1>8 DEF SessionTypes
<1>10. /\ t.runtime = [connected |-> s.runtime.connected, meter |-> m.kwh, at |-> now,
                       read |-> energy]
       /\ s.runtime.connected \in BOOLEAN
  BY <1>2, <1>6 DEF GoesOn, RuntimeTypes
<1>11. Advances(s.runtime, t.runtime)
  BY <1>10, ReadAnewAdvances
<1>12. IsPast(t.runtime) /\ t.runtime \in RuntimeTypes
  BY <1>1, <1>2, <1>11, AdvancedIsPast DEF Advances
<1> HIDE DEF new
<1>13. /\ t.sessions \in Seq(SessionTypes) /\ Len(t.sessions) = n
       /\ t.sessions[n] = new
       /\ \A k \in 1 .. n : k # n => t.sessions[k] = s.sessions[k]
  BY <1>1, <1>6, <1>9, Parts, ExceptSeq
<1>14. /\ t.intervals \in Seq(Seq(IntervalTypes)) /\ Len(t.intervals) = n
       /\ t.intervals[n] = Append(ivs, iv)
       /\ \A k \in 1 .. n : k # n => t.intervals[k] = s.intervals[k]
  <2>1. /\ s.intervals \in Seq(Seq(IntervalTypes)) /\ Len(s.intervals) = n
    BY <1>1, Parts
  <2>2. QED BY <1>1, <1>6, <1>7, <2>1, ExceptSeq
<1>15. Typed(t)
  BY <1>6, <1>12, <1>13, <1>14 DEF Typed
<1> DEFINE app == Append(ivs, iv)
<1>16. \A i \in 1 .. Len(app) :
          \/ i \in 1 .. Len(ivs) /\ app[i] = ivs[i]
          \/ i = Len(ivs) + 1 /\ app[i] = iv
  BY <1>7, Indices
<1>17. \A i, j \in 1 .. Len(app) : i < j => i \in 1 .. Len(ivs) /\ app[i] = ivs[i]
  BY <1>7, Indices
<1>18. /\ \A i \in 1 .. Len(ivs) : ivs[i] \in IntervalTypes /\ ivs[i].end \in Nat
                                  /\ ivs[i].upTo \in Nat
       /\ old.start \in Nat /\ old.drawn \in Nat
       /\ energy \in Nat /\ now \in Nat /\ energy <= energy /\ now <= now
  <2>1. \A i \in 1 .. Len(ivs) : ivs[i] \in IntervalTypes
    BY <1>2, ElementOfSeq
  <2>2. old.start \in Nat /\ old.drawn \in Nat
    BY <1>2 DEF SessionTypes
  <2>3. energy \in Nat /\ now \in Nat /\ energy <= energy /\ now <= now
    BY DEF WorldTyped
  <2> HIDE DEF ivs, old
  <2>4. QED BY <2>1, <2>2, <2>3 DEF IntervalTypes
<1>19. TimeOrder(new, app)
  <2>1. TimeOrder(old, ivs) /\ old.start <= start
        /\ \A i \in 1 .. Len(ivs) : ivs[i].end <= start
    BY <1>2 DEF Sound, GoesOn
  <2> HIDE DEF app, ivs, old, kwh
  <2>2. QED BY <1>5, <1>9, <1>16, <1>17, <1>18, <2>1 DEF TimeOrder
<1>20. EnergyOrder(new, app)
  <2>1. EnergyOrder(old, ivs) /\ old.upTo = None
    BY <1>2 DEF Sound, GoesOn
  <2>2. ASSUME iv.measured
        PROVE  /\ old.drawn <= iv.from
               /\ iv.from + iv.kwh <= iv.upTo
               /\ \A i \in 1 .. Len(ivs) : ivs[i].measured => ivs[i].upTo <= iv.from
    <3>1. s.runtime.meter # None /\ m.kwh # None /\ m.kwh > s.runtime.meter
          /\ kwh = m.kwh - s.runtime.meter
      BY <1>5, <2>2 DEF Measured, ChargedSince
    <3>2. s.runtime.meter \in Nat /\ s.runtime.read \in Nat /\ m.kwh = register
      BY <1>2, <3>1, SnapshotTyped DEF RuntimeTypes, Readings
    <3>3. register + s.runtime.read <= energy + s.runtime.meter
      BY <1>1, <3>1 DEF IsPast
    <3>4. s.runtime.read + kwh <= energy
      BY <3>1, <3>2, <3>3 DEF WorldTyped
    <3>5. QED BY <1>2, <1>5, <3>1, <3>4 DEF GoesOn
  <2> HIDE DEF app, ivs, old, kwh
  <2>3. QED BY <1>5, <1>9, <1>16, <1>17, <1>18, <2>1, <2>2 DEF EnergyOrder
<1>21. TotalAgrees(new, app)
  BY <1>9 DEF TotalAgrees
<1>22. GoesOn(t.runtime, new, app)
  <2>1. Sound(new, app)
    BY <1>19, <1>20, <1>21 DEF Sound
  <2>2. new.upTo = None
    BY <1>2, <1>9 DEF GoesOn
  <2>3. t.runtime.connected # None /\ t.runtime.at = now /\ t.runtime.read = energy
    BY <1>10, NoneDiffers
  <2>4. now # None
    BY <1>18, NoneDiffers
  <2> HIDE DEF app
  <2>5. QED BY <2>1, <2>2, <2>3, <2>4 DEF GoesOn, Sound, TimeOrder, EnergyOrder
<1>23. Consistent(t)
  <2>1. Sound(t.sessions[n], t.intervals[n])
    BY <1>13, <1>14, <1>19, <1>20, <1>21 DEF Sound
  <2>2. GoesOn(t.runtime, t.sessions[n], t.intervals[n])
    BY <1>13, <1>14, <1>22
  <2>3. t.sessions[n].start = s.sessions[n].start
    BY <1>9, <1>13
  <2>4. QED BY <1>12, <1>13, <1>14, <1>15, <2>1, <2>2, <2>3, ChangedConsistent
<1>24. MemoryFollows(s) => MemoryFollows(t)
  <2>1. \A k : Active(t, k) <=> Active(s, k)
    BY <1>1, <1>9, <1>13 DEF Active
  <2>2. QED BY <1>10, <1>13, <2>1 DEF MemoryFollows
<1>25. QED BY <1>10, <1>11, <1>23, <1>24 DEF t

LEMMA SampledConsistent ==
    ASSUME WorldTyped, NEW m \in Snapshots, NEW ev \in Nat, NEW s, Consistent(s)
    PROVE  LET t == SampleActive(s, m, ev)
           IN  /\ Consistent(t)
               /\ Advances(s.runtime, t.runtime)
               /\ t.runtime.connected = s.runtime.connected
               /\ MemoryFollows(s) => MemoryFollows(t)
<1> DEFINE t == SampleActive(s, m, ev)
           n == Len(s.sessions)
           k == ActiveOf(s.sessions)
           start == IF s.runtime.at # None THEN s.runtime.at ELSE s.sessions[k].start
           kwh == ChargedSince(start, s, m, ev)
<1>1. /\ Typed(s) /\ OpenIsLast(s) /\ s.runtime \in RuntimeTypes
      /\ n \in Nat
  BY Parts DEF Consistent
<1>2. Advances(s.runtime, s.runtime)
  BY <1>1 DEF Advances
<1>3. CASE k = None \/ start >= now
  BY <1>2, <1>3 DEF SampleActive
<1>4. CASE ~(k = None \/ start >= now)
  <2>1. k = n /\ Active(s, n)
    BY <1>1, <1>4, ActiveIsLast
  <2>2. s.runtime.at # None /\ s.runtime.at \in Nat
    BY <1>1, <2>1 DEF Active, OpenIsLast, GoesOn, RuntimeTypes, Readings
  <2>3. start = s.runtime.at /\ start < now
    BY <1>4, <2>2 DEF WorldTyped
  <2> HIDE DEF start
  <2>4. CASE kwh = 0
    <3>1. t = [s EXCEPT !.runtime.at = now]
      BY <1>4, <2>4 DEF SampleActive, start
    <3>2. /\ t.runtime = [s.runtime EXCEPT !.at = now]
          /\ t.sessions = s.sessions /\ t.intervals = s.intervals
          /\ t.runtime \in RuntimeTypes
          /\ Typed(t)
      BY <1>1, <3>1 DEF Typed, RuntimeTypes, Readings, WorldTyped
    <3>3. /\ t.runtime.connected = s.runtime.connected /\ t.runtime.at = now
          /\ t.runtime.meter = s.runtime.meter /\ t.runtime.read = s.runtime.read
      BY <1>1, <3>2 DEF RuntimeTypes
    <3> HIDE DEF t
    <3>4. Advances(s.runtime, t.runtime)
      BY <3>2, <3>3 DEF Advances
    <3>5. Consistent(t)
      BY <3>2, <3>4, AdvancedConsistent
    <3>6. MemoryFollows(s) => MemoryFollows(t)
      BY <3>2, <3>3 DEF MemoryFollows, Active
    <3>7. QED BY <3>3, <3>4, <3>5, <3>6 DEF t
  <2>5. CASE kwh # 0
    <3>1. t = Booked(s, m, n, start, kwh)
      BY <1>4, <2>1, <2>5 DEF SampleActive, start
    <3>2. QED BY <2>1, <2>3, <3>1, BookedConsistent
  <2>6. QED BY <2>4, <2>5
<1>5. QED BY <1>3, <1>4

-----------------------------------------------------------------------------
(* A whole pass, and the memory a restart makes up.                        *)

LEMMA AdvancesTwice ==
    ASSUME NEW a, NEW b, NEW c, Advances(a, b), Advances(b, c)
    PROVE  Advances(a, c)
BY DEF Advances

LEMMA PassConsistent ==
    ASSUME AccountingInv, NEW m \in Snapshots, NEW ev \in Overviews
    PROVE  /\ Consistent(Processed(m)) /\ Consistent(Sampled(m, ev))
           /\ Advances(runtime, Processed(m).runtime)
           /\ Advances(runtime, Sampled(m, ev).runtime)
           /\ ~rolledBack => MemoryFollows(Sampled(m, ev))
<1>1. /\ WorldTyped /\ Consistent(Before) /\ Before.runtime = runtime
      /\ ~rolledBack => MemoryFollows(Before)
  BY DEF AccountingInv, Before
<1>2. /\ Consistent(Processed(m))
      /\ Advances(runtime, Processed(m).runtime)
      /\ ~rolledBack => MemoryFollows(Processed(m))
  BY <1>1, ProcessedConsistent DEF Processed
<1>3. CASE ev = None
  BY <1>2, <1>3 DEF Sampled
<1>4. CASE ev # None
  <2>1. ev \in Nat
    BY <1>4 DEF Overviews, Power
  <2>2. Sampled(m, ev) = SampleActive(Processed(m), m, ev)
    BY <1>4 DEF Sampled
  <2>3. /\ Consistent(Sampled(m, ev))
        /\ Advances(Processed(m).runtime, Sampled(m, ev).runtime)
        /\ ~rolledBack => MemoryFollows(Sampled(m, ev))
    BY <1>1, <1>2, <2>1, <2>2, SampledConsistent
  <2>4. QED BY <1>2, <2>3, AdvancesTwice
<1>5. QED BY <1>3, <1>4

\* The anchor of an open session is past all its intervals.
LEMMA AnchorIsLast ==
    ASSUME Typed(Before), NEW k \in 1 .. Len(sessions), Sound(sessions[k], intervals[k]),
           WorldTyped
    PROVE  /\ Anchor(k) \in Nat
           /\ sessions[k].start <= Anchor(k) /\ Anchor(k) <= now
           /\ \A i \in 1 .. Len(intervals[k]) : intervals[k][i].end <= Anchor(k)
<1> DEFINE ivs == intervals[k]
           ends == {ivs[i].end : i \in DOMAIN ivs}
           n == Len(ivs)
<1>1. /\ sessions[k] \in SessionTypes /\ ivs \in Seq(IntervalTypes)
      /\ n \in Nat /\ DOMAIN ivs = 1 .. n
      /\ \A i \in 1 .. n : ivs[i] \in IntervalTypes
  <2>1. Before.sessions = sessions /\ Before.intervals = intervals
    BY DEF Before
  <2>2. QED BY <2>1, Parts
<1>2. /\ sessions[k].start \in Nat
      /\ \A i \in 1 .. n : ivs[i].start \in Nat /\ ivs[i].end \in Nat
  BY <1>1 DEF SessionTypes, IntervalTypes
<1>3. /\ sessions[k].start <= now
      /\ \A i \in 1 .. n : sessions[k].start <= ivs[i].start
                             /\ ivs[i].start < ivs[i].end /\ ivs[i].end <= now
      /\ \A i, j \in 1 .. n : i < j => ivs[i].end <= ivs[j].start
  BY DEF Sound, TimeOrder
<1> HIDE DEF ivs
<1>4. CASE n = 0
  <2>1. Anchor(k) = sessions[k].start
    BY <1>1, <1>4 DEF Anchor, ivs
  <2>2. QED BY <1>2, <1>3, <1>4, <2>1 DEF ivs, WorldTyped
<1>5. CASE n # 0
  <2>1. n \in 1 .. n /\ ivs[n].end \in ends
    BY <1>1, <1>5
  <2>2. \A i \in 1 .. n : ivs[i].end <= ivs[n].end
    <3>1. ASSUME NEW i \in 1 .. n, i # n PROVE ivs[i].end <= ivs[n].end
      <4>1. i < n
        <5>1. \A a \in Nat : \A b \in 1 .. a : b # a => b < a
          OBVIOUS
        <5>2. QED BY <1>1, <3>1, <5>1
      <4>2. ivs[i].end <= ivs[n].start /\ ivs[n].start < ivs[n].end
        BY <1>3, <2>1, <4>1
      <4>3. QED BY <1>2, <2>1, <4>2
    <3>2. QED BY <1>2, <2>1, <3>1
  <2>3. \A u \in ends : u <= ivs[n].end
    BY <1>1, <2>2
  <2>4. Anchor(k) = CHOOSE t \in ends : \A u \in ends : u <= t
    BY <2>1 DEF Anchor, ivs
  <2>5. Anchor(k) \in ends /\ \A u \in ends : u <= Anchor(k)
    BY <2>1, <2>3, <2>4
  <2>6. PICK i \in 1 .. n : Anchor(k) = ivs[i].end
    BY <1>1, <2>5
  <2>7. sessions[k].start <= ivs[i].end
    BY <1>2, <1>3
  <2>8. \A j \in 1 .. n : ivs[j].end <= Anchor(k)
    BY <1>1, <2>5
  <2>9. QED BY <1>2, <1>3, <2>6, <2>7, <2>8 DEF ivs
<1>6. QED BY <1>4, <1>5

LEMMA ResumedConsistent ==
    ASSUME AccountingInv, NEW t, t = [Before EXCEPT !.runtime = Resumed]
    PROVE  Consistent(t) /\ MemoryFollows(t)
<1> DEFINE n == Len(sessions)
           k == ActiveOf(sessions)
<1>1. /\ WorldTyped /\ Consistent(Before) /\ Typed(Before)
      /\ OpenIsLast(Before) /\ AllSound(Before)
      /\ Before.sessions = sessions /\ Before.intervals = intervals
      /\ Before.runtime = runtime
  BY DEF AccountingInv, Consistent, Before
<1>2. t.sessions = sessions /\ t.intervals = intervals /\ t.runtime = Resumed
  BY DEF Before
<1>3. \/ k = None /\ \A l \in 1 .. n : ~Active(Before, l)
      \/ k = n /\ k # None /\ Active(Before, n)
  BY <1>1, ActiveIsLast, Parts, NoneDiffers
<1>4. Resumed \in RuntimeTypes => Typed(t)
  BY <1>1, <1>2 DEF Typed, Before
<1>5. CASE k = None
  <2>1. Resumed = Blank
    BY <1>5 DEF Resumed
  <2>2. Blank \in RuntimeTypes
    BY DEF Blank, RuntimeTypes, Readings
  <2>3. IsPast(Blank)
    BY DEF Blank, IsPast, WorldTyped, AccountingInv
  <2>4. \A l \in 1 .. n : sessions[l].status # "ACTIVE"
    BY <1>1, <1>3, <1>5 DEF Active
  <2>5. OpenIsLast(t)
    BY <1>2, <2>4 DEF OpenIsLast
  <2>6. AllSound(t) /\ SessionOrder(t)
    BY <1>1, <1>2 DEF AllSound, SessionOrder, Consistent
  <2>7. MemoryFollows(t)
    BY <1>2, <2>1 DEF MemoryFollows, Blank
  <2>8. QED BY <1>2, <1>4, <2>1, <2>2, <2>3, <2>5, <2>6, <2>7 DEF Consistent
<1>6. CASE k # None
  <2>1. k = n /\ n \in 1 .. n /\ sessions[n].status = "ACTIVE"
    BY <1>1, <1>3, <1>6 DEF Active
  <2>2. Resumed = [connected |-> TRUE, meter |-> None, at |-> Anchor(n), read |-> 0]
    BY <1>6, <2>1 DEF Resumed
  <2>3. /\ Sound(sessions[n], intervals[n]) /\ sessions[n].upTo = None
    BY <1>1, <2>1 DEF AllSound, OpenIsLast, GoesOn
  <2>4. /\ Anchor(n) \in Nat
        /\ sessions[n].start <= Anchor(n) /\ Anchor(n) <= now
        /\ \A i \in 1 .. Len(intervals[n]) : intervals[n][i].end <= Anchor(n)
    BY <1>1, <2>1, <2>3, AnchorIsLast
  <2>5. Resumed \in RuntimeTypes
    BY <2>2, <2>4 DEF RuntimeTypes, Readings
  <2>6. IsPast(Resumed)
    BY <1>1, <2>2, <2>4 DEF IsPast, WorldTyped
  <2>7. GoesOn(Resumed, sessions[n], intervals[n])
    BY <2>2, <2>3, <2>4, NoneDiffers DEF GoesOn
  <2>8. OpenIsLast(t)
    BY <1>1, <1>2, <2>7 DEF OpenIsLast
  <2>9. AllSound(t) /\ SessionOrder(t)
    BY <1>1, <1>2 DEF AllSound, SessionOrder, Consistent
  <2>10. MemoryFollows(t)
    BY <1>2, <2>1, <2>2 DEF MemoryFollows, Active
  <2>11. QED BY <1>2, <1>4, <2>5, <2>6, <2>8, <2>9, <2>10 DEF Consistent
<1>7. QED BY <1>5, <1>6

-----------------------------------------------------------------------------
(* The invariant is inductive.                                             *)

LEMMA InitConsistent == AccountingInit => AccountingInv
<1> SUFFICES ASSUME AccountingInit PROVE AccountingInv
  OBVIOUS
<1> USE DEF AccountingInit
<1>1. /\ Before.sessions = <<>> /\ Before.intervals = <<>> /\ Before.runtime = Blank
      /\ Len(<<>>) = 0 /\ 1 .. 0 = {}
  BY DEF Before
<1>2. Blank \in RuntimeTypes /\ IsPast(Blank) /\ Blank.connected = None
  BY DEF Blank, RuntimeTypes, Readings, IsPast
<1>3. Typed(Before)
  BY <1>2 DEF Before, Typed
<1>4. OpenIsLast(Before) /\ SessionOrder(Before) /\ AllSound(Before)
  BY <1>1 DEF OpenIsLast, SessionOrder, AllSound
<1>5. MemoryFollows(Before)
  BY <1>1, <1>2 DEF MemoryFollows
<1>6. WorldTyped
  BY DEF WorldTyped
<1>7. QED BY <1>1, <1>2, <1>3, <1>4, <1>5, <1>6 DEF AccountingInv, Consistent

\* Time goes by and energy is drawn.
LEMMA LaterSound ==
    ASSUME WorldTyped, WorldTyped', now <= now', energy <= energy',
           NEW session \in SessionTypes, NEW ivs \in Seq(IntervalTypes), Sound(session, ivs)
    PROVE  Sound(session, ivs)'
<1>1. /\ now \in Nat /\ now' \in Nat /\ energy \in Nat /\ energy' \in Nat
      /\ session.start \in Nat /\ session.drawn \in Nat
      /\ session.upTo \in Nat \/ session.upTo = None
  BY DEF WorldTyped, SessionTypes, Readings
<1>2. \A i \in 1 .. Len(ivs) : ivs[i].end \in Nat /\ ivs[i].upTo \in Nat
  <2>1. \A i \in 1 .. Len(ivs) : ivs[i] \in IntervalTypes
    BY ElementOfSeq
  <2>2. QED BY <2>1 DEF IntervalTypes
<1>3. TimeOrder(session, ivs)'
  BY <1>1, <1>2 DEF Sound, TimeOrder
<1>4. EnergyOrder(session, ivs)'
  BY <1>1, <1>2 DEF Sound, EnergyOrder
<1>5. TotalAgrees(session, ivs)'
  BY DEF Sound, TotalAgrees
<1>6. QED BY <1>3, <1>4, <1>5 DEF Sound

LEMMA LaterConsistent ==
    ASSUME AccountingInv, WorldTyped', now <= now', energy <= energy', IsPast(runtime)',
           UNCHANGED <<runtime, sessions, intervals, rolledBack>>
    PROVE  AccountingInv'
<1>1. /\ Before' = Before
      /\ Before.sessions = sessions /\ Before.intervals = intervals
      /\ Before.runtime = runtime
      /\ WorldTyped
      /\ Typed(Before) /\ OpenIsLast(Before) /\ SessionOrder(Before) /\ AllSound(Before)
      /\ ~rolledBack => MemoryFollows(Before)
  BY DEF AccountingInv, Consistent, Before
<1>2. \A k \in 1 .. Len(sessions) : Sound(sessions[k], intervals[k])'
  <2> SUFFICES ASSUME NEW k \in 1 .. Len(sessions)
               PROVE  Sound(sessions[k], intervals[k])'
    OBVIOUS
  <2>1. /\ sessions[k] \in SessionTypes /\ intervals[k] \in Seq(IntervalTypes)
        /\ Sound(sessions[k], intervals[k])
    BY <1>1, Parts DEF AllSound
  <2>2. QED BY <1>1, <2>1, LaterSound
<1>3. AllSound(Before)'
  BY <1>1, <1>2 DEF AllSound, Before
<1>4. Typed(Before)' /\ OpenIsLast(Before)' /\ SessionOrder(Before)'
  BY <1>1 DEF Typed, OpenIsLast, SessionOrder
<1>5. IsPast(Before.runtime)' /\ (~rolledBack => MemoryFollows(Before))'
  BY <1>1 DEF Before, IsPast, MemoryFollows
<1>6. QED BY <1>3, <1>4, <1>5 DEF AccountingInv, Consistent

LEMMA ElapseConsistent == AccountingInv /\ Elapse => AccountingInv'
<1> SUFFICES ASSUME AccountingInv, Elapse PROVE AccountingInv'
  OBVIOUS
<1>1. PICK draw \in Nat : /\ register' = register + draw /\ energy' = energy + draw
  BY DEF Elapse, Power
<1>2. now' = now + 1 /\ UNCHANGED <<connected, runtime, sessions, intervals, rolledBack>>
  BY DEF Elapse, books
<1>3. WorldTyped
  BY DEF AccountingInv
<1>4. WorldTyped' /\ now <= now' /\ energy <= energy'
  BY <1>1, <1>2, <1>3 DEF WorldTyped
<1>5. runtime \in RuntimeTypes /\ IsPast(runtime)
  BY Parts DEF AccountingInv, Consistent, Before
<1>6. IsPast(runtime)'
  BY <1>1, <1>2, <1>3, <1>5 DEF IsPast, RuntimeTypes, Readings, WorldTyped
<1>7. QED BY <1>2, <1>4, <1>6, LaterConsistent

LEMMA UnplugConsistent == AccountingInv /\ Unplug => AccountingInv'
<1> SUFFICES ASSUME AccountingInv, Unplug PROVE AccountingInv'
  OBVIOUS
<1>1. /\ UNCHANGED <<now, energy, runtime, sessions, intervals, rolledBack>>
      /\ connected' = FALSE
      /\ (register' = 0 \/ register' = register)
  BY DEF Unplug, books
<1>2. WorldTyped
  BY DEF AccountingInv
<1>3. WorldTyped' /\ now <= now' /\ energy <= energy'
  <2>1. now' \in Nat /\ energy' \in Nat /\ register' \in Nat
    BY <1>1, <1>2 DEF WorldTyped
  <2>2. connected' \in BOOLEAN /\ rolledBack' \in BOOLEAN
    BY <1>1, <1>2 DEF WorldTyped
  <2>3. now <= now' /\ energy <= energy'
    BY <1>1, <1>2 DEF WorldTyped
  <2>4. QED BY <2>1, <2>2, <2>3 DEF WorldTyped
<1>4. runtime \in RuntimeTypes /\ IsPast(runtime)
  BY Parts DEF AccountingInv, Consistent, Before
<1>5. IsPast(runtime)'
  BY <1>1, <1>2, <1>4 DEF IsPast, RuntimeTypes, Readings, WorldTyped
<1>6. QED BY <1>1, <1>3, <1>5, LaterConsistent

LEMMA PlugInConsistent == AccountingInv /\ PlugIn => AccountingInv'
<1> SUFFICES ASSUME AccountingInv, PlugIn PROVE AccountingInv'
  OBVIOUS
<1>1. /\ UNCHANGED <<now, energy, register, runtime, sessions, intervals, rolledBack>>
      /\ connected' = TRUE
  BY DEF PlugIn, books
<1>2. WorldTyped
  BY DEF AccountingInv
<1>3. WorldTyped' /\ now <= now' /\ energy <= energy'
  BY <1>1, <1>2 DEF WorldTyped
<1>4. IsPast(runtime)'
  BY <1>1 DEF AccountingInv, Consistent, Before, IsPast
<1>5. QED BY <1>1, <1>3, <1>4, LaterConsistent

\* What the books and the memory say depends on the world only by its values.
LEMMA SameWorld ==
    ASSUME AccountingInv, UNCHANGED <<now, register, energy, connected>>,
           NEW t, Before' = t, Consistent(t), rolledBack' \in BOOLEAN,
           ~rolledBack' => MemoryFollows(t)
    PROVE  AccountingInv'
<1>1. WorldTyped'
  BY DEF AccountingInv, WorldTyped
<1>2. Consistent(t)'
  BY DEF Consistent, Typed, IsPast, OpenIsLast, GoesOn, SessionOrder, AllSound, Sound,
         TimeOrder, EnergyOrder, TotalAgrees
<1>3. QED BY <1>1, <1>2 DEF AccountingInv, MemoryFollows, Active

LEMMA PassKeeps == AccountingInv /\ Pass => AccountingInv'
<1> SUFFICES ASSUME AccountingInv, Pass PROVE AccountingInv'
  OBVIOUS
<1>1. PICK m \in Snapshots, ev \in Overviews :
         /\ runtime' = Sampled(m, ev).runtime
         /\ sessions' = Sampled(m, ev).sessions
         /\ intervals' = Sampled(m, ev).intervals
  BY DEF Pass
<1>2. /\ Consistent(Sampled(m, ev))
      /\ ~rolledBack => MemoryFollows(Sampled(m, ev))
  BY PassConsistent
<1>3. Before' = Sampled(m, ev)
  BY <1>1, <1>2 DEF Before, Consistent, Typed
<1>4. UNCHANGED <<now, register, energy, connected, rolledBack>> /\ rolledBack \in BOOLEAN
  BY DEF Pass, car, AccountingInv, WorldTyped
<1> DEFINE t == Sampled(m, ev)
<1> HIDE DEF t
<1>5. QED BY <1>2, <1>3, <1>4, SameWorld DEF t

LEMMA RolledBackPassKeeps == AccountingInv /\ RolledBackPass => AccountingInv'
<1> SUFFICES ASSUME AccountingInv, RolledBackPass PROVE AccountingInv'
  OBVIOUS
<1>1. PICK m \in Snapshots, ev \in Overviews :
         runtime' \in {runtime, Processed(m).runtime, Sampled(m, ev).runtime}
  BY DEF RolledBackPass
<1>2. /\ UNCHANGED <<now, register, energy, connected, sessions, intervals>>
      /\ rolledBack' = TRUE
  BY DEF RolledBackPass, car, books
<1>3. runtime \in RuntimeTypes /\ Typed(Before) /\ Consistent(Before) /\ WorldTyped
  BY Parts DEF AccountingInv, Consistent, Before
<1>4. Advances(runtime, runtime')
  BY <1>1, <1>3, PassConsistent DEF Advances
<1> DEFINE t == [Before EXCEPT !.runtime = runtime']
<1>5. /\ Typed(t) /\ t.runtime = runtime'
      /\ t.sessions = Before.sessions /\ t.intervals = Before.intervals
      /\ Before.runtime = runtime
  BY <1>3, <1>4 DEF Before, Typed, Advances
<1>6. Before' = t
  BY <1>2 DEF Before
<1> HIDE DEF t
<1>7. Consistent(t)
  BY <1>3, <1>4, <1>5, AdvancedConsistent
<1>8. QED BY <1>2, <1>6, <1>7, SameWorld

LEMMA RestartKeeps == AccountingInv /\ Restart => AccountingInv'
<1> SUFFICES ASSUME AccountingInv, Restart PROVE AccountingInv'
  OBVIOUS
<1> DEFINE t == [Before EXCEPT !.runtime = Resumed]
<1>1. /\ UNCHANGED <<now, register, energy, connected, sessions, intervals>>
      /\ rolledBack' = FALSE /\ runtime' = Resumed
  BY DEF Restart, car, books
<1>2. Before' = t
  BY <1>1 DEF Before
<1>3. Consistent(t) /\ MemoryFollows(t)
  BY ResumedConsistent
<1> HIDE DEF t
<1>4. QED BY <1>1, <1>2, <1>3, SameWorld

LEMMA NextConsistent == AccountingInv /\ [AccountingNext]_accountingVars => AccountingInv'
<1> SUFFICES ASSUME AccountingInv, [AccountingNext]_accountingVars PROVE AccountingInv'
  OBVIOUS
<1>1. CASE Pass
  BY <1>1, PassKeeps
<1>2. CASE RolledBackPass
  BY <1>2, RolledBackPassKeeps
<1>3. CASE Restart
  BY <1>3, RestartKeeps
<1>4. CASE Elapse
  BY <1>4, ElapseConsistent
<1>5. CASE PlugIn
  BY <1>5, PlugInConsistent
<1>6. CASE Unplug
  BY <1>6, UnplugConsistent
<1>7. CASE UNCHANGED accountingVars
  <2>1. UNCHANGED <<now, register, energy, connected, rolledBack, runtime, sessions, intervals>>
    BY <1>7 DEF accountingVars, car, books
  <2>2. Before' = Before /\ Consistent(Before) /\ rolledBack \in BOOLEAN
    BY <2>1 DEF Before, AccountingInv, WorldTyped
  <2>3. QED BY <2>1, <2>2, SameWorld DEF AccountingInv
<1>8. QED BY <1>1, <1>2, <1>3, <1>4, <1>5, <1>6, <1>7 DEF AccountingNext

-----------------------------------------------------------------------------
(* The theorems.                                                           *)

\* The accounting invariant holds whatever cars come, passes fail and
\* processes restart.
THEOREM AccountingHolds == AccountingSpec => []AccountingInv
BY InitConsistent, NextConsistent, PTL DEF AccountingSpec

\* "A restart must not re-count the session" (session_service): no moment and no
\* measured energy is in two intervals, across sessions, failures and restarts.
LEMMA InvCountsOnce == AccountingInv => CountedOnce
<1> SUFFICES ASSUME AccountingInv PROVE CountedOnce
  OBVIOUS
<1>1. /\ Typed(Before) /\ SessionOrder(Before) /\ AllSound(Before) /\ OpenIsLast(Before)
      /\ Before.sessions = sessions /\ Before.intervals = intervals
      /\ energy \in Nat
  BY DEF AccountingInv, Consistent, Before, WorldTyped
<1>2. /\ DOMAIN intervals = 1 .. Len(sessions)
      /\ \A k \in 1 .. Len(sessions) :
            /\ sessions[k] \in SessionTypes
            /\ DOMAIN intervals[k] = 1 .. Len(intervals[k])
            /\ \A i \in 1 .. Len(intervals[k]) : intervals[k][i] \in IntervalTypes
            /\ Sound(sessions[k], intervals[k])
  BY <1>1, Parts DEF AllSound
<1>3. TimeCountedOnce
  <2>1. ASSUME NEW k \in DOMAIN intervals, NEW i \in DOMAIN intervals[k],
               NEW j \in DOMAIN intervals[k], i < j
        PROVE  intervals[k][i].end <= intervals[k][j].start
    BY <1>2, <2>1 DEF Sound, TimeOrder
  <2>2. ASSUME NEW k \in DOMAIN intervals, NEW l \in DOMAIN intervals, k < l,
               NEW i \in DOMAIN intervals[k], NEW j \in DOMAIN intervals[l]
        PROVE  intervals[k][i].end <= intervals[l][j].start
    <3>1. intervals[k][i].end <= sessions[l].start
      BY <1>1, <1>2, <2>2 DEF SessionOrder
    <3>2. sessions[l].start <= intervals[l][j].start
      BY <1>2 DEF Sound, TimeOrder
    <3>3. /\ intervals[k][i].end \in Nat /\ sessions[l].start \in Nat
          /\ intervals[l][j].start \in Nat
      BY <1>2 DEF SessionTypes, IntervalTypes
    <3>4. QED BY <3>1, <3>2, <3>3
  <2>3. QED BY <2>1, <2>2 DEF TimeCountedOnce
<1>4. EnergyCountedOnce
  <2> SUFFICES ASSUME NEW k \in DOMAIN intervals, NEW i \in DOMAIN intervals[k],
                      intervals[k][i].measured
               PROVE  /\ sessions[k].drawn <= intervals[k][i].from
                      /\ intervals[k][i].from + intervals[k][i].kwh <= intervals[k][i].upTo
                      /\ intervals[k][i].upTo <= UpTo(k)
                      /\ \A j \in DOMAIN intervals[k] :
                            i < j /\ intervals[k][j].measured
                               => intervals[k][i].upTo <= intervals[k][j].from
    BY DEF EnergyCountedOnce
  <2>1. EnergyOrder(sessions[k], intervals[k]) /\ i \in 1 .. Len(intervals[k])
    BY <1>2 DEF Sound
  <2>2. QED BY <1>2, <2>1 DEF EnergyOrder, UpTo
<1>5. QED BY <1>3, <1>4 DEF CountedOnce

THEOREM NothingCountedTwice == AccountingSpec => []CountedOnce
BY AccountingHolds, InvCountsOnce, PTL

\* process_charger never leaves two sessions open, and has one open exactly
\* while it has seen a car, unless the process has lost a transaction.
LEMMA InvFollowsCar == AccountingInv => SessionFollowsCar
<1> SUFFICES ASSUME AccountingInv PROVE SessionFollowsCar
  OBVIOUS
<1> DEFINE active == {k \in DOMAIN sessions : sessions[k].status = "ACTIVE"}
           n == Len(sessions)
<1>1. /\ Typed(Before) /\ OpenIsLast(Before)
      /\ Before.sessions = sessions /\ Before.runtime = runtime
      /\ ~rolledBack => MemoryFollows(Before)
  BY DEF AccountingInv, Consistent, Before
<1>2. DOMAIN sessions = 1 .. n /\ n \in Nat
  BY <1>1, Parts
<1>3. Cardinality(active) <= 1
  <2>1. active \subseteq {n}
    BY <1>1, <1>2 DEF OpenIsLast
  <2>2. active = {} \/ active = {n}
    BY <2>1
  <2>3. Cardinality({}) = 0 /\ Cardinality({n}) = 1
    BY FS_EmptySet, FS_Singleton
  <2> HIDE DEF active, n
  <2>4. Cardinality(active) \in {0, 1}
    BY <2>2, <2>3
  <2>5. QED BY <2>4
<1>4. ActiveOf(sessions) # None <=> \E k \in 1 .. n : Active(Before, k)
  BY <1>1, <1>2, ActiveIsLast, NoneDiffers DEF Active
<1>5. QED BY <1>1, <1>3, <1>4 DEF SessionFollowsCar, MemoryFollows

THEOREM SessionsFollowCars == AccountingSpec => []SessionFollowsCar
BY AccountingHolds, InvFollowsCar, PTL

\* "A session already matching its intervals is left untouched" (repair): the
\* repair finds no duplicate and no other total, whenever it is run.
LEMMA InvLeftAlone == AccountingInv => RepairLeavesAlone
<1> SUFFICES ASSUME AccountingInv, NEW k \in DOMAIN sessions, intervals[k] # <<>>
             PROVE  Duplicates(k) = {} /\ RepairedTotal(k) = sessions[k].total
  BY DEF RepairLeavesAlone
<1>1. /\ Typed(Before) /\ AllSound(Before)
      /\ Before.sessions = sessions /\ Before.intervals = intervals
  BY DEF AccountingInv, Consistent, Before
<1>2. /\ sessions[k] \in SessionTypes
      /\ DOMAIN intervals[k] = 1 .. Len(intervals[k]) /\ Len(intervals[k]) \in Nat
      /\ \A i \in 1 .. Len(intervals[k]) : intervals[k][i] \in IntervalTypes
      /\ Sound(sessions[k], intervals[k])
  BY <1>1, Parts DEF AllSound
<1>3. Duplicates(k) = {}
  <2> SUFFICES ASSUME NEW i \in DOMAIN intervals[k], NEW j \in DOMAIN intervals[k],
                      intervals[k][i].start = sessions[k].start,
                      intervals[k][j].start = sessions[k].start,
                      intervals[k][j].end < intervals[k][i].end
               PROVE  FALSE
    BY DEF Duplicates
  <2>1. /\ intervals[k][i].start \in Nat /\ intervals[k][i].end \in Nat
        /\ intervals[k][j].start \in Nat /\ intervals[k][j].end \in Nat
        /\ intervals[k][i].start < intervals[k][i].end
        /\ intervals[k][j].start < intervals[k][j].end
    BY <1>2 DEF Sound, TimeOrder, IntervalTypes
  <2>2. i = j \/ i < j \/ j < i
    BY <1>2
  <2>3. CASE i < j
    BY <1>2, <2>1, <2>3 DEF Sound, TimeOrder
  <2>4. CASE j < i
    BY <1>2, <2>1, <2>4 DEF Sound, TimeOrder
  <2>5. CASE i = j
    BY <2>1, <2>5
  <2>6. QED BY <2>2, <2>3, <2>4, <2>5
<1>4. RepairedTotal(k) = sessions[k].total
  BY <1>2 DEF Sound, TotalAgrees, RepairedTotal
<1>5. QED BY <1>3, <1>4

THEOREM RepairIsIdle == AccountingSpec => []RepairLeavesAlone
BY AccountingHolds, InvLeftAlone, PTL

=============================================================================
