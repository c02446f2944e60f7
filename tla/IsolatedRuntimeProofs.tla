----------------------- MODULE IsolatedRuntimeProofs -----------------------
(***************************************************************************)
(* What is proved of the supervision of isolated runtimes, for every       *)
(* number of runtimes, restarts, crashes of the collector and misses, and  *)
(* for both wirings of the manager.                                        *)
(*                                                                         *)
(* A tick writes records that may never be committed, while processes and  *)
(* sockets change at once.  The invariant therefore relates, runtime by    *)
(* runtime, the record of the tick in progress to the committed one.       *)
(***************************************************************************)
EXTENDS IsolatedRuntime, TLAPS

InService == {"RUNNING", "DEGRADED"}
Ended     == {"STOPPED", "CRASHED", "QUARANTINED"}

StopsOf(n) ==
    [todo: SUBSET (1 .. n), path: (1 .. n) \cup {NoPath}, done: SUBSET (1 .. n)]

Typed ==
    /\ wiring \in Wirings
    /\ created \in 0 .. MaxRuntimes
    /\ row \in [Runtimes -> Record] /\ saved \in [Runtimes -> Record]
    /\ age \in [Runtimes -> {"started", "late", "recent", "old"}]
    /\ proc \in [Runtimes -> {"none", "well", "hung"}]
    /\ held \subseteq 1 .. created
    /\ session \in [Runtimes -> BOOLEAN]
    /\ served \subseteq 1 .. created
    /\ listen \in (1 .. created) \cup {NoPath}
    /\ misses \in [Runtimes -> Nat]
    /\ phase \in {"idle", "supervise", "restart"}
    /\ listed \in [Runtimes -> [state: Supervised \cup {"NONE"}, silent: BOOLEAN]]
    /\ revoked \in BOOLEAN
    /\ crashes \in 0 .. MaxCrashes
    /\ open \subseteq 1 .. created /\ astray \subseteq 1 .. created
    /\ stops \in [Stoppers -> StopsOf(created)]
    /\ seen \in [Runtimes -> States]
    /\ launches \in [Runtimes -> Nat]
    /\ quiet \in [Runtimes -> 0 .. wiring.threshold]
    /\ ~wiring.kept /\ phase # "restart" => held = {}

\* A record is of a runtime that was created, differs from the committed one
\* only within a tick, and is on another socket only once it was restarted.
RecordSound(i) ==
    /\ i > created => row[i] = Unused /\ saved[i] = Unused /\ launches[i] = 0
    /\ i <= created =>
          /\ {saved[i].state, row[i].state} \subseteq InService \cup Ended \cup {"PREPARING"}
          /\ saved[i].path \in 1 .. created /\ row[i].path \in 1 .. created
    /\ phase = "idle" => row[i] = saved[i]
    /\ row[i].path # saved[i].path => phase = "restart" /\ (i \in held \/ ~session[i])
    /\ saved[i].restarts <= row[i].restarts
    /\ row[i].restarts <= saved[i].restarts + 1

\* A restart that is prepared has been counted and not yet launched; one that
\* was committed was committed by a publication in the middle of a tick.
PreparingSound(i) ==
    /\ row[i].state = "PREPARING" /\ i \notin held =>
          misses[i] = 0 /\ launches[i] <= row[i].restarts + crashes
    /\ row[i].state = "PREPARING" /\ ~wiring.kept => i \notin held
    /\ saved[i].state = "PREPARING" =>
          /\ row[i].restarts = saved[i].restarts
          /\ phase # "restart" => row[i] = saved[i]
          /\ i \notin held => misses[i] = 0

\* A launch is on the count of the tick in progress, and before and after the
\* restarts of a tick on the committed count.
LaunchesSound(i) ==
    /\ launches[i] <= row[i].restarts + 1 + crashes
    /\ launches[i] <= saved[i].restarts + 2 + crashes
    /\ phase # "restart" => launches[i] <= saved[i].restarts + 1 + crashes

\* What supervise still has to deal with is as committed, if not as listed.
ListedSound(i) ==
    listed[i] # NotListed =>
        /\ phase = "supervise"
        /\ i <= created
        /\ row[i] = saved[i]
        /\ row[i].state \in InService \cup {"STOPPED"}
        /\ seen[i] \in InService \cup {"STOPPED", "NONE"}
        /\ misses[i] < wiring.threshold
        /\ misses[i] <= quiet[i]
        /\ ~wiring.kept => misses[i] = 0

\* A kept manager counts no more misses than there were silent ticks; only of
\* a runtime that was stopped meanwhile does it keep as many as the threshold.
MissesSound(i) ==
    /\ misses[i] <= wiring.threshold
    /\ misses[i] = wiring.threshold => {row[i].state, saved[i].state} \subseteq Ended
    /\ wiring.kept => misses[i] <= quiet[i]
    /\ ~wiring.kept /\ phase = "idle" => misses[i] = 0

\* No tick has written what a stop has written.
WrittenSound(i) == Written(i) => i <= created /\ row[i] = saved[i]

\* Only of a record that a stop has committed since may a tick have read what
\* it no longer says.
SeenSound(i) ==
    seen[i] # "NONE" =>
        /\ phase # "idle"
        /\ i <= created
        /\ row[i] = saved[i] /\ row[i].state = "STOPPED"
        /\ seen[i] = "PREPARING" /\ i \notin held =>
              misses[i] = 0 /\ launches[i] <= row[i].restarts + crashes

\* The process is cut off before its record says so for good: of a record that
\* a stop has written and not committed, and of one that was committed out of
\* service and that the tick has not restarted since.
OutOfService(i) ==
    \/ row[i].state \notin Supervised
    \/ Written(i)
    \/ saved[i].state \notin Supervised /\ (phase # "restart" \/ i \notin held \/ ~Locked(i))

CutOff(i) == OutOfService(i) /\ i \notin astray => ~Reachable(i)

Sound(i) ==
    /\ RecordSound(i)
    /\ PreparingSound(i)
    /\ LaunchesSound(i)
    /\ ListedSound(i)
    /\ MissesSound(i)
    /\ WrittenSound(i)
    /\ SeenSound(i)
    /\ CutOff(i)

RuntimeInv == Typed /\ \A i \in Runtimes : Sound(i)

-----------------------------------------------------------------------------
(* The transitions that the handlers ask for.                              *)

LEMMA MayStop ==
    \A from \in {"RUNNING", "DEGRADED", "HANDSHAKING", "QUARANTINED", "READY"} :
        CanTransition(from, "STOPPING")
BY DEF CanTransition, Transitions

LEMMA MayNotStop ==
    \A from \in {"STOPPED", "CRASHED"} : ~CanTransition(from, "STOPPING")
BY DEF CanTransition, Transitions

LEMMA MayCrash ==
    /\ \A from \in InService : CanTransition(from, "CRASHED") /\ CanTransition(from, "DEGRADED")
    /\ ~CanTransition("STOPPED", "CRASHED")
    /\ ~CanTransition("STOPPED", "DEGRADED")
BY DEF CanTransition, Transitions, InService

-----------------------------------------------------------------------------
(* What the handlers make of a world.                                      *)

Worlds ==
    [row : [Runtimes -> Record], proc : [Runtimes -> {"none", "well", "hung"}],
     held : SUBSET (1 .. created), session : [Runtimes -> BOOLEAN],
     served : SUBSET (1 .. created), misses : [Runtimes -> Nat], ok : BOOLEAN]

\* A handler of runtime i leaves the others alone and opens nothing.
Elsewhere(w, v, i) ==
    /\ \A j \in Runtimes \ {i} :
          /\ v.row[j] = w.row[j]
          /\ v.session[j] = w.session[j]
          /\ v.misses[j] = w.misses[j]
          /\ j \in w.held => j \in v.held
    /\ v.held \subseteq w.held
    /\ v.served \subseteq w.served
    /\ v.session[i] => w.session[i]

Put(r, state) == [r EXCEPT !.state = state]

LEMMA CreatedAreRuntimes ==
    ASSUME Typed PROVE created \in Nat /\ 1 .. created \subseteq Runtimes
BY RuntimeAssumption DEF Typed, Runtimes

LEMMA WorldTyped == ASSUME Typed PROVE World \in Worlds
BY DEF Typed, World, Worlds

LEMMA StopDone ==
    ASSUME Typed, NEW w \in Worlds, NEW i \in 1 .. created,
           CanTransition(w.row[i].state, "STOPPING")
    PROVE  LET v == StopRuntime(w, i)
           IN  /\ v \in Worlds
               /\ Elsewhere(w, v, i)
               /\ v.ok = w.ok
               /\ v.row[i] = Put(w.row[i], "STOPPED")
               /\ w.row[i].path \notin v.served
               /\ v.misses[i] = 0 /\ i \notin v.held
<1> DEFINE t == TearDown(w, i)
           v == StopRuntime(w, i)
<1>0. i \in Runtimes
  BY CreatedAreRuntimes
<1>1. /\ t \in Worlds /\ t.row = w.row /\ t.ok = w.ok
      /\ t.held = w.held \ {i}
      /\ t.served = w.served \ {w.row[i].path}
      /\ t.misses = [w.misses EXCEPT ![i] = 0]
      /\ \A j \in Runtimes \ {i} : t.session[j] = w.session[j]
      /\ t.session[i] => w.session[i]
  <2> DEFINE owned == i \in w.held
             f == Forgotten(w, i)
  <2>1. /\ f \in Worlds /\ f.row = w.row /\ f.ok = w.ok /\ f.served = w.served
        /\ f.held = w.held \ {i}
        /\ f.misses = w.misses /\ f.session = w.session /\ f.proc = w.proc
    BY DEF Forgotten, Worlds
  <2>2. t = [f EXCEPT !.proc[i]    = IF owned THEN "none" ELSE @,
                      !.session[i] = @ /\ ~(wiring.kept \/ owned),
                      !.served     = @ \ {w.row[i].path},
                      !.misses[i]  = 0]
    BY DEF TearDown
  <2> HIDE DEF f, t, owned
  <2>3. /\ t.row = f.row /\ t.ok = f.ok /\ t.held = f.held
        /\ t.served = f.served \ {w.row[i].path}
    BY <2>1, <2>2 DEF Worlds
  <2>4. t.misses = [f.misses EXCEPT ![i] = 0]
    BY <2>1, <2>2 DEF Worlds
  <2>5. /\ t.session = [f.session EXCEPT ![i] = @ /\ ~(wiring.kept \/ owned)]
        /\ t.proc = [f.proc EXCEPT ![i] = IF owned THEN "none" ELSE @]
    BY <2>1, <2>2 DEF Worlds
  <2>6. t \in Worlds
    <3>1. f.session \in [Runtimes -> BOOLEAN] /\ f.misses \in [Runtimes -> Nat]
      BY <2>1 DEF Worlds
    <3>2. t.session \in [Runtimes -> BOOLEAN]
      BY <2>5, <3>1
    <3>3. t.misses \in [Runtimes -> Nat]
      <4>1. 0 \in Nat
        OBVIOUS
      <4>2. QED BY <2>4, <3>1, <4>1, Zenon
    <3>4. /\ t.proc \in [Runtimes -> {"none", "well", "hung"}]
          /\ t.row \in [Runtimes -> Record] /\ t.ok \in BOOLEAN
          /\ t.held \in SUBSET (1 .. created) /\ t.served \in SUBSET (1 .. created)
      <4>1. /\ f.proc \in [Runtimes -> {"none", "well", "hung"}]
            /\ f.row \in [Runtimes -> Record] /\ f.ok \in BOOLEAN
            /\ f.held \in SUBSET (1 .. created) /\ f.served \in SUBSET (1 .. created)
        BY <2>1 DEF Worlds
      <4>2. QED BY <2>3, <2>5, <4>1
    <3>5. t = [row |-> t.row, proc |-> t.proc, held |-> t.held, session |-> t.session,
               served |-> t.served, misses |-> t.misses, ok |-> t.ok]
      BY <2>1, <2>2 DEF Worlds
    <3>6. QED BY <3>2, <3>3, <3>4, <3>5 DEF Worlds
  <2>7. \A j \in Runtimes \ {i} : t.session[j] = f.session[j]
    BY <2>1, <2>5 DEF Worlds
  <2>8. t.session[i] => f.session[i]
    BY <1>0, <2>1, <2>5, Zenon DEF Worlds
  <2>9. QED BY <2>1, <2>3, <2>4, <2>6, <2>7, <2>8
<1>2. v = [t EXCEPT !.row[i].state = "STOPPED"]
  BY DEF StopRuntime, SetState
<1> HIDE DEF t, v
<1>3. w.row \in [Runtimes -> Record] /\ w.misses \in [Runtimes -> Nat]
  BY DEF Worlds
<1>4. [w.row[i] EXCEPT !.state = "STOPPED"] \in Record
  BY <1>0, <1>3 DEF Record, States, Transitions
<1>5. v \in Worlds /\ v.row = [w.row EXCEPT ![i].state = "STOPPED"]
  BY <1>0, <1>1, <1>2, <1>3, <1>4 DEF Worlds
<1>6. /\ v.ok = t.ok /\ v.held = t.held /\ v.served = t.served /\ v.misses = t.misses
      /\ v.session = t.session
  BY <1>1, <1>2 DEF Worlds
<1>7. Elsewhere(w, v, i)
  BY <1>0, <1>1, <1>3, <1>5, <1>6 DEF Elsewhere
<1>8. QED
  BY <1>0, <1>1, <1>3, <1>5, <1>6, <1>7 DEF v, Put

LEMMA StopRefused ==
    ASSUME Typed, NEW w \in Worlds, NEW i \in 1 .. created,
           ~CanTransition(w.row[i].state, "STOPPING")
    PROVE  LET v == StopRuntime(w, i)
           IN  /\ v \in Worlds
               /\ Elsewhere(w, v, i)
               /\ v.ok = FALSE
               /\ v.row = w.row
               /\ v.misses = w.misses
BY DEF StopRuntime, Raised, Forgotten, Elsewhere, Worlds

\* Writing the record of runtime i.
Wrote(w, v, i, r) == v = [w EXCEPT !.row = [w.row EXCEPT ![i] = r]]

LEMMA RowWritten ==
    ASSUME NEW w \in Worlds, NEW i \in Runtimes, NEW r \in Record, NEW v,
           Wrote(w, v, i, r)
    PROVE  /\ v \in Worlds
           /\ Elsewhere(w, v, i)
           /\ v.row[i] = r
           /\ v.ok = w.ok /\ v.held = w.held /\ v.served = w.served
           /\ v.misses = w.misses /\ v.session = w.session
<1>1. w.row \in [Runtimes -> Record]
  BY DEF Worlds
<1>2. v.row = [w.row EXCEPT ![i] = r] /\ v \in Worlds
  BY <1>1 DEF Worlds, Wrote
<1>3. /\ v.ok = w.ok /\ v.held = w.held /\ v.served = w.served
      /\ v.misses = w.misses /\ v.session = w.session
  BY DEF Worlds, Wrote
<1>4. QED BY <1>1, <1>2, <1>3 DEF Elsewhere

LEMMA StateWritten ==
    ASSUME NEW w \in Worlds, NEW i \in Runtimes, NEW state \in States, NEW v,
           v = SetState(w, i, state)
    PROVE  /\ v \in Worlds
           /\ Elsewhere(w, v, i)
           /\ v.row[i] = Put(w.row[i], state)
           /\ v.ok = w.ok /\ v.held = w.held /\ v.served = w.served
           /\ v.misses = w.misses /\ v.session = w.session
<1> DEFINE r == Put(w.row[i], state)
<1>1. r \in Record
  BY DEF Record, Worlds, Put
<1>2. Wrote(w, v, i, r)
  BY DEF SetState, Worlds, Wrote, Put
<1>3. r = Put(w.row[i], state)
  OBVIOUS
<1> HIDE DEF r
<1>4. /\ v \in Worlds
      /\ Elsewhere(w, v, i)
      /\ v.row[i] = r
      /\ v.ok = w.ok /\ v.held = w.held /\ v.served = w.served
      /\ v.misses = w.misses /\ v.session = w.session
  BY <1>1, <1>2, RowWritten
<1>5. QED BY <1>3, <1>4

LEMMA ElsewhereTwice ==
    ASSUME NEW u, NEW v, NEW w, NEW i, Elsewhere(u, v, i), Elsewhere(v, w, i)
    PROVE  Elsewhere(u, w, i)
BY DEF Elsewhere

\* A restart is prepared while the count lasts, else there is a quarantine.
RestartOrQuarantine(w, v, i) ==
    /\ v.row[i].path = w.row[i].path
    /\ \/ /\ v.row[i].state = "QUARANTINED"
          /\ v.row[i].restarts = w.row[i].restarts
       \/ /\ v.row[i].state = "PREPARING"
          /\ v.row[i].restarts = w.row[i].restarts + 1

LEMMA RestartPrepared ==
    ASSUME NEW w \in Worlds, NEW i \in Runtimes, w.ok = TRUE,
           NEW v, v = MaybeRestart(w, i)
    PROVE  /\ v \in Worlds
           /\ Elsewhere(w, v, i)
           /\ RestartOrQuarantine(w, v, i)
           /\ v.ok = TRUE /\ v.held = w.held /\ v.served = w.served
           /\ v.misses = w.misses /\ v.session = w.session
<1>1. w.row[i] \in Record
  BY DEF Worlds
<1>2. CASE w.row[i].restarts >= MaxRestarts
  <2>1. v = SetState(w, i, "QUARANTINED") /\ "QUARANTINED" \in States
    BY <1>2 DEF MaybeRestart, States, Transitions
  <2>2. /\ v \in Worlds
        /\ Elsewhere(w, v, i)
        /\ v.row[i] = Put(w.row[i], "QUARANTINED")
        /\ v.ok = w.ok /\ v.held = w.held /\ v.served = w.served
        /\ v.misses = w.misses /\ v.session = w.session
    BY <2>1, StateWritten
  <2>3. QED BY <1>1, <2>2 DEF Record, Put, RestartOrQuarantine
<1>3. CASE ~(w.row[i].restarts >= MaxRestarts)
  <2> DEFINE r == [w.row[i] EXCEPT !.state = "PREPARING", !.restarts = @ + 1]
  <2>1. Wrote(w, v, i, r)
    <3>1. v = [w EXCEPT !.row[i].state = "PREPARING", !.row[i].restarts = @ + 1]
      BY <1>3 DEF MaybeRestart
    <3>2. QED BY <3>1 DEF Worlds, Wrote
  <2>2. r.path = w.row[i].path /\ r.state = "PREPARING"
        /\ r.restarts = w.row[i].restarts + 1
    BY <1>1 DEF Record
  <2>3. r.restarts \in 0 .. MaxRestarts
    BY <1>1, <1>3, <2>2, RuntimeAssumption DEF Record
  <2>4. "PREPARING" \in States
    BY DEF States, Transitions
  <2>5. r \in Record
    BY <1>1, <2>2, <2>3, <2>4 DEF Record
  <2> HIDE DEF r
  <2>6. /\ v \in Worlds
        /\ Elsewhere(w, v, i)
        /\ v.row[i] = r
        /\ v.ok = w.ok /\ v.held = w.held /\ v.served = w.served
        /\ v.misses = w.misses /\ v.session = w.session
    BY <2>1, <2>5, RowWritten
  <2>7. QED BY <2>2, <2>6 DEF RestartOrQuarantine
<1>4. QED BY <1>2, <1>3

-----------------------------------------------------------------------------
(* What supervise makes of a record that it still has to deal with.        *)

\* The world as a step sees it that read that state of the record of runtime i.
Read(w, i, from) ==
    /\ w \in Worlds /\ Elsewhere(World, w, i)
    /\ w.row[i] = Put(row[i], from)
    /\ w.ok = TRUE /\ w.held = held /\ w.served = served
    /\ w.session = session /\ w.misses = misses

LEMMA ReadDone ==
    ASSUME Typed, NEW i \in Runtimes, NEW from \in States, NEW w, w = SetState(World, i, from)
    PROVE  Read(w, i, from)
<1>1. /\ World \in Worlds /\ World.row = row /\ World.ok = TRUE /\ World.held = held
      /\ World.served = served /\ World.session = session /\ World.misses = misses
  BY WorldTyped DEF World
<1>2. QED BY <1>1, StateWritten DEF Read

\* No gateway serves the process that runtime i may have left behind.
Unserved(i, v) == row[i].path \notin v.served \/ ~v.session[i]

Stays(i, from, v) ==
    /\ v.row[i].restarts = row[i].restarts
    /\ v.row[i] = Put(row[i], from) \/ {from, v.row[i].state} \subseteq InService

Quarantined(i, from, v) ==
    /\ from \in InService
    /\ v.row[i].state = "QUARANTINED"
    /\ v.row[i].restarts = row[i].restarts
    /\ Unserved(i, v)

Readied(i, from, v) ==
    /\ from \in InService
    /\ v.row[i].state = "PREPARING"
    /\ v.row[i].restarts = row[i].restarts + 1
    /\ i \notin v.held
    /\ v.misses[i] = 0
    /\ Unserved(i, v)
    /\ proc[i] = "none" \/ (listed[i].silent /\ misses[i] + 1 >= wiring.threshold)

Dealt(i, from, v) ==
    /\ v.row[i].path = row[i].path
    /\ Stays(i, from, v) \/ Quarantined(i, from, v) \/ Readied(i, from, v)

\* A miss more is counted only of a silent runtime, and a count that reached
\* the threshold is kept only of one that was stopped meanwhile.
Counted(i, from, v) ==
    /\ v.misses[i] <= wiring.threshold
    /\ v.misses[i] = wiring.threshold => from = "STOPPED"
    /\ \/ v.misses[i] = 0
       \/ v.misses[i] = misses[i]
       \/ listed[i].silent /\ v.misses[i] = misses[i] + 1

LEMMA WiringTyped == ASSUME Typed PROVE wiring.kept \in BOOLEAN /\ wiring.threshold \in Nat \ {0}
BY RuntimeAssumption DEF Typed

LEMMA QuotaDealt ==
    ASSUME Typed, NEW i \in 1 .. created, listed[i] # NotListed, ListedSound(i),
           NEW from \in InService \cup {"STOPPED"}, NEW w, Read(w, i, from),
           NEW v, v = StopAndQuarantine(w, i)
    PROVE  /\ v \in Worlds
           /\ Elsewhere(World, v, i)
           /\ v.ok = TRUE => Dealt(i, from, v)
           /\ Counted(i, from, v)
<1> DEFINE u == StopRuntime(w, i)
<1>0. /\ w \in Worlds /\ w.ok = TRUE /\ w.row[i] = Put(row[i], from) /\ w.misses = misses
      /\ Elsewhere(World, w, i)
      /\ i \in Runtimes
      /\ row[i] \in Record
      /\ w.row[i].state = from /\ w.row[i].path = row[i].path
      /\ w.row[i].restarts = row[i].restarts
      /\ misses[i] \in Nat /\ misses[i] < wiring.threshold
      /\ wiring.threshold \in Nat \ {0}
  BY CreatedAreRuntimes, WiringTyped DEF Read, Typed, ListedSound, Put, Record
<1>1. CASE from \in InService
  <2>1. CanTransition(w.row[i].state, "STOPPING")
    BY <1>0, <1>1, MayStop DEF InService
  <2>2. /\ u \in Worlds
        /\ Elsewhere(w, u, i)
        /\ u.ok = TRUE
        /\ u.row[i] = Put(w.row[i], "STOPPED")
        /\ row[i].path \notin u.served
        /\ u.misses[i] = 0
    BY <1>0, <2>1, StopDone
  <2>3. v = SetState(u, i, "QUARANTINED")
    BY <2>2 DEF StopAndQuarantine
  <2> HIDE DEF u
  <2>4. /\ v \in Worlds
        /\ Elsewhere(u, v, i)
        /\ v.row[i] = Put(u.row[i], "QUARANTINED")
        /\ v.served = u.served
        /\ v.misses = u.misses
    <3>1. "QUARANTINED" \in States
      BY DEF States, Transitions
    <3>2. QED BY <1>0, <2>2, <2>3, <3>1, StateWritten
  <2>5. Elsewhere(World, v, i)
    BY <1>0, <2>2, <2>4, ElsewhereTwice
  <2>6. /\ v.row[i].path = row[i].path
        /\ v.row[i].state = "QUARANTINED"
        /\ v.row[i].restarts = row[i].restarts
    BY <1>0, <2>2, <2>4 DEF Put, Record
  <2>7. Dealt(i, from, v)
    BY <1>1, <2>2, <2>4, <2>6 DEF Dealt, Quarantined, Unserved
  <2>8. Counted(i, from, v)
    BY <1>0, <2>2, <2>4 DEF Counted
  <2>9. QED BY <2>4, <2>5, <2>7, <2>8
<1>2. CASE from = "STOPPED"
  <2>1. ~CanTransition(w.row[i].state, "STOPPING")
    BY <1>0, <1>2, MayNotStop
  <2>2. /\ u \in Worlds
        /\ Elsewhere(w, u, i)
        /\ u.ok = FALSE
        /\ u.misses = misses
    BY <1>0, <2>1, StopRefused
  <2>3. v = u
    BY <2>2 DEF StopAndQuarantine
  <2> HIDE DEF u
  <2>4. Counted(i, from, v)
    BY <1>0, <2>2, <2>3 DEF Counted
  <2>5. Elsewhere(World, v, i)
    BY <1>0, <2>2, <2>3, ElsewhereTwice
  <2>6. QED BY <2>2, <2>3, <2>4, <2>5
<1>3. QED BY <1>1, <1>2

LEMMA RaisedDone ==
    ASSUME NEW w \in Worlds, NEW i, NEW v, v = Raised(w)
    PROVE  v \in Worlds /\ v.ok = FALSE /\ v.misses = w.misses /\ Elsewhere(w, v, i)
BY DEF Raised, Worlds, Elsewhere

LEMMA CrashDealt ==
    ASSUME Typed, NEW i \in 1 .. created, listed[i] # NotListed, ListedSound(i),
           NEW from \in InService \cup {"STOPPED"}, NEW w, Read(w, i, from),
           proc[i] = "none",
           NEW v, v = HandleCrash(w, i)
    PROVE  /\ v \in Worlds
           /\ Elsewhere(World, v, i)
           /\ v.ok = TRUE => Dealt(i, from, v)
           /\ Counted(i, from, v)
<1> DEFINE c == [w EXCEPT !.held = @ \ {i}, !.session[i] = FALSE, !.misses[i] = 0]
<1>0. /\ w \in Worlds /\ w.ok = TRUE /\ w.misses = misses
      /\ Elsewhere(World, w, i)
      /\ i \in Runtimes
      /\ row[i] \in Record
      /\ w.row[i].state = from /\ w.row[i].path = row[i].path
      /\ w.row[i].restarts = row[i].restarts /\ w.row[i] \in Record
      /\ wiring.threshold \in Nat \ {0}
  BY CreatedAreRuntimes, WiringTyped DEF Read, Typed, ListedSound, Put, Record, Worlds
<1>1. /\ c \in Worlds /\ c.ok = TRUE /\ c.row = w.row /\ i \notin c.held
      /\ c.session = [w.session EXCEPT ![i] = FALSE]
      /\ c.misses = [w.misses EXCEPT ![i] = 0]
      /\ c.held = w.held \ {i} /\ c.served = w.served
  BY <1>0 DEF Worlds
<1>2. v = IF CanTransition(from, "CRASHED")
          THEN MaybeRestart(SetState(c, i, "CRASHED"), i) ELSE Raised(c)
  BY <1>0, <1>1 DEF HandleCrash
<1> HIDE DEF c
<1>3. c.session[i] = FALSE /\ c.misses[i] = 0
  BY <1>0, <1>1 DEF Worlds
<1>4. Elsewhere(World, c, i)
  <2>1. Elsewhere(w, c, i)
    BY <1>0, <1>1 DEF Elsewhere, Worlds
  <2>2. QED BY <1>0, <2>1, ElsewhereTwice
<1>5. CASE from \in InService
  <2> DEFINE u == SetState(c, i, "CRASHED")
  <2>1. v = MaybeRestart(u, i)
    BY <1>2, <1>5, MayCrash
  <2>2. /\ u \in Worlds
        /\ Elsewhere(c, u, i)
        /\ u.row[i] = Put(w.row[i], "CRASHED")
        /\ u.ok = TRUE /\ u.held = c.held /\ u.misses = c.misses /\ u.session = c.session
    <3>1. "CRASHED" \in States
      BY DEF States, Transitions
    <3>2. QED BY <1>0, <1>1, <3>1, StateWritten
  <2> HIDE DEF u
  <2>3. /\ v \in Worlds
        /\ Elsewhere(u, v, i)
        /\ RestartOrQuarantine(u, v, i)
        /\ v.held = u.held /\ v.misses = u.misses /\ v.session = u.session
    BY <1>0, <2>1, <2>2, RestartPrepared
  <2>4. Elsewhere(World, v, i)
    BY <1>4, <2>2, <2>3, ElsewhereTwice
  <2>5. u.row[i].path = row[i].path /\ u.row[i].restarts = row[i].restarts
    BY <1>0, <2>2 DEF Put, Record
  <2>6. i \notin v.held /\ v.misses[i] = 0 /\ v.session[i] = FALSE
    BY <1>1, <1>3, <2>2, <2>3
  <2>7. Dealt(i, from, v)
    BY <1>5, <2>3, <2>5, <2>6 DEF Dealt, Quarantined, Readied, Unserved, RestartOrQuarantine
  <2>8. Counted(i, from, v)
    BY <1>0, <2>6 DEF Counted
  <2>9. QED BY <2>3, <2>4, <2>7, <2>8
<1>6. CASE from = "STOPPED"
  <2>1. v = Raised(c)
    BY <1>2, <1>6, MayCrash
  <2>2. v \in Worlds /\ v.ok = FALSE /\ v.misses = c.misses /\ Elsewhere(c, v, i)
    BY <1>1, <2>1, RaisedDone
  <2>3. Elsewhere(World, v, i)
    BY <1>4, <2>2, ElsewhereTwice
  <2>4. Counted(i, from, v)
    BY <1>0, <1>3, <2>2 DEF Counted
  <2>5. QED BY <2>2, <2>3, <2>4
<1>7. QED BY <1>5, <1>6

\* Counting the misses of runtime i.
Recounted(w, v, i, n) == v = [w EXCEPT !.misses = [w.misses EXCEPT ![i] = n]]

LEMMA MissesWritten ==
    ASSUME NEW w \in Worlds, NEW i \in Runtimes, NEW n \in Nat, NEW v,
           Recounted(w, v, i, n)
    PROVE  /\ v \in Worlds
           /\ Elsewhere(w, v, i)
           /\ v.misses[i] = n
           /\ v.ok = w.ok /\ v.row = w.row
<1>1. w.misses \in [Runtimes -> Nat]
  BY DEF Worlds
<1>2. v.misses = [w.misses EXCEPT ![i] = n] /\ v \in Worlds
  BY <1>1 DEF Worlds, Recounted
<1>3. /\ v.ok = w.ok /\ v.held = w.held /\ v.served = w.served
      /\ v.row = w.row /\ v.session = w.session
  BY DEF Worlds, Recounted
<1>4. QED BY <1>1, <1>2, <1>3 DEF Elsewhere

LEMMA MissDealt ==
    ASSUME Typed, NEW i \in 1 .. created, listed[i] # NotListed, ListedSound(i),
           NEW from \in InService \cup {"STOPPED"}, NEW w, Read(w, i, from),
           listed[i].silent,
           NEW v, v = Missed(w, i, listed[i].state)
    PROVE  /\ v \in Worlds
           /\ Elsewhere(World, v, i)
           /\ v.ok = TRUE => Dealt(i, from, v)
           /\ Counted(i, from, v)
<1> DEFINE c == [w EXCEPT !.misses[i] = @ + 1]
<1>0. /\ w \in Worlds /\ w.ok = TRUE /\ w.row[i] = Put(row[i], from) /\ w.misses = misses
      /\ Elsewhere(World, w, i)
      /\ i \in Runtimes
      /\ row[i] \in Record
      /\ w.row[i].state = from /\ w.row[i].path = row[i].path
      /\ w.row[i].restarts = row[i].restarts /\ w.row[i] \in Record
      /\ misses[i] \in Nat /\ misses[i] < wiring.threshold
      /\ wiring.threshold \in Nat \ {0}
  BY CreatedAreRuntimes, WiringTyped DEF Read, Typed, ListedSound, Put, Record, Worlds
<1>1. Recounted(w, c, i, misses[i] + 1) /\ misses[i] + 1 \in Nat
  BY <1>0 DEF Recounted
<1>2. v = IF c.misses[i] >= wiring.threshold
          THEN MaybeRestart(StopRuntime(c, i), i)
          ELSE IF listed[i].state # "RUNNING" THEN c
          ELSE IF CanTransition(w.row[i].state, "DEGRADED") THEN SetState(c, i, "DEGRADED")
          ELSE Raised(c)
  BY DEF Missed
<1> HIDE DEF c
<1>3. c.misses[i] = misses[i] + 1 /\ c \in Worlds /\ c.ok = TRUE /\ c.row = w.row
  BY <1>0, <1>1, MissesWritten
<1>4. Elsewhere(World, c, i)
  <2>1. Elsewhere(w, c, i)
    BY <1>0, <1>1, MissesWritten
  <2>2. QED BY <1>0, <2>1, ElsewhereTwice
<1>5. CASE c.misses[i] >= wiring.threshold
  <2> DEFINE u == StopRuntime(c, i)
  <2>1. v = MaybeRestart(u, i)
    BY <1>2, <1>5
  <2>2. CASE from \in InService
    <3>1. CanTransition(c.row[i].state, "STOPPING")
      BY <1>0, <1>3, <2>2, MayStop DEF InService
    <3>2. /\ u \in Worlds
          /\ Elsewhere(c, u, i)
          /\ u.ok = TRUE
          /\ u.row[i] = Put(w.row[i], "STOPPED")
          /\ row[i].path \notin u.served
          /\ u.misses[i] = 0 /\ i \notin u.held
      BY <1>0, <1>3, <3>1, StopDone
    <3> HIDE DEF u
    <3>3. /\ v \in Worlds
          /\ Elsewhere(u, v, i)
          /\ RestartOrQuarantine(u, v, i)
          /\ v.held = u.held /\ v.served = u.served /\ v.misses = u.misses
      <4>1. u \in Worlds /\ u.ok = TRUE
        BY <3>2
      <4>2. i \in Runtimes
        BY <1>0
      <4>3. QED BY ONLY <2>1, <4>1, <4>2, RestartPrepared
    <3>4. Elsewhere(World, v, i)
      BY <1>4, <3>2, <3>3, ElsewhereTwice
    <3>5. u.row[i].path = row[i].path /\ u.row[i].restarts = row[i].restarts
      BY <1>0, <3>2 DEF Put, Record
    <3>6. i \notin v.held /\ v.misses[i] = 0 /\ row[i].path \notin v.served
      BY <3>2, <3>3
    <3>7. listed[i].silent /\ misses[i] + 1 >= wiring.threshold
      BY <1>3, <1>5
    <3>8. Dealt(i, from, v)
      BY <2>2, <3>3, <3>5, <3>6, <3>7 DEF Dealt, Quarantined, Readied, Unserved,
         RestartOrQuarantine
    <3>9. Counted(i, from, v)
      BY <1>0, <3>6 DEF Counted
    <3>10. QED BY <3>3, <3>4, <3>8, <3>9
  <2>3. CASE from = "STOPPED"
    <3>1. ~CanTransition(c.row[i].state, "STOPPING")
      BY <1>0, <1>3, <2>3, MayNotStop
    <3>2. /\ u \in Worlds
          /\ Elsewhere(c, u, i)
          /\ u.ok = FALSE
          /\ u.misses = c.misses
      BY <1>3, <3>1, StopRefused
    <3>3. v = u
      BY <2>1, <3>2 DEF MaybeRestart
    <3> HIDE DEF u
    <3>4. Elsewhere(World, v, i)
      BY <1>4, <3>2, <3>3, ElsewhereTwice
    <3>5. v.misses[i] = misses[i] + 1 /\ v.misses[i] <= wiring.threshold
      BY <1>0, <1>3, <3>2, <3>3
    <3>6. Counted(i, from, v)
      BY <2>3, <3>5 DEF Counted
    <3>7. QED BY <3>2, <3>3, <3>4, <3>6
  <2>4. QED BY <2>2, <2>3
<1>6. CASE ~(c.misses[i] >= wiring.threshold)
  <2>1. c.misses[i] < wiring.threshold
    BY <1>0, <1>3, <1>6
  <2>2. CASE v = c
    <3>1. Dealt(i, from, v)
      BY <1>0, <1>3, <2>2 DEF Dealt, Stays
    <3>2. Counted(i, from, v)
      BY <1>0, <1>3, <2>1, <2>2 DEF Counted
    <3>3. QED BY <1>3, <1>4, <2>2, <3>1, <3>2
  <2>3. CASE v = SetState(c, i, "DEGRADED") /\ from \in InService
    <3>1. /\ v \in Worlds
          /\ Elsewhere(c, v, i)
          /\ v.row[i] = Put(w.row[i], "DEGRADED")
          /\ v.misses = c.misses
      <4>1. "DEGRADED" \in States
        BY DEF States, Transitions
      <4>2. QED BY <1>0, <1>3, <2>3, <4>1, StateWritten
    <3>2. Dealt(i, from, v)
      BY <1>0, <2>3, <3>1 DEF Dealt, Stays, Put, Record, InService
    <3>3. Counted(i, from, v)
      BY <1>0, <1>3, <2>1, <3>1 DEF Counted
    <3>4. Elsewhere(World, v, i)
      BY <1>4, <3>1, ElsewhereTwice
    <3>5. QED BY <3>1, <3>2, <3>3, <3>4
  <2>4. CASE v = Raised(c)
    <3>1. v \in Worlds /\ v.ok = FALSE /\ v.misses = c.misses /\ Elsewhere(c, v, i)
      BY <1>3, <2>4, RaisedDone
    <3>2. Elsewhere(World, v, i)
      BY <1>4, <3>1, ElsewhereTwice
    <3>3. Counted(i, from, v)
      BY <1>0, <1>3, <2>1, <3>1 DEF Counted
    <3>4. QED BY <3>1, <3>2, <3>3
  <2>5. from = "STOPPED" => ~CanTransition(w.row[i].state, "DEGRADED")
    BY <1>0, MayCrash
  <2>6. QED BY <1>2, <1>6, <2>2, <2>3, <2>4, <2>5
<1>7. QED BY <1>5, <1>6

LEMMA LookedDealt ==
    ASSUME Typed, NEW i \in 1 .. created, NEW over \in BOOLEAN,
           listed[i] # NotListed, ListedSound(i),
           NEW from \in InService \cup {"STOPPED"}, NEW w, Read(w, i, from),
           NEW v, v = Looked(w, i, over)
    PROVE  /\ v \in Worlds
           /\ Elsewhere(World, v, i)
           /\ v.ok = TRUE => Dealt(i, from, v)
           /\ Counted(i, from, v)
<1>1. CASE v = StopAndQuarantine(w, i)
  BY <1>1, QuotaDealt
<1>2. CASE proc[i] = "none" /\ v = HandleCrash(w, i)
  BY <1>2, CrashDealt
<1>3. CASE listed[i].silent /\ v = Missed(w, i, listed[i].state)
  BY <1>3, MissDealt
<1>4. CASE v = [w EXCEPT !.misses[i] = 0]
  <2>1. /\ i \in Runtimes /\ row[i] \in Record /\ wiring.threshold \in Nat \ {0}
        /\ w \in Worlds /\ Elsewhere(World, w, i) /\ w.row[i] = Put(row[i], from)
    BY CreatedAreRuntimes, WiringTyped DEF Typed, Read
  <2>2. Recounted(w, v, i, 0)
    BY <1>4 DEF Recounted
  <2>3. v.misses[i] = 0 /\ v \in Worlds /\ v.row = w.row /\ Elsewhere(w, v, i)
    BY <2>1, <2>2, MissesWritten
  <2>4. Elsewhere(World, v, i)
    BY <2>1, <2>3, ElsewhereTwice
  <2>5. Dealt(i, from, v) /\ Counted(i, from, v)
    BY <2>1, <2>3 DEF Dealt, Stays, Counted, Put, Record
  <2>6. QED BY <2>3, <2>4, <2>5
<1>5. QED BY <1>1, <1>2, <1>3, <1>4 DEF Looked

\* A record that is not written stays what it is, whatever was read.
Stayed(i, from, v) ==
    /\ v.row[i].restarts = row[i].restarts
    /\ v.row[i] = row[i] \/ {from, v.row[i].state} \subseteq InService

DealtWith(i, from, v) ==
    /\ v.row[i].path = row[i].path
    /\ Stayed(i, from, v) \/ Quarantined(i, from, v) \/ Readied(i, from, v)

LEMMA DealingDone ==
    ASSUME Typed, NEW i \in 1 .. created, NEW over \in BOOLEAN,
           listed[i] # NotListed, ListedSound(i),
           NEW from \in InService \cup {"STOPPED"}, NEW v, v = Dealing(i, over, from)
    PROVE  /\ v \in Worlds
           /\ Elsewhere(World, v, i)
           /\ v.ok = TRUE => DealtWith(i, from, v)
           /\ Counted(i, from, v)
<1> DEFINE read == SetState(World, i, from)
           w    == Looked(read, i, over)
<1>1. v = IF w.row[i] = read.row[i] THEN [w EXCEPT !.row[i] = row[i]] ELSE w
  BY DEF Dealing
<1>2. i \in Runtimes /\ row[i] \in Record /\ from \in States /\ from \notin {"QUARANTINED", "PREPARING"}
  BY CreatedAreRuntimes DEF Typed, InService, States, Transitions
<1>3. Read(read, i, from)
  BY <1>2, ReadDone
<1>4. /\ w \in Worlds
      /\ Elsewhere(World, w, i)
      /\ w.ok = TRUE => Dealt(i, from, w)
      /\ Counted(i, from, w)
  BY <1>3, LookedDealt
<1>5. read.row[i] = Put(row[i], from)
  BY <1>3 DEF Read
<1> HIDE DEF read, w
<1>6. CASE w.row[i] = Put(row[i], from)
  <2>1. Wrote(w, v, i, row[i])
    BY <1>1, <1>5, <1>6, <1>4 DEF Wrote, Worlds
  <2>2. /\ v \in Worlds
        /\ Elsewhere(w, v, i)
        /\ v.row[i] = row[i]
        /\ v.ok = w.ok /\ v.misses = w.misses
    BY <1>2, <1>4, <2>1, RowWritten
  <2>3. Elsewhere(World, v, i)
    BY <1>4, <2>2, ElsewhereTwice
  <2>4. DealtWith(i, from, v)
    BY <2>2 DEF DealtWith, Stayed
  <2>5. Counted(i, from, v)
    BY <1>4, <2>2 DEF Counted
  <2>6. QED BY <2>2, <2>3, <2>4, <2>5
<1>7. CASE w.row[i] # Put(row[i], from)
  <2>1. v = w
    BY <1>1, <1>5, <1>7
  <2>2. Dealt(i, from, v) => DealtWith(i, from, v)
    BY <1>7, <2>1 DEF Dealt, DealtWith, Stays, Stayed
  <2>3. QED BY <1>4, <2>1, <2>2
<1>8. QED BY <1>6, <1>7

-----------------------------------------------------------------------------
(* What a restart makes of the world.                                      *)

\* The other runtimes keep their records and counts, and none is served anew.
OthersUnserved(v, i) ==
    /\ v.held \subseteq held \cup {i}
    /\ \A j \in Runtimes \ {i} :
          /\ v.row[j] = row[j]
          /\ j \in held => j \in v.held
          /\ v.session[j] => session[j]
          /\ v.misses[j] = misses[j]
          /\ v.session[j] /\ row[j].path \in v.served
                => session[j] /\ row[j].path \in served

RestartDone(v, i) ==
    /\ v.row[i].restarts = row[i].restarts
    /\ v.row[i].path = RestartPath(i)
    /\ v.row[i].state \in {"RUNNING", "STOPPED", "CRASHED"}
    /\ (v.row[i].state = "RUNNING" /\ i \in v.held) \/ ~v.session[i]
    /\ v.misses[i] \in {0, misses[i]}

LEMMA Relaunching ==
    ASSUME Typed, NEW i \in 1 .. created, row[i].path \in 1 .. created,
           NEW c, c = Relaunched(i)
    PROVE  /\ c \in Worlds
           /\ c.ok = TRUE
           /\ OthersUnserved(c, i)
           /\ c.row[i].path = RestartPath(i)
           /\ c.row[i].state = "HANDSHAKING"
           /\ c.row[i].restarts = row[i].restarts
           /\ c.session[i] = FALSE
           /\ c.misses = misses
           /\ c.held = held \cup {i}
           /\ c.served = Bound(i)
<1> DEFINE r == [row[i] EXCEPT !.path = RestartPath(i), !.state = "HANDSHAKING"]
           sessions == [j \in Runtimes |-> session[j] /\ j \notin CutOffBy(i)]
<1>0. /\ i \in Runtimes /\ row \in [Runtimes -> Record] /\ row[i] \in Record
      /\ proc \in [Runtimes -> {"none", "well", "hung"}]
      /\ misses \in [Runtimes -> Nat]
      /\ World \in Worlds
      /\ held \subseteq 1 .. created /\ served \subseteq 1 .. created
  BY CreatedAreRuntimes, WorldTyped DEF Typed
<1>1. RestartPath(i) \in 1 .. created /\ RestartPath(i) \in Runtimes
  BY CreatedAreRuntimes DEF RestartPath, Typed
<1>2. /\ r \in Record /\ r.path = RestartPath(i) /\ r.state = "HANDSHAKING"
      /\ r.restarts = row[i].restarts
  BY <1>0, <1>1 DEF Record, States, Transitions
<1>3. Bound(i) \subseteq 1 .. created
  BY <1>0 DEF Bound
<1>4. c = [World EXCEPT !.row[i] = r, !.held = @ \cup {i}, !.proc[i] = "well",
                        !.served = Bound(i), !.session = sessions]
  BY DEF Relaunched, World
<1> HIDE DEF r
<1>5. sessions \in [Runtimes -> BOOLEAN] /\ sessions[i] = FALSE
  BY <1>0 DEF CutOffBy
<1>6. \A j \in Runtimes \ {i} : sessions[j] /\ row[j].path \in Bound(i)
                                   => session[j] /\ row[j].path \in served
  BY DEF CutOffBy, Bound
<1> HIDE DEF sessions
<1>7. /\ c.row = [row EXCEPT ![i] = r] /\ c.held = held \cup {i}
      /\ c.proc = [proc EXCEPT ![i] = "well"]
      /\ c.served = Bound(i) /\ c.session = sessions /\ c.misses = misses /\ c.ok = TRUE
  BY <1>0, <1>4 DEF World
<1>8. c \in Worlds
  <2> DEFINE rows == [row EXCEPT ![i] = r]
             procs == [proc EXCEPT ![i] = "well"]
             holds == held \cup {i}
  <2>1. c = [row |-> rows, proc |-> procs, held |-> holds, session |-> sessions,
             served |-> Bound(i), misses |-> misses, ok |-> TRUE]
    BY <1>4 DEF World
  <2>2. rows \in [Runtimes -> Record] /\ procs \in [Runtimes -> {"none", "well", "hung"}]
    BY <1>0, <1>2
  <2>3. holds \subseteq 1 .. created
    BY <1>0
  <2> HIDE DEF rows, procs, holds
  <2>4. QED BY <1>0, <1>3, <1>5, <2>1, <2>2, <2>3 DEF Worlds
<1>9. OthersUnserved(c, i)
  <2>1. /\ c.held \subseteq held \cup {i}
        /\ c.misses = misses /\ c.session = sessions /\ c.served = Bound(i)
    BY <1>7
  <2>2. \A j \in Runtimes \ {i} : c.row[j] = row[j]
    BY <1>0, <1>7
  <2>3. \A j \in Runtimes \ {i} : sessions[j] => session[j]
    BY DEF sessions
  <2>4. \A j \in Runtimes \ {i} : j \in held => j \in c.held
    BY <1>7
  <2>5. QED BY <1>6, <2>1, <2>2, <2>3, <2>4 DEF OthersUnserved
<1>10. QED
  BY <1>0, <1>2, <1>5, <1>7, <1>8, <1>9

LEMMA Restarting ==
    ASSUME Typed, NEW i \in 1 .. created, row[i].path \in 1 .. created,
           NEW outcome \in Outcomes, NEW v, v = Restarted(i, outcome)
    PROVE  v \in Worlds /\ OthersUnserved(v, i) /\ RestartDone(v, i)
<1> DEFINE c == Relaunched(i)
<1>0. i \in Runtimes /\ held \subseteq 1 .. created
      /\ proc \in [Runtimes -> {"none", "well", "hung"}]
  BY CreatedAreRuntimes DEF Typed
<1>1. /\ c \in Worlds /\ c.ok = TRUE
      /\ OthersUnserved(c, i)
      /\ c.row[i].path = RestartPath(i)
      /\ c.row[i].state = "HANDSHAKING"
      /\ c.row[i].restarts = row[i].restarts
      /\ c.row[i] \in Record
      /\ c.session[i] = FALSE
      /\ c.misses = misses
      /\ c.held = held \cup {i}
  <2>1. c = Relaunched(i)
    OBVIOUS
  <2> HIDE DEF c
  <2>2. /\ c \in Worlds /\ c.ok = TRUE
        /\ OthersUnserved(c, i)
        /\ c.row[i].path = RestartPath(i)
        /\ c.row[i].state = "HANDSHAKING"
        /\ c.row[i].restarts = row[i].restarts
        /\ c.session[i] = FALSE
        /\ c.misses = misses
        /\ c.held = held \cup {i}
    <3>1. Typed /\ i \in 1 .. created /\ row[i].path \in 1 .. created
      OBVIOUS
    <3>2. QED BY ONLY <2>1, <3>1, Relaunching, ZenonT(60)
  <2>3. c.row[i] \in Record
    BY <1>0, <2>2 DEF Worlds
  <2>4. QED BY <2>2, <2>3
<1>2. CASE outcome = "ready"
  <2> DEFINE u == [c EXCEPT !.session[i] = TRUE]
  <2>1. v = SetState(u, i, "RUNNING")
    BY <1>2 DEF Restarted
  <2>2. u \in Worlds /\ u.row = c.row /\ u.served = c.served /\ u.misses = c.misses
        /\ u.session = [c.session EXCEPT ![i] = TRUE] /\ u.held = c.held
    BY <1>1 DEF Worlds
  <2> HIDE DEF u, c
  <2>3. "RUNNING" \in States
    BY DEF States, Transitions
  <2>4. /\ v \in Worlds
        /\ Elsewhere(u, v, i)
        /\ v.row[i] = Put(u.row[i], "RUNNING")
        /\ v.served = u.served /\ v.misses = u.misses /\ v.held = u.held
    BY <1>0, <2>1, <2>2, <2>3, StateWritten
  <2>5. OthersUnserved(v, i)
    BY <1>1, <2>2, <2>4 DEF OthersUnserved, Elsewhere, Worlds
  <2>6. RestartDone(v, i)
    BY <1>1, <2>2, <2>4 DEF RestartDone, Put, Record
  <2>7. QED BY <2>4, <2>5, <2>6
<1>3. CASE outcome = "notReady"
  <2>1. v = StopRuntime(c, i)
    BY <1>3 DEF Restarted
  <2> HIDE DEF c
  <2>2. CanTransition(c.row[i].state, "STOPPING")
    BY <1>1, MayStop
  <2>3. /\ v \in Worlds
        /\ Elsewhere(c, v, i)
        /\ v.row[i] = Put(c.row[i], "STOPPED")
        /\ v.misses[i] = 0
    <3> DEFINE u == StopRuntime(c, i)
    <3>1. /\ u \in Worlds
          /\ Elsewhere(c, u, i)
          /\ u.row[i] = Put(c.row[i], "STOPPED")
          /\ u.misses[i] = 0
      BY <1>1, <2>2, StopDone
    <3>2. QED BY <2>1, <3>1
  <2>4. OthersUnserved(v, i)
    BY <1>1, <2>3 DEF OthersUnserved, Elsewhere
  <2>5. RestartDone(v, i)
    BY <1>1, <2>3 DEF RestartDone, Put, Record, Elsewhere
  <2>6. QED BY <2>3, <2>4, <2>5
<1>4. CASE outcome = "raises"
  <2> DEFINE u == [c EXCEPT !.held = held, !.proc = proc]
  <2>1. v = SetState(u, i, "CRASHED")
    BY <1>4 DEF Restarted
  <2>2. u \in Worlds /\ u.row = c.row /\ u.served = c.served /\ u.misses = c.misses
        /\ u.session = c.session /\ u.held = held
    BY <1>0, <1>1 DEF Worlds
  <2> HIDE DEF u, c
  <2>3. "CRASHED" \in States
    BY DEF States, Transitions
  <2>4. /\ v \in Worlds
        /\ Elsewhere(u, v, i)
        /\ v.row[i] = Put(u.row[i], "CRASHED")
        /\ v.served = u.served /\ v.misses = u.misses /\ v.session = u.session
    BY <1>0, <2>1, <2>2, <2>3, StateWritten
  <2>5. OthersUnserved(v, i)
    BY <1>1, <2>2, <2>4 DEF OthersUnserved, Elsewhere
  <2>6. RestartDone(v, i)
    BY <1>1, <2>2, <2>4 DEF RestartDone, Put, Record
  <2>7. QED BY <2>4, <2>5, <2>6
<1>5. QED BY <1>2, <1>3, <1>4 DEF Outcomes

-----------------------------------------------------------------------------
(* Every step keeps the invariant: the steps that write no record first.   *)

LEMMA InitSound == RuntimeInit => RuntimeInv
<1> SUFFICES ASSUME RuntimeInit PROVE RuntimeInv
  OBVIOUS
<1> USE DEF RuntimeInit
<1>1. /\ Unused \in Record /\ wiring.threshold \in Nat \ {0} /\ wiring.kept \in BOOLEAN
      /\ NotListed \in [state: Supervised \cup {"NONE"}, silent: BOOLEAN]
  BY RuntimeAssumption DEF Unused, Record, States, NotListed
<1>2. Typed
  <2>1. row \in [Runtimes -> Record] /\ saved \in [Runtimes -> Record]
    BY <1>1
  <2>2. listed \in [Runtimes -> [state: Supervised \cup {"NONE"}, silent: BOOLEAN]]
    BY <1>1
  <2>3. /\ created \in 0 .. MaxRuntimes /\ crashes \in 0 .. MaxCrashes
        /\ quiet \in [Runtimes -> 0 .. wiring.threshold]
    BY <1>1, RuntimeAssumption
  <2>4. stops \in [Stoppers -> StopsOf(created)] /\ seen \in [Runtimes -> States]
    BY DEF NoStop, StopsOf, States
  <2>5. QED BY <2>1, <2>2, <2>3, <2>4 DEF Typed
<1>3. ASSUME NEW i \in Runtimes PROVE Sound(i)
  <2>1. i > created
    BY <1>3 DEF Runtimes
  <2>2. RecordSound(i)
    BY <1>3, <2>1 DEF RecordSound, Unused, Record, Runtimes
  <2>3. PreparingSound(i) /\ LaunchesSound(i)
    BY <1>3, RuntimeAssumption DEF PreparingSound, LaunchesSound, Unused
  <2>4. ListedSound(i) /\ MissesSound(i) /\ CutOff(i)
    BY <1>1, <1>3 DEF ListedSound, MissesSound, CutOff, Reachable
  <2>5. WrittenSound(i) /\ SeenSound(i)
    BY <1>3 DEF WrittenSound, Written, SeenSound, NoStop
  <2>6. QED BY <2>2, <2>3, <2>4, <2>5 DEF Sound
<1>4. QED BY <1>2, <1>3 DEF RuntimeInv

LEMMA SameWritten == ASSUME stops' = stops, NEW i PROVE Written(i)' <=> Written(i)
BY DEF Written

LEMMA BeginTickSound == RuntimeInv /\ BeginTick => RuntimeInv'
<1> SUFFICES ASSUME RuntimeInv, BeginTick PROVE RuntimeInv'
  OBVIOUS
<1> USE DEF RuntimeInv, BeginTick, records, host, others, history
<1>1. /\ wiring.threshold \in Nat \ {0} /\ wiring.kept \in BOOLEAN
      /\ created \in Nat /\ 1 .. created \subseteq Runtimes
      /\ \A i \in Runtimes : seen'[i] = "NONE"
  BY WiringTyped, CreatedAreRuntimes DEF ReadAnew
<1>2. ASSUME NEW i \in Runtimes
      PROVE  /\ listed'[i] # NotListed => i \in 1 .. created /\ row[i].state \in Supervised
             /\ listed'[i] \in [state: Supervised \cup {"NONE"}, silent: BOOLEAN]
  BY <1>2 DEF Silent, NotListed, Supervised
<1>3. Typed'
  <2>1. listed' \in [Runtimes -> [state: Supervised \cup {"NONE"}, silent: BOOLEAN]]
    BY DEF Silent, NotListed, Supervised
  <2>2. seen' \in [Runtimes -> States]
    BY DEF ReadAnew, States
  <2>3. QED BY <2>1, <2>2 DEF Typed
<1>4. ASSUME NEW i \in Runtimes PROVE Sound(i)'
  <2>1. Sound(i) /\ phase = "idle" /\ misses[i] \in Nat /\ quiet[i] \in Nat
        /\ (Written(i)' <=> Written(i)) /\ seen'[i] = "NONE"
    BY <1>1, <1>4, SameWritten DEF Typed
  <2>2. RecordSound(i)' /\ PreparingSound(i)' /\ LaunchesSound(i)' /\ CutOff(i)'
    BY <2>1 DEF Sound, RecordSound, PreparingSound, LaunchesSound, CutOff, OutOfService,
       Locked, Reachable
  <2>3. MissesSound(i)' /\ WrittenSound(i)' /\ SeenSound(i)'
    BY <2>1 DEF Sound, MissesSound, WrittenSound, SeenSound
  <2>4. ListedSound(i)'
    <3>1. CASE listed'[i] # NotListed
      <4>1. i \in 1 .. created /\ row[i].state \in Supervised /\ row[i] = saved[i]
        BY <1>2, <1>4, <2>1, <3>1 DEF Sound, RecordSound
      <4>2. row[i].state \in InService
        BY <1>1, <2>1, <4>1 DEF Sound, RecordSound, Supervised, InService, Ended
      <4>3. misses[i] < wiring.threshold
        BY <1>1, <2>1, <4>1, <4>2 DEF Sound, MissesSound, InService, Ended
      <4>4. misses[i] <= quiet[i] /\ (~wiring.kept => misses[i] = 0)
        BY <2>1 DEF Sound, MissesSound
      <4>5. QED BY <1>1, <2>1, <4>1, <4>2, <4>3, <4>4 DEF ListedSound
    <3>2. QED BY <3>1 DEF ListedSound
  <2>5. QED BY <2>2, <2>3, <2>4 DEF Sound
<1>5. QED BY <1>3, <1>4

LEMMA EndSuperviseSound == RuntimeInv /\ EndSupervise => RuntimeInv'
<1> SUFFICES ASSUME RuntimeInv, EndSupervise PROVE RuntimeInv'
  OBVIOUS
<1> USE DEF RuntimeInv, EndSupervise, records, host, others, history
<1>1. Typed'
  <2>1. seen' \in [Runtimes -> States]
    BY DEF ReadAnew, States
  <2>2. QED BY <2>1 DEF Typed
<1>2. ASSUME NEW i \in Runtimes PROVE Sound(i)'
  <2>1. Sound(i) /\ listed[i] = NotListed /\ (Written(i)' <=> Written(i)) /\ seen'[i] = "NONE"
    BY <1>2, SameWritten DEF Pending, ReadAnew
  <2>2. RecordSound(i)' /\ PreparingSound(i)' /\ LaunchesSound(i)' /\ CutOff(i)'
    BY <2>1 DEF Sound, RecordSound, PreparingSound, LaunchesSound, CutOff, OutOfService,
       Locked, Reachable
  <2>3. MissesSound(i)' /\ ListedSound(i)' /\ WrittenSound(i)' /\ SeenSound(i)'
    BY <2>1 DEF Sound, MissesSound, ListedSound, WrittenSound, SeenSound
  <2>4. QED BY <2>2, <2>3 DEF Sound
<1>3. QED BY <1>1, <1>2

LEMMA CollectorDiesSound == RuntimeInv /\ CollectorDies => RuntimeInv'
<1> SUFFICES ASSUME RuntimeInv, CollectorDies PROVE RuntimeInv'
  OBVIOUS
<1> USE DEF RuntimeInv, CollectorDies, history
<1>1. wiring.threshold \in Nat \ {0} /\ wiring.kept \in BOOLEAN /\ crashes \in Nat
  BY WiringTyped DEF Typed
<1>2. Typed'
  <2>1. crashes' \in 0 .. MaxCrashes
    BY <1>1, RuntimeAssumption DEF Typed
  <2>2. listed' \in [Runtimes -> [state: Supervised \cup {"NONE"}, silent: BOOLEAN]]
        /\ seen' \in [Runtimes -> States]
    BY DEF NotListed, ReadAnew, States
  <2>3. proc' \in [Runtimes -> {"none", "well", "hung"}] /\ session' \in [Runtimes -> BOOLEAN]
        /\ misses' \in [Runtimes -> Nat]
    OBVIOUS
  <2>4. QED BY <2>1, <2>2, <2>3 DEF Typed
<1>3. ASSUME NEW i \in Runtimes PROVE Sound(i)'
  <2>1. /\ Sound(i) /\ saved[i] \in Record /\ saved[i].restarts \in Nat /\ launches[i] \in Nat
        /\ quiet[i] \in Nat /\ misses'[i] = 0 /\ listed'[i] = NotListed
        /\ (Written(i)' <=> Written(i)) /\ seen'[i] = "NONE"
        /\ row'[i] = saved[i] /\ launches'[i] = launches[i]
    BY <1>1, <1>3, SameWritten DEF Typed, ReadAnew, Record
  <2>2. RecordSound(i)'
    BY <2>1 DEF Sound, RecordSound
  <2>3. PreparingSound(i)'
    BY <1>1, <2>1 DEF Sound, PreparingSound, LaunchesSound
  <2>4. LaunchesSound(i)'
    BY <1>1, <2>1 DEF Sound, LaunchesSound
  <2>5. ListedSound(i)' /\ MissesSound(i)' /\ CutOff(i)'
    BY <1>1, <2>1, <1>3 DEF ListedSound, MissesSound, CutOff, Reachable
  <2>6. WrittenSound(i)' /\ SeenSound(i)'
    BY <2>1 DEF Sound, WrittenSound, SeenSound
  <2>7. QED BY <2>2, <2>3, <2>4, <2>5, <2>6 DEF Sound
<1>4. QED BY <1>2, <1>3

\* The end of a tick: the memory of a manager that is not kept is lost.
LEMMA Forgetting ==
    ASSUME wiring.kept \in BOOLEAN, NEW w \in Worlds, HostBecomes(Forget(w))
    PROVE  /\ proc' = w.proc /\ session' = w.session /\ served' = w.served
           /\ held' = IF wiring.kept THEN w.held ELSE {}
           /\ misses' \in [Runtimes -> Nat]
           /\ \A j \in Runtimes : misses'[j] = IF wiring.kept THEN w.misses[j] ELSE 0
<1>1. CASE wiring.kept
  BY <1>1 DEF HostBecomes, Forget, Worlds
<1>2. CASE ~wiring.kept
  <2>1. Forget(w) = [w EXCEPT !.held = {}, !.misses = [j \in Runtimes |-> 0]]
    BY <1>2 DEF Forget
  <2>2. /\ Forget(w).proc = w.proc /\ Forget(w).session = w.session
        /\ Forget(w).served = w.served /\ Forget(w).held = {}
        /\ Forget(w).misses = [j \in Runtimes |-> 0]
    BY <2>1 DEF Worlds
  <2>3. QED BY <1>2, <2>2 DEF HostBecomes
<1>3. QED BY <1>1, <1>2

LEMMA TickFailsSound == ASSUME RuntimeInv, TickFails PROVE RuntimeInv'
<1>1. /\ wiring.threshold \in Nat \ {0} /\ wiring.kept \in BOOLEAN /\ crashes \in Nat
      /\ Typed
      /\ phase' = "idle" /\ row' = saved /\ saved' = saved /\ crashes' = crashes + 1
      /\ listed' = [j \in Runtimes |-> NotListed]
      /\ listen' = IF wiring.kept THEN listen ELSE NoPath
      /\ HostBecomes(Forget(World))
      /\ open' \subseteq open
      /\ astray' = astray \cup {i \in held : Locked(i) /\ saved[i].state \notin Supervised}
      /\ UNCHANGED <<wiring, created, age, revoked, stops, launches, quiet>>
  BY WiringTyped DEF RuntimeInv, Typed, TickFails, Abandon, history
<1>2. /\ World \in Worlds /\ World.proc = proc /\ World.session = session
      /\ World.served = served /\ World.held = held /\ World.misses = misses
  BY <1>1, WorldTyped DEF World
<1>3. /\ proc' = proc /\ session' = session /\ served' = served
      /\ held' = IF wiring.kept THEN held ELSE {}
      /\ misses' \in [Runtimes -> Nat]
      /\ \A j \in Runtimes : misses'[j] = IF wiring.kept THEN misses[j] ELSE 0
  BY <1>1, <1>2, Forgetting
<1>4. seen' \in [Runtimes -> States] /\ \A i \in Runtimes : seen'[i] = "NONE"
  BY DEF TickFails, ReadAnew, States
<1>5. Typed'
  <2>1. crashes' \in 0 .. MaxCrashes
    BY <1>1, RuntimeAssumption DEF TickFails, Typed
  <2>2. listed' \in [Runtimes -> [state: Supervised \cup {"NONE"}, silent: BOOLEAN]]
    BY <1>1 DEF NotListed
  <2>3. astray' \subseteq 1 .. created
    BY <1>1 DEF Typed
  <2>4. QED BY <1>1, <1>3, <1>4, <2>1, <2>2, <2>3 DEF Typed
<1>6. ASSUME NEW i \in Runtimes PROVE Sound(i)'
  <2>1. /\ Sound(i) /\ saved[i].restarts \in Nat /\ launches[i] \in Nat
        /\ quiet[i] \in Nat /\ misses[i] \in Nat
        /\ misses'[i] = IF wiring.kept THEN misses[i] ELSE 0
        /\ listed'[i] = NotListed /\ seen'[i] = "NONE" /\ row'[i] = saved[i]
        /\ (Written(i)' <=> Written(i))
        /\ saved'[i] = saved[i] /\ launches'[i] = launches[i] /\ quiet'[i] = quiet[i]
    BY <1>1, <1>3, <1>4, <1>6, SameWritten DEF RuntimeInv, Typed, Record
  <2>2. RecordSound(i)'
    BY <1>1, <2>1 DEF Sound, RecordSound
  <2>3. PreparingSound(i)'
    <3>1. saved[i].state = "PREPARING" => launches[i] <= saved[i].restarts + crashes'
      BY <1>1, <2>1 DEF Sound, PreparingSound, LaunchesSound
    <3>2. saved[i].state = "PREPARING" /\ i \notin held' => misses'[i] = 0
      BY <1>1, <1>3, <2>1 DEF Sound, PreparingSound
    <3>3. QED BY <1>1, <1>3, <2>1, <3>1, <3>2 DEF PreparingSound
  <2>4. LaunchesSound(i)'
    BY <1>1, <2>1 DEF Sound, LaunchesSound
  <2>5. ListedSound(i)' /\ WrittenSound(i)' /\ SeenSound(i)'
    BY <1>1, <2>1 DEF Sound, ListedSound, WrittenSound, SeenSound
  <2>6. MissesSound(i)'
    BY <1>1, <2>1 DEF Sound, MissesSound
  <2>7. CutOff(i)'
    <3> SUFFICES ASSUME OutOfService(i)', i \notin astray' PROVE ~Reachable(i)'
      BY DEF CutOff
    <3>1. i \notin astray
      BY <1>1
    <3>2. CASE Written(i)
      <4>1. row[i] = saved[i] /\ ~Reachable(i)
        BY <2>1, <3>1, <3>2 DEF Sound, WrittenSound, CutOff, OutOfService
      <4>2. QED BY <1>3, <2>1, <4>1 DEF Reachable
    <3>3. CASE saved[i].state \notin Supervised
      <4>1. i \notin held \/ ~Locked(i)
        BY <1>1, <3>3
      <4>2. ~Reachable(i)
        BY <2>1, <3>1, <3>3, <4>1 DEF Sound, CutOff, OutOfService
      <4>3. row[i].path = saved[i].path \/ ~session[i]
        BY <2>1, <4>1 DEF Sound, RecordSound, Locked
      <4>4. QED BY <1>3, <2>1, <4>2, <4>3 DEF Reachable
    <3>4. QED BY <2>1, <3>2, <3>3 DEF OutOfService
  <2>8. QED BY <2>2, <2>3, <2>4, <2>5, <2>6, <2>7 DEF Sound
<1>7. QED BY <1>5, <1>6 DEF RuntimeInv

\* What a heartbeat, stored, clears is cleared of all that was counted.
LEMMA ProcessSound ==
    ASSUME RuntimeInv, NEW k \in Runtimes, ProcessCalls(k) PROVE RuntimeInv'
<1>1. /\ Typed /\ wiring.threshold \in Nat \ {0} /\ wiring.kept \in BOOLEAN
      /\ created \in Nat /\ 1 .. created \subseteq Runtimes
      /\ UNCHANGED <<wiring, created, row, saved, held, session, served, listen,
                     phase, listed, revoked, crashes, stops, seen, astray, launches>>
  BY WiringTyped, CreatedAreRuntimes DEF RuntimeInv, ProcessCalls
<1>2. open' \subseteq 1 .. created
  <2>1. CASE Reachable(k)
    <3>1. row[k].path \in 1 .. created /\ RecordSound(k)
      BY <1>1, <2>1 DEF RuntimeInv, Sound, Reachable, Typed
    <3>2. k \in 1 .. created
      BY <1>1, <3>1, RuntimeAssumption DEF RecordSound, Unused, Runtimes
    <3>3. QED BY <1>1, <2>1, <3>2 DEF ProcessCalls, Typed
  <2>2. QED BY <1>1, <2>1 DEF ProcessCalls, Typed
<1>3. /\ age' \in [Runtimes -> {"started", "late", "recent", "old"}]
      /\ proc' \in [Runtimes -> {"none", "well", "hung"}]
      /\ misses' \in [Runtimes -> Nat]
      /\ quiet' \in [Runtimes -> 0 .. wiring.threshold]
      /\ \A i \in Runtimes : \/ quiet'[i] = quiet[i] /\ misses'[i] = misses[i]
                             \/ quiet'[i] = 0 /\ misses'[i] = 0
  <2>1. CASE Reachable(k) /\ InTick(k)
    <3>1. /\ age' = [age EXCEPT ![k] = "recent"]
          /\ misses' = [misses EXCEPT ![k] = 0]
          /\ quiet' = [quiet EXCEPT ![k] = 0]
          /\ proc' = proc
      BY <2>1 DEF ProcessCalls
    <3>2. 0 \in Nat /\ 0 \in 0 .. wiring.threshold
      BY <1>1
    <3>3. /\ misses \in [Runtimes -> Nat] /\ quiet \in [Runtimes -> 0 .. wiring.threshold]
          /\ age \in [Runtimes -> {"started", "late", "recent", "old"}]
          /\ proc \in [Runtimes -> {"none", "well", "hung"}]
      BY <1>1 DEF Typed
    <3>4. misses' \in [Runtimes -> Nat] /\ quiet' \in [Runtimes -> 0 .. wiring.threshold]
      BY <3>1, <3>2, <3>3
    <3>5. QED BY <3>1, <3>3, <3>4
  <2>2. CASE ~(Reachable(k) /\ InTick(k))
    BY <1>1, <2>2 DEF ProcessCalls, Typed
  <2>3. QED BY <2>1, <2>2
<1>4. Typed'
  BY <1>1, <1>2, <1>3 DEF Typed
<1>5. ASSUME NEW i \in Runtimes PROVE Sound(i)'
  <2>1. /\ Sound(i) /\ misses[i] \in Nat /\ quiet[i] \in Nat /\ (Written(i)' <=> Written(i))
        /\ \/ quiet'[i] = quiet[i] /\ misses'[i] = misses[i]
           \/ quiet'[i] = 0 /\ misses'[i] = 0
    BY <1>1, <1>3, <1>5, SameWritten DEF RuntimeInv, Typed
  <2>2. RecordSound(i)' /\ LaunchesSound(i)' /\ CutOff(i)' /\ WrittenSound(i)'
    BY <1>1, <2>1 DEF Sound, RecordSound, LaunchesSound, CutOff, OutOfService, Locked,
       Reachable, WrittenSound
  <2>3. PreparingSound(i)' /\ SeenSound(i)'
    BY <1>1, <2>1 DEF Sound, PreparingSound, SeenSound
  <2>4. ListedSound(i)'
    BY <1>1, <2>1 DEF Sound, ListedSound
  <2>5. MissesSound(i)'
    BY <1>1, <2>1 DEF Sound, MissesSound
  <2>6. QED BY <2>2, <2>3, <2>4, <2>5 DEF Sound
<1>6. QED BY <1>4, <1>5 DEF RuntimeInv

\* A publication commits what its session holds: heartbeats, or the tick's work.
LEMMA PublishesSound ==
    ASSUME RuntimeInv, NEW k \in Runtimes, ProcessPublishes(k) PROVE RuntimeInv'
<1>1. /\ Typed /\ wiring.threshold \in Nat \ {0} /\ wiring.kept \in BOOLEAN
      /\ UNCHANGED <<wiring, created, row, host, phase, listed, revoked, crashes,
                     stops, seen, astray, launches>>
  BY WiringTyped DEF RuntimeInv, ProcessPublishes
<1>2. /\ open' \subseteq 1 .. created
      /\ age' \in [Runtimes -> {"started", "late", "recent", "old"}]
      /\ quiet' \in [Runtimes -> 0 .. wiring.threshold]
      /\ saved' = row \/ saved' = saved
      /\ \A i \in Runtimes : quiet'[i] = quiet[i] \/ (quiet'[i] = 0 /\ ~wiring.kept)
  <2>1. CASE InTick(k)
    BY <1>1, <2>1 DEF ProcessPublishes, Typed
  <2>2. CASE ~InTick(k)
    <3> DEFINE stored == open \cap SameManager(k)
    <3>1. /\ open' = open \ stored
          /\ age' = [j \in Runtimes |-> IF j \in stored THEN "recent" ELSE age[j]]
          /\ quiet' = [j \in Runtimes |-> IF j \in stored THEN 0 ELSE quiet[j]]
          /\ saved' = saved /\ ~wiring.kept
      BY <2>2 DEF ProcessPublishes, InTick
    <3> HIDE DEF stored
    <3>2. 0 \in 0 .. wiring.threshold
      BY <1>1
    <3>3. quiet' \in [Runtimes -> 0 .. wiring.threshold]
      BY <1>1, <3>1, <3>2 DEF Typed
    <3>4. QED BY <1>1, <3>1, <3>3 DEF Typed
  <2>3. QED BY <2>1, <2>2
<1>3. Typed'
  BY <1>1, <1>2 DEF Typed, host
<1>4. ASSUME NEW i \in Runtimes PROVE Sound(i)'
  <2>1. /\ Sound(i) /\ misses[i] \in Nat /\ quiet[i] \in Nat /\ (Written(i)' <=> Written(i))
        /\ quiet'[i] = quiet[i] \/ (quiet'[i] = 0 /\ ~wiring.kept)
        /\ saved'[i] = row[i] \/ saved'[i] = saved[i]
        /\ row[i].restarts \in Nat /\ launches[i] \in Nat /\ crashes \in Nat
        /\ UNCHANGED <<wiring, created, row, proc, held, session, served, misses, phase, listed,
                       crashes, seen, astray, launches>>
    BY <1>1, <1>2, <1>4, SameWritten DEF RuntimeInv, Typed, host, Record
  <2>2. RecordSound(i)' /\ WrittenSound(i)' /\ SeenSound(i)'
    BY <2>1 DEF Sound, RecordSound, WrittenSound, SeenSound
  <2>3. PreparingSound(i)'
    BY <2>1 DEF Sound, PreparingSound
  <2>4. LaunchesSound(i)'
    BY <2>1 DEF Sound, LaunchesSound
  <2>5. ListedSound(i)'
    BY <1>1, <2>1 DEF Sound, ListedSound
  <2>6. MissesSound(i)'
    BY <1>1, <2>1 DEF Sound, MissesSound
  <2>7. CutOff(i)'
    BY <2>1 DEF Sound, CutOff, OutOfService, Locked, Reachable
  <2>8. QED BY <2>2, <2>3, <2>4, <2>5, <2>6, <2>7 DEF Sound
<1>5. QED BY <1>3, <1>4 DEF RuntimeInv

LEMMA WorldAround ==
    ASSUME RuntimeInv,
           \/ \E i \in Runtimes, how \in Failures : Fails(i, how)
           \/ \E i \in Runtimes : GrowsOld(i)
           \/ Revoke
           \/ UNCHANGED vars
    PROVE  RuntimeInv'
<1> USE DEF RuntimeInv
<1>1. /\ UNCHANGED <<wiring, created, row, saved, held, session, served, listen, misses,
                     phase, listed, crashes, open, stops, seen, astray, launches, quiet>>
      /\ age' \in [Runtimes -> {"started", "late", "recent", "old"}]
      /\ proc' \in [Runtimes -> {"none", "well", "hung"}]
      /\ revoked' \in BOOLEAN
  <2>1. CASE \E i \in Runtimes, how \in Failures : Fails(i, how)
    <3>1. \A how \in Failures : how \in {"none", "well", "hung"}
      BY RuntimeAssumption
    <3>2. QED BY <2>1, <3>1 DEF Fails, Typed, records, others, history
  <2>2. CASE \E i \in Runtimes : GrowsOld(i)
    BY <2>2 DEF GrowsOld, Typed, host, others, history
  <2>3. CASE Revoke
    BY <2>3 DEF Revoke, Typed, records, host, others, history
  <2>4. CASE UNCHANGED vars
    BY <2>4 DEF vars, Typed, records, host, others, history
  <2>5. QED BY <2>1, <2>2, <2>3, <2>4
<1>2. Typed'
  BY <1>1 DEF Typed
<1>3. ASSUME NEW i \in Runtimes PROVE Sound(i)'
  <2>1. Sound(i) /\ (Written(i)' <=> Written(i))
    BY <1>1, <1>3, SameWritten
  <2>2. QED
    BY <1>1, <2>1 DEF Sound, RecordSound, PreparingSound, LaunchesSound, ListedSound,
       MissesSound, WrittenSound, SeenSound, CutOff, OutOfService, Locked, Reachable
<1>4. QED BY <1>2, <1>3

-----------------------------------------------------------------------------
(* The steps of the tick.                                                  *)

\* What a step on runtime i leaves as it was.
SameElsewhere(i) ==
    /\ \A j \in Runtimes \ {i} :
          /\ row'[j] = row[j] /\ saved'[j] = saved[j] /\ listed'[j] = listed[j]
          /\ misses'[j] = misses[j] /\ quiet'[j] = quiet[j] /\ launches'[j] = launches[j]
          /\ j \in held' <=> j \in held
          /\ session'[j] => session[j]
          /\ Reachable(j)' => Reachable(j)
          /\ j \in astray => j \in astray'
          /\ seen'[j] = "NONE"
    /\ UNCHANGED <<wiring, created, phase, crashes, stops>>

\* Such a step, within a phase, keeps the others sound.
LEMMA OthersSound ==
    ASSUME NEW i \in Runtimes, NEW j \in Runtimes \ {i}, Sound(j), SameElsewhere(i)
    PROVE  Sound(j)'
<1>1. Written(j)' <=> Written(j)
  BY SameWritten DEF SameElsewhere
<1>2. RecordSound(j)' /\ PreparingSound(j)' /\ LaunchesSound(j)'
  BY DEF Sound, RecordSound, PreparingSound, LaunchesSound, SameElsewhere
<1>3. ListedSound(j)' /\ MissesSound(j)' /\ WrittenSound(j)' /\ SeenSound(j)'
  BY <1>1 DEF Sound, ListedSound, MissesSound, WrittenSound, SeenSound, SameElsewhere
<1>4. CutOff(j)'
  BY <1>1 DEF Sound, CutOff, OutOfService, Locked, SameElsewhere
<1>5. QED BY <1>2, <1>3, <1>4 DEF Sound

LEMMA RestartStep ==
    ASSUME RuntimeInv, NEW i \in Runtimes, NEW outcome \in Outcomes, Restart(i, outcome)
    PROVE  LET v == Restarted(i, outcome)
           IN  /\ phase = "restart"
               /\ "PREPARING" \in {row[i].state, seen[i]} /\ i \notin held /\ ~Written(i)
               /\ i \in 1 .. created /\ RestartPath(i) \in 1 .. created
               /\ v \in Worlds /\ OthersUnserved(v, i) /\ RestartDone(v, i)
               /\ row' = v.row
<1>1. /\ phase = "restart" /\ row' = Restarted(i, outcome).row
      /\ "PREPARING" \in {row[i].state, seen[i]} /\ i \notin held /\ ~Written(i)
  BY DEF Restart, Preparing, Seen, Free
<1>2. Sound(i) /\ Typed
  BY DEF RuntimeInv
<1>3. i \in 1 .. created /\ row[i].path \in 1 .. created
  BY <1>1, <1>2, CreatedAreRuntimes DEF Sound, RecordSound, SeenSound, Unused, Runtimes
<1>4. RestartPath(i) \in 1 .. created
  BY <1>2, <1>3 DEF RestartPath, Typed
<1>5. QED BY <1>1, <1>2, <1>3, <1>4, Restarting

LEMMA RestartSound ==
    ASSUME RuntimeInv, NEW i \in Runtimes, NEW outcome \in Outcomes, Restart(i, outcome)
    PROVE  RuntimeInv'
<1> DEFINE v == Restarted(i, outcome)
<1>1. /\ wiring.threshold \in Nat \ {0} /\ wiring.kept \in BOOLEAN
      /\ created \in Nat /\ 1 .. created \subseteq Runtimes
      /\ Typed /\ Sound(i)
      /\ phase = "restart"
      /\ "PREPARING" \in {row[i].state, seen[i]} /\ i \notin held /\ ~Written(i)
      /\ i \in 1 .. created /\ RestartPath(i) \in 1 .. created
  BY RestartStep, WiringTyped, CreatedAreRuntimes DEF RuntimeInv
<1>2. v \in Worlds /\ OthersUnserved(v, i) /\ RestartDone(v, i)
  BY RestartStep
<1>3. /\ row' = v.row /\ HostBecomes(v) /\ listen' = RestartPath(i)
      /\ astray' = astray \ {i}
      /\ seen' = [j \in Runtimes |-> "NONE"]
      /\ UNCHANGED <<wiring, created, saved, phase, listed, revoked, crashes, open, stops>>
  BY DEF Restart, ReadAnew
<1> HIDE DEF v
<1>4. /\ age' \in [Runtimes -> {"started", "late", "recent", "old"}]
      /\ launches' \in [Runtimes -> Nat]
      /\ quiet' \in [Runtimes -> 0 .. wiring.threshold]
      /\ quiet'[i] = quiet[i] \/ quiet'[i] = 0
      /\ launches'[i] = launches[i] \/ launches'[i] = launches[i] + 1
      /\ \A j \in Runtimes \ {i} : quiet'[j] = quiet[j] /\ launches'[j] = launches[j]
  <2>1. CASE outcome = "raises"
    BY <1>1, <2>1 DEF Restart, Typed
  <2>2. CASE outcome # "raises"
    <3>1. /\ age' = [age EXCEPT ![i] = IF @ \in {"started", "late"} THEN "started" ELSE @]
          /\ launches' = [launches EXCEPT ![i] = @ + 1]
          /\ quiet' = [quiet EXCEPT ![i] = 0]
      BY <2>2 DEF Restart
    <3>2. age' \in [Runtimes -> {"started", "late", "recent", "old"}]
      BY <1>1, <3>1 DEF Typed
    <3>3. launches' \in [Runtimes -> Nat] /\ quiet' \in [Runtimes -> 0 .. wiring.threshold]
      BY <1>1, <3>1 DEF Typed
    <3>4. QED BY <1>1, <3>1, <3>2, <3>3 DEF Typed
  <2>3. QED BY <2>1, <2>2
<1>5. Typed'
  <2>1. seen' \in [Runtimes -> States]
    BY <1>3 DEF States
  <2>2. QED BY <1>1, <1>2, <1>3, <1>4, <2>1 DEF Typed, HostBecomes, Worlds
<1>6. SameElsewhere(i)
  <2>1. /\ held' = v.held /\ session' = v.session /\ served' = v.served /\ misses' = v.misses
    BY <1>3 DEF HostBecomes
  <2>2. QED
    BY <1>1, <1>2, <1>3, <1>4, <2>1 DEF SameElsewhere, OthersUnserved, Reachable
<1>7. Sound(i)'
  <2>1. /\ listed[i] = NotListed
        /\ row[i].restarts <= saved[i].restarts + 1 /\ saved[i].restarts <= row[i].restarts
        /\ saved[i].state = "PREPARING" => row[i].restarts = saved[i].restarts
        /\ saved[i].state \in InService \cup Ended \cup {"PREPARING"}
        /\ saved[i].path \in 1 .. created
        /\ launches[i] <= row[i].restarts + crashes
        /\ misses[i] = 0
    BY <1>1 DEF Sound, RecordSound, PreparingSound, SeenSound, ListedSound
  <2>2. /\ saved[i].restarts \in Nat /\ row[i].restarts \in Nat
        /\ launches[i] \in Nat /\ launches'[i] \in Nat
        /\ crashes \in Nat /\ quiet'[i] \in Nat /\ saved[i] \in Record
    BY <1>1, <1>4 DEF Typed, Record
  <2>3. /\ row'[i].restarts = row[i].restarts
        /\ row'[i].path = RestartPath(i)
        /\ row'[i].state \in {"RUNNING", "STOPPED", "CRASHED"}
        /\ (row'[i].state = "RUNNING" /\ i \in held') \/ ~session'[i]
        /\ misses'[i] = 0 /\ seen'[i] = "NONE" /\ ~Written(i)'
    BY <1>1, <1>2, <1>3, <2>1, SameWritten DEF RestartDone, HostBecomes
  <2>4. RecordSound(i)'
    BY <1>1, <1>3, <2>1, <2>2, <2>3 DEF RecordSound, InService, Ended
  <2>5. PreparingSound(i)' /\ ListedSound(i)' /\ WrittenSound(i)' /\ SeenSound(i)'
    BY <1>1, <1>3, <2>1, <2>3 DEF PreparingSound, ListedSound, WrittenSound, SeenSound
  <2>6. LaunchesSound(i)'
    BY <1>1, <1>3, <1>4, <2>1, <2>2, <2>3 DEF LaunchesSound
  <2>7. MissesSound(i)'
    BY <1>1, <1>3, <2>2, <2>3 DEF MissesSound
  <2>8. CutOff(i)'
    <3>1. CASE ~session'[i]
      BY <3>1 DEF CutOff, Reachable
    <3>2. CASE row'[i].state = "RUNNING" /\ i \in held'
      <4>1. row'[i].state \in Supervised /\ saved' = saved /\ phase' = "restart"
        BY <1>1, <1>3, <3>2 DEF Supervised
      <4>2. saved[i].state \notin Supervised => row'[i] # saved'[i]
        BY <4>1
      <4>3. ~OutOfService(i)'
        BY <2>3, <3>2, <4>1, <4>2 DEF OutOfService, Locked
      <4>4. QED BY <4>3 DEF CutOff
    <3>3. QED BY <2>3, <3>1, <3>2
  <2>9. QED BY <2>4, <2>5, <2>6, <2>7, <2>8 DEF Sound
<1>8. ASSUME NEW j \in Runtimes PROVE Sound(j)'
  <2>1. CASE j # i
    BY <1>6, <1>8, <2>1, OthersSound DEF RuntimeInv
  <2>2. QED BY <1>7, <2>1
<1>9. QED BY <1>5, <1>8 DEF RuntimeInv

\* What a step of supervise knows before it decides whether to go on.
SuperviseOf(i, from, v) ==
    /\ Typed /\ Sound(i)
    /\ i \in 1 .. created /\ i \in Runtimes
    /\ listed[i] # NotListed
    /\ from = "STOPPED" => row[i].state = "STOPPED"
    /\ v \in Worlds /\ Elsewhere(World, v, i) /\ Counted(i, from, v)
    /\ v.row[i] # row[i] => ~Written(i)
    /\ IF v.ok THEN DealtWith(i, from, v) /\ Continue(v, i) ELSE Abandon(v)
    /\ seen' = [j \in Runtimes |-> "NONE"]
    /\ quiet' \in [Runtimes -> 0 .. wiring.threshold]
    /\ \A j \in Runtimes \ {i} : quiet'[j] = quiet[j]
    /\ quiet[i] <= quiet'[i]
    /\ v.misses[i] <= quiet'[i]
    /\ listed[i].silent => quiet'[i] = quiet[i] + 1 \/ quiet'[i] >= wiring.threshold
    /\ phase = "supervise"
    /\ UNCHANGED <<wiring, created, age, revoked, crashes, stops, astray, launches>>

LEMMA SuperviseStep ==
    ASSUME RuntimeInv, NEW i \in Runtimes, NEW over \in BOOLEAN, Supervise(i, over)
    PROVE  \E from \in States : SuperviseOf(i, from, Dealing(i, over, from))
<1>1. PICK from \in Seen(i) :
        LET w == Dealing(i, over, from)
        IN  /\ phase = "supervise"
            /\ i \in Newest(Pending)
            /\ w.row[i] # row[i] => Free(i)
            /\ IF w.ok THEN Continue(w, i) ELSE Abandon(w)
            /\ ReadAnew
            /\ quiet' = [quiet EXCEPT ![i] =
                            IF listed[i].silent /\ @ < wiring.threshold THEN @ + 1 ELSE @]
            /\ UNCHANGED <<wiring, created, age, revoked, crashes, stops, astray, launches>>
  BY DEF Supervise
<1> DEFINE v == Dealing(i, over, from)
<1>2. /\ listed[i] # NotListed /\ phase = "supervise"
      /\ v.row[i] # row[i] => ~Written(i)
      /\ IF v.ok THEN Continue(v, i) ELSE Abandon(v)
      /\ seen' = [j \in Runtimes |-> "NONE"]
      /\ quiet' = [quiet EXCEPT ![i] =
                     IF listed[i].silent /\ @ < wiring.threshold THEN @ + 1 ELSE @]
      /\ UNCHANGED <<wiring, created, age, revoked, crashes, stops, astray, launches>>
  BY <1>1 DEF Newest, Pending, Free, ReadAnew
<1>3. /\ Typed /\ Sound(i) /\ ListedSound(i) /\ SeenSound(i)
      /\ wiring.threshold \in Nat \ {0}
      /\ quiet \in [Runtimes -> 0 .. wiring.threshold]
      /\ quiet[i] \in 0 .. wiring.threshold
      /\ misses[i] \in Nat /\ created \in Nat
  BY CreatedAreRuntimes, WiringTyped DEF RuntimeInv, Sound, Typed
<1>4. i \in 1 .. created /\ misses[i] <= quiet[i] /\ misses[i] < wiring.threshold
  BY <1>2, <1>3 DEF ListedSound, Runtimes
<1>5. /\ from \in InService \cup {"STOPPED"}
      /\ from = "STOPPED" => row[i].state = "STOPPED"
  BY <1>1, <1>2, <1>3 DEF ListedSound, SeenSound, Seen
<1>6. /\ v \in Worlds /\ Elsewhere(World, v, i)
      /\ v.ok = TRUE => DealtWith(i, from, v)
      /\ Counted(i, from, v)
  BY <1>2, <1>3, <1>4, <1>5, DealingDone
<1>7. v.ok \in BOOLEAN /\ v.misses[i] \in Nat
  BY <1>6 DEF Worlds
<1>8. v = Dealing(i, over, from) /\ from \in States
  BY <1>5 DEF InService, States, Transitions
<1> HIDE DEF v
<1>9. quiet'[i] = IF listed[i].silent /\ quiet[i] < wiring.threshold
                  THEN quiet[i] + 1 ELSE quiet[i]
  BY <1>2, <1>3
<1>10. quiet'[i] \in 0 .. wiring.threshold /\ quiet[i] <= quiet'[i]
  BY <1>3, <1>9
<1>11. /\ quiet' \in [Runtimes -> 0 .. wiring.threshold]
       /\ \A j \in Runtimes \ {i} : quiet'[j] = quiet[j]
  BY <1>2, <1>3, <1>10
<1>12. v.misses[i] <= quiet'[i]
  BY <1>3, <1>4, <1>6, <1>7, <1>9 DEF Counted
<1>13. listed[i].silent => quiet'[i] = quiet[i] + 1 \/ quiet'[i] >= wiring.threshold
  BY <1>3, <1>9
<1>14. SuperviseOf(i, from, v)
  BY <1>2, <1>3, <1>4, <1>5, <1>6, <1>7, <1>10, <1>11, <1>12, <1>13 DEF SuperviseOf
<1>15. QED BY <1>8, <1>14

LEMMA ContinueSound ==
    ASSUME RuntimeInv, NEW i \in Runtimes, NEW from \in States, NEW v,
           SuperviseOf(i, from, v), v.ok = TRUE
    PROVE  RuntimeInv'
<1>1. /\ Typed /\ Sound(i) /\ i \in 1 .. created /\ phase = "supervise"
      /\ wiring.threshold \in Nat \ {0} /\ wiring.kept \in BOOLEAN
      /\ v \in Worlds /\ Elsewhere(World, v, i) /\ Counted(i, from, v) /\ DealtWith(i, from, v)
      /\ from = "STOPPED" => row[i].state = "STOPPED"
      /\ v.row[i] # row[i] => ~Written(i)
      /\ listed[i] # NotListed
      /\ row' = v.row /\ HostBecomes(v)
      /\ listed' = [listed EXCEPT ![i] = NotListed]
      /\ quiet' \in [Runtimes -> 0 .. wiring.threshold]
      /\ \A j \in Runtimes \ {i} : quiet'[j] = quiet[j]
      /\ \A j \in Runtimes : seen'[j] = "NONE"
      /\ v.misses[i] <= quiet'[i]
      /\ UNCHANGED <<wiring, created, age, revoked, crashes, launches, saved, listen, phase,
                     open, stops, astray>>
  BY WiringTyped DEF SuperviseOf, Continue
<1>2. /\ listed' \in [Runtimes -> [state: Supervised \cup {"NONE"}, silent: BOOLEAN]]
      /\ listed'[i] = NotListed
      /\ \A j \in Runtimes \ {i} : listed'[j] = listed[j]
  <2>1. NotListed \in [state: Supervised \cup {"NONE"}, silent: BOOLEAN]
    BY DEF NotListed
  <2>2. QED BY <1>1, <2>1 DEF Typed
<1>3. Typed'
  <2>1. seen' \in [Runtimes -> States]
    BY DEF SuperviseOf, States
  <2>2. held' \subseteq held /\ held' \subseteq 1 .. created
    BY <1>1 DEF HostBecomes, Elsewhere, World, Worlds
  <2>3. QED BY <1>1, <1>2, <2>1, <2>2 DEF Typed, HostBecomes, Worlds
<1>4. SameElsewhere(i)
  BY <1>1, <1>2 DEF SameElsewhere, Elsewhere, World, HostBecomes, Reachable
<1>5. Sound(i)'
  <2>1. /\ row[i] = saved[i] /\ row[i].state \in InService \cup {"STOPPED"}
        /\ RecordSound(i) /\ LaunchesSound(i) /\ CutOff(i)
        /\ row[i].path \in 1 .. created
    BY <1>1 DEF Sound, ListedSound, RecordSound
  <2>2. /\ saved[i].restarts \in Nat /\ launches[i] \in Nat /\ crashes \in Nat
        /\ quiet'[i] \in Nat /\ misses'[i] \in Nat
    BY <1>1, <1>3 DEF Typed, Record
  <2>3. /\ row'[i] = v.row[i] /\ misses'[i] = v.misses[i]
        /\ session'[i] = v.session[i] /\ served' = v.served /\ held' = v.held
        /\ v.served \subseteq served /\ (v.session[i] => session[i])
        /\ Written(i)' <=> Written(i)
    BY <1>1, SameWritten DEF HostBecomes, Elsewhere, World
  <2>4. RecordSound(i)'
    <3>1. row'[i].path = row[i].path /\ row'[i].path = saved[i].path
      BY <1>1, <2>1, <2>3 DEF DealtWith
    <3>2. /\ saved[i].restarts <= row'[i].restarts
          /\ row'[i].restarts <= saved[i].restarts + 1
          /\ row'[i].state \in InService \cup Ended \cup {"PREPARING"}
      <4>1. CASE Stayed(i, from, v)
        BY <2>1, <2>2, <2>3, <4>1 DEF Stayed, InService, Ended
      <4>2. CASE Quarantined(i, from, v)
        BY <2>1, <2>2, <2>3, <4>2 DEF Quarantined, Ended
      <4>3. CASE Readied(i, from, v)
        BY <2>1, <2>2, <2>3, <4>3 DEF Readied
      <4>4. QED BY <1>1, <4>1, <4>2, <4>3 DEF DealtWith
    <3>3. created \in Nat /\ i <= created /\ ~(i > created)
      BY <1>1, CreatedAreRuntimes
    <3>4. saved[i].state \in InService \cup Ended \cup {"PREPARING"} /\ saved[i].path \in 1 .. created
      BY <2>1, <3>3 DEF RecordSound
    <3>5. phase' = "supervise" /\ saved' = saved /\ created' = created
      BY <1>1
    <3>6. QED BY <3>1, <3>2, <3>3, <3>4, <3>5 DEF RecordSound
  <2>5. PreparingSound(i)'
    BY <1>1, <2>1, <2>2, <2>3 DEF PreparingSound, LaunchesSound, DealtWith, Stayed, Quarantined,
       Readied, InService
  <2>6. LaunchesSound(i)'
    BY <1>1, <2>1, <2>2, <2>3 DEF LaunchesSound, DealtWith, Stayed, Quarantined, Readied
  <2>7. MissesSound(i)'
    <3>1. v.misses[i] = wiring.threshold => v.row[i].state = "STOPPED" /\ saved[i].state = "STOPPED"
      BY <1>1, <2>1 DEF Counted, DealtWith, Stayed, Quarantined, Readied, InService
    <3>2. QED BY <1>1, <2>2, <2>3, <3>1 DEF MissesSound, Counted, Ended
  <2>8. CutOff(i)'
    <3>1. CASE Stayed(i, from, v)
      <4>1. CASE v.row[i] = row[i]
        <5>1. OutOfService(i)' => OutOfService(i)
          BY <1>1, <2>3, <4>1 DEF OutOfService
        <5>2. QED BY <1>1, <2>1, <2>3, <4>1, <5>1 DEF CutOff, Reachable
      <4>2. CASE v.row[i] # row[i]
        <5>1. OutOfService(i)' => OutOfService(i)
          BY <1>1, <2>1, <2>3, <3>1, <4>2 DEF OutOfService, Stayed, Supervised, InService
        <5>2. QED BY <1>1, <2>1, <2>3, <5>1 DEF CutOff, Reachable, DealtWith
      <4>3. QED BY <4>1, <4>2
    <3>2. CASE Quarantined(i, from, v) \/ Readied(i, from, v)
      BY <1>1, <2>3, <3>2 DEF CutOff, Reachable, Quarantined, Readied, Unserved, DealtWith
    <3>3. QED BY <1>1, <3>1, <3>2 DEF DealtWith
  <2>9. ListedSound(i)' /\ SeenSound(i)'
    BY <1>1, <1>2 DEF ListedSound, SeenSound
  <2>10. WrittenSound(i)'
    BY <1>1, <2>1, <2>3 DEF Sound, WrittenSound
  <2>11. QED BY <2>4, <2>5, <2>6, <2>7, <2>8, <2>9, <2>10 DEF Sound
<1>6. ASSUME NEW j \in Runtimes PROVE Sound(j)'
  <2>1. CASE j # i
    BY <1>4, <1>6, <2>1, OthersSound DEF RuntimeInv
  <2>2. QED BY <1>5, <2>1
<1>7. QED BY <1>3, <1>6 DEF RuntimeInv

LEMMA AbandonSound ==
    ASSUME RuntimeInv, NEW i \in Runtimes, NEW from \in States, NEW v,
           SuperviseOf(i, from, v), v.ok # TRUE
    PROVE  RuntimeInv'
<1>1. /\ Typed /\ Sound(i) /\ i \in 1 .. created /\ phase = "supervise"
      /\ wiring.threshold \in Nat \ {0} /\ wiring.kept \in BOOLEAN
      /\ v \in Worlds /\ Elsewhere(World, v, i) /\ Counted(i, from, v)
      /\ from = "STOPPED" => row[i].state = "STOPPED"
      /\ listed[i] # NotListed
      /\ Abandon(v)
      /\ quiet' \in [Runtimes -> 0 .. wiring.threshold]
      /\ \A j \in Runtimes \ {i} : quiet'[j] = quiet[j]
      /\ \A j \in Runtimes : seen'[j] = "NONE"
      /\ v.misses[i] <= quiet'[i]
      /\ UNCHANGED <<wiring, created, age, revoked, crashes, launches, saved, stops, astray>>
  BY WiringTyped DEF SuperviseOf, Abandon, Worlds
<1>2. /\ phase' = "idle" /\ row' = saved
      /\ listed' = [j \in Runtimes |-> NotListed]
      /\ open' \subseteq open
      /\ listen' = IF wiring.kept THEN listen ELSE NoPath
      /\ HostBecomes(Forget(v))
  BY <1>1 DEF Abandon
<1>3. /\ proc' = v.proc /\ session' = v.session /\ served' = v.served
      /\ held' = IF wiring.kept THEN v.held ELSE {}
      /\ misses' \in [Runtimes -> Nat]
      /\ \A j \in Runtimes : misses'[j] = IF wiring.kept THEN v.misses[j] ELSE 0
  BY <1>1, <1>2, Forgetting
<1>4. Typed'
  <2>1. listed' \in [Runtimes -> [state: Supervised \cup {"NONE"}, silent: BOOLEAN]]
    BY <1>2 DEF NotListed
  <2>2. seen' \in [Runtimes -> States]
    BY DEF SuperviseOf, States
  <2>3. held' \subseteq 1 .. created
    BY <1>1, <1>3 DEF Worlds
  <2>4. QED BY <1>1, <1>2, <1>3, <2>1, <2>2, <2>3 DEF Typed, Worlds
<1>5. ASSUME NEW j \in Runtimes PROVE Sound(j)'
  <2>1. /\ Sound(j) /\ row'[j] = saved[j] /\ saved'[j] = saved[j]
        /\ row[j].path = saved[j].path
        /\ listed'[j] = NotListed
        /\ (Written(j)' <=> Written(j))
        /\ saved[j].restarts \in Nat /\ launches[j] \in Nat /\ crashes \in Nat
        /\ v.misses[j] \in Nat /\ misses'[j] \in Nat /\ quiet'[j] \in Nat
        /\ misses'[j] = IF wiring.kept THEN v.misses[j] ELSE 0
    BY <1>1, <1>2, <1>3, <1>4, <1>5, SameWritten
       DEF RuntimeInv, Sound, RecordSound, Typed, Record, Worlds
  <2>2. v.session[j] => session[j]
    BY <1>1, <1>5 DEF Elsewhere, World, Typed
  <2>3. RecordSound(j)'
    BY <1>1, <1>2, <2>1 DEF Sound, RecordSound
  <2>4. PreparingSound(j)'
    <3> SUFFICES ASSUME saved[j].state = "PREPARING" PROVE PreparingSound(j)'
      BY <2>1 DEF PreparingSound
    <3>1. row[j] = saved[j]
      BY <1>1, <2>1 DEF Sound, PreparingSound
    <3>2. j # i
      BY <1>1, <3>1 DEF Sound, ListedSound, InService
    <3>3. v.misses[j] = misses[j] /\ (j \in held => j \in v.held)
      BY <1>1, <1>5, <3>2 DEF Elsewhere, World
    <3>4. j \notin held' => j \notin held
      BY <1>1, <1>3, <2>1, <3>1, <3>3 DEF Sound, PreparingSound
    <3>5. j \notin held' => misses'[j] = 0 /\ launches[j] <= saved[j].restarts + crashes
      BY <1>1, <2>1, <3>1, <3>3, <3>4 DEF Sound, PreparingSound
    <3>6. ~wiring.kept => j \notin held'
      BY <1>3
    <3>7. QED BY <1>1, <1>2, <2>1, <3>5, <3>6 DEF PreparingSound
  <2>5. ListedSound(j)' /\ SeenSound(j)' /\ WrittenSound(j)'
    BY <1>1, <2>1 DEF Sound, ListedSound, SeenSound, WrittenSound
  <2>6. LaunchesSound(j)'
    BY <1>1, <1>2, <2>1 DEF Sound, LaunchesSound
  <2>7. MissesSound(j)'
    <3>1. /\ v.misses[j] <= wiring.threshold
          /\ v.misses[j] = wiring.threshold => saved[j].state \in Ended
          /\ wiring.kept => v.misses[j] <= quiet'[j]
      <4>1. CASE j = i
        BY <1>1, <4>1 DEF Counted, Sound, ListedSound, Ended
      <4>2. CASE j # i
        BY <1>1, <1>5, <2>1, <4>2 DEF Elsewhere, World, Sound, MissesSound
      <4>3. QED BY <4>1, <4>2
    <3>2. QED BY <1>1, <1>3, <1>5, <2>1, <3>1 DEF MissesSound
  <2>8. CutOff(j)'
    <3>1. OutOfService(j)' => OutOfService(j)
      BY <1>1, <2>1 DEF OutOfService
    <3>2. v.served \subseteq served
      BY <1>1 DEF Elsewhere, World
    <3>3. QED BY <1>1, <1>3, <2>1, <2>2, <3>1, <3>2 DEF Sound, CutOff, Reachable
  <2>9. QED BY <2>3, <2>4, <2>5, <2>6, <2>7, <2>8 DEF Sound
<1>6. QED BY <1>4, <1>5 DEF RuntimeInv

LEMMA SuperviseSound ==
    ASSUME RuntimeInv, NEW i \in Runtimes, NEW over \in BOOLEAN, Supervise(i, over)
    PROVE  RuntimeInv'
<1>1. PICK from \in States : SuperviseOf(i, from, Dealing(i, over, from))
  BY SuperviseStep
<1> DEFINE v == Dealing(i, over, from)
<1>2. SuperviseOf(i, from, v)
  BY <1>1
<1> HIDE DEF v
<1>3. CASE v.ok = TRUE
  BY <1>2, <1>3, ContinueSound
<1>4. CASE v.ok # TRUE
  BY <1>2, <1>4, AbandonSound
<1>5. QED BY <1>3, <1>4

\* What the security monitor does to a runtime that it read in service.
LEMMA Hit ==
    ASSUME Typed, NEW i \in 1 .. created, NEW from \in Scanned,
           NEW v, v = StopAndQuarantine(SetState(World, i, from), i)
    PROVE  /\ v \in Worlds
           /\ v.row[i].state = "QUARANTINED"
           /\ v.row[i].path = row[i].path
           /\ v.row[i].restarts = row[i].restarts
           /\ v.misses[i] = 0
<1> DEFINE w == SetState(World, i, from)
           u == StopRuntime(w, i)
<1>0. /\ i \in Runtimes /\ row[i] \in Record
      /\ from \in States /\ CanTransition(from, "STOPPING")
  BY CreatedAreRuntimes, MayStop DEF Typed, Scanned, Supervised, States, Transitions
<1>1. /\ w \in Worlds /\ w.ok = TRUE /\ w.row[i] = Put(row[i], from)
      /\ w.row[i].state = from
  <2>1. Read(w, i, from)
    BY <1>0, ReadDone
  <2>2. QED BY <1>0, <2>1 DEF Read, Put, Record
<1>2. v = StopAndQuarantine(w, i)
  OBVIOUS
<1> HIDE DEF w
<1>3. u \in Worlds /\ u.ok = TRUE /\ u.row[i] = Put(w.row[i], "STOPPED") /\ u.misses[i] = 0
  BY <1>0, <1>1, StopDone
<1>4. v = SetState(u, i, "QUARANTINED")
  BY <1>2, <1>3 DEF StopAndQuarantine
<1> HIDE DEF u
<1>5. "QUARANTINED" \in States
  BY DEF States, Transitions
<1>6. v \in Worlds /\ v.row[i] = Put(u.row[i], "QUARANTINED") /\ v.misses = u.misses
  BY <1>0, <1>3, <1>4, <1>5, StateWritten
<1>7. QED BY <1>0, <1>1, <1>3, <1>6 DEF Put, Record

\* A scan passes a runtime by, or stops and quarantines it.
PassedBy(i) ==
    /\ row'[i] = row[i]
    /\ session'[i] = session[i]
    /\ misses'[i] = IF wiring.kept THEN misses[i] ELSE 0
    /\ wiring.kept /\ i \in held => i \in held'

TakenOut(i) ==
    /\ i \in 1 .. created
    /\ row'[i].state = "QUARANTINED"
    /\ row'[i].path = row[i].path /\ row'[i].restarts = row[i].restarts
    /\ row'[i].path \notin served'
    /\ misses'[i] = 0

LEMMA WorldChanged ==
    ASSUME NEW p, NEW s, NEW m, NEW h, NEW g, NEW f,
           f = [World EXCEPT !.proc = p, !.session = s, !.misses = m, !.held = h, !.served = g]
    PROVE  f = [row |-> row, proc |-> p, held |-> h, session |-> s,
                served |-> g, misses |-> m, ok |-> TRUE]
BY DEF World

LEMMA ScanStep ==
    ASSUME RuntimeInv, NEW late \in SUBSET Runtimes, ScanAndCommit(late)
    PROVE  /\ phase = "restart" /\ phase' = "idle" /\ saved' = row'
           /\ row' \in [Runtimes -> Record]
           /\ proc' \in [Runtimes -> {"none", "well", "hung"}]
           /\ session' \in [Runtimes -> BOOLEAN]
           /\ misses' \in [Runtimes -> Nat]
           /\ held' \subseteq held /\ (~wiring.kept => held' = {})
           /\ served' \subseteq served
           /\ listen' \in (1 .. created) \cup {NoPath}
           /\ open' \subseteq open
           /\ seen' = [i \in Runtimes |-> "NONE"]
           /\ \A i \in Runtimes : PassedBy(i) \/ TakenOut(i)
           /\ UNCHANGED <<wiring, created, age, listed, revoked, crashes, stops, astray,
                          launches, quiet>>
<1> DEFINE hit == {i \in Runtimes : revoked /\ (row[i].state \in Scanned \/ i \in late)}
           read(i) == IF i \in late THEN seen[i] ELSE row[i].state
           over(i) == StopAndQuarantine(SetState(World, i, read(i)), i)
           procs == [i \in Runtimes |-> IF i \in hit THEN over(i).proc[i] ELSE proc[i]]
           sessions == [i \in Runtimes |-> IF i \in hit THEN over(i).session[i] ELSE session[i]]
           counts == [i \in Runtimes |-> IF i \in hit THEN over(i).misses[i] ELSE misses[i]]
           f == [World EXCEPT !.proc = procs, !.session = sessions, !.misses = counts,
                              !.held = @ \ hit, !.served = @ \ {row[i].path : i \in hit}]
<1>1. /\ phase = "restart" /\ phase' = "idle" /\ saved' = row'
      /\ row' = [i \in Runtimes |-> IF i \in hit THEN over(i).row[i] ELSE row[i]]
      /\ HostBecomes(Forget(f))
      /\ listen' = IF wiring.kept THEN listen ELSE NoPath
      /\ open' \subseteq open
      /\ seen' = [i \in Runtimes |-> "NONE"]
      /\ UNCHANGED <<wiring, created, age, listed, revoked, crashes, stops, astray,
                     launches, quiet>>
  BY DEF ScanAndCommit, ReadAnew, history
<1> HIDE DEF procs, sessions, counts, hit
<1>2. f = [row |-> row, proc |-> procs, held |-> held \ hit, session |-> sessions,
           served |-> served \ {row[i].path : i \in hit}, misses |-> counts, ok |-> TRUE]
  <2>1. World.held = held /\ World.served = served
    BY DEF World
  <2>2. f = [World EXCEPT !.proc = procs, !.session = sessions, !.misses = counts,
                          !.held = held \ hit, !.served = served \ {row[i].path : i \in hit}]
    BY <2>1
  <2> HIDE DEF f
  <2>3. QED BY ONLY <2>2, WorldChanged
<1> HIDE DEF f
<1> USE DEF procs, sessions, counts, hit
<1>3. Typed /\ wiring.kept \in BOOLEAN
  BY WiringTyped DEF RuntimeInv
<1>4. ASSUME NEW i \in hit
      PROVE  /\ i \in 1 .. created
             /\ over(i) \in Worlds
             /\ over(i).row[i].state = "QUARANTINED"
             /\ over(i).row[i].path = row[i].path
             /\ over(i).row[i].restarts = row[i].restarts
             /\ over(i).misses[i] = 0
  <2>1. Sound(i) /\ Typed /\ i \in Runtimes
    BY DEF RuntimeInv
  <2>2. read(i) \in Scanned
    BY DEF ScanAndCommit
  <2>3. i \in 1 .. created
    <3>1. read(i) # "NONE"
      BY <2>2 DEF Scanned, Supervised
    <3>2. QED
      BY <2>1, <3>1, CreatedAreRuntimes DEF Sound, RecordSound, SeenSound, Unused, Runtimes
  <2>4. QED BY <2>1, <2>2, <2>3, Hit
<1>5. /\ row' \in [Runtimes -> Record]
      /\ procs \in [Runtimes -> {"none", "well", "hung"}]
      /\ sessions \in [Runtimes -> BOOLEAN]
      /\ counts \in [Runtimes -> Nat]
  BY <1>1, <1>3, <1>4 DEF Typed, Worlds
<1>6. f \in Worlds
  <2> HIDE DEF procs, sessions, counts, hit
  <2>1. /\ row \in [Runtimes -> Record] /\ held \ hit \subseteq 1 .. created
        /\ served \ {row[i].path : i \in hit} \subseteq 1 .. created
    BY <1>3 DEF Typed
  <2>2. QED BY <1>2, <1>5, <2>1 DEF Worlds
<1>7. /\ proc' = procs /\ session' = sessions /\ served' = f.served
      /\ held' = IF wiring.kept THEN f.held ELSE {}
      /\ misses' \in [Runtimes -> Nat]
      /\ \A j \in Runtimes : misses'[j] = IF wiring.kept THEN f.misses[j] ELSE 0
  BY <1>1, <1>2, <1>3, <1>6, Forgetting
<1>8. /\ held' \subseteq held /\ served' \subseteq served /\ (~wiring.kept => held' = {})
      /\ listen' \in (1 .. created) \cup {NoPath}
  BY <1>1, <1>2, <1>3, <1>7 DEF Typed
<1>9. ASSUME NEW i \in Runtimes PROVE PassedBy(i) \/ TakenOut(i)
  <2>1. CASE i \in hit
    <3>1. row'[i] = over(i).row[i] /\ f.misses[i] = 0
      BY <1>1, <1>2, <1>4, <2>1
    <3>2. row[i].path \notin served'
      BY <1>2, <1>7, <2>1
    <3>3. misses'[i] = 0
      BY <1>7, <3>1
    <3>4. QED BY <1>4, <2>1, <3>1, <3>2, <3>3 DEF TakenOut
  <2>2. CASE i \notin hit
    <3>1. row'[i] = row[i] /\ f.misses[i] = misses[i] /\ session'[i] = session[i]
      BY <1>1, <1>2, <1>7, <2>2
    <3>2. i \in held => i \in f.held
      BY <1>2, <2>2
    <3>3. QED BY <1>7, <3>1, <3>2 DEF PassedBy
  <2>3. QED BY <2>1, <2>2
<1>10. QED BY <1>1, <1>5, <1>7, <1>8, <1>9

LEMMA ScanSound ==
    ASSUME RuntimeInv, NEW late \in SUBSET Runtimes, ScanAndCommit(late) PROVE RuntimeInv'
<1>1. Typed /\ wiring.threshold \in Nat \ {0} /\ wiring.kept \in BOOLEAN /\ created \in Nat
  BY WiringTyped, CreatedAreRuntimes DEF RuntimeInv
<1>2. Typed'
  <2>1. seen' \in [Runtimes -> States]
    BY ScanStep DEF States
  <2>2. QED BY <1>1, <2>1, ScanStep DEF Typed
<1>3. ASSUME NEW i \in Runtimes PROVE Sound(i)'
  <2>1. /\ Sound(i)
        /\ misses[i] \in Nat /\ quiet[i] \in Nat /\ launches[i] \in Nat /\ crashes \in Nat
        /\ row[i].restarts \in Nat
    BY <1>1, <1>3 DEF RuntimeInv, Typed, Record
  <2>2. /\ phase = "restart" /\ phase' = "idle" /\ saved'[i] = row'[i]
        /\ PassedBy(i) \/ TakenOut(i)
        /\ held' \subseteq held /\ (~wiring.kept => held' = {})
        /\ served' \subseteq served /\ seen'[i] = "NONE"
        /\ (Written(i)' <=> Written(i))
        /\ UNCHANGED <<wiring, created, listed, crashes, astray, launches, quiet>>
    BY <1>3, ScanStep, SameWritten
  <2>3. /\ row'[i].restarts = row[i].restarts /\ row'[i].path = row[i].path
        /\ misses'[i] = 0 \/ (misses'[i] = misses[i] /\ wiring.kept)
    BY <1>1, <2>2 DEF PassedBy, TakenOut
  <2>4. RecordSound(i)'
    BY <1>1, <1>3, <2>1, <2>2, <2>3 DEF Sound, RecordSound, PassedBy, TakenOut, InService, Ended,
       Unused
  <2>5. PreparingSound(i)'
    BY <1>1, <2>1, <2>2, <2>3 DEF Sound, PreparingSound, PassedBy, TakenOut
  <2>6. LaunchesSound(i)'
    BY <2>1, <2>2, <2>3 DEF Sound, LaunchesSound
  <2>7. ListedSound(i)' /\ SeenSound(i)' /\ WrittenSound(i)'
    BY <2>1, <2>2 DEF Sound, ListedSound, SeenSound, WrittenSound
  <2>8. MissesSound(i)'
    BY <1>1, <2>1, <2>2, <2>3 DEF Sound, MissesSound, PassedBy, TakenOut
  <2>9. CutOff(i)'
    BY <2>1, <2>2 DEF Sound, CutOff, OutOfService, Reachable, PassedBy, TakenOut
  <2>10. QED BY <2>4, <2>5, <2>6, <2>7, <2>8, <2>9 DEF Sound
<1>4. QED BY <1>2, <1>3 DEF RuntimeInv

-----------------------------------------------------------------------------
(* The steps of other managers.                                            *)

\* A stop that reads, or gives up, changes what it knows and nothing else.
LEMMA StopKnows ==
    ASSUME RuntimeInv, NEW s \in Stoppers, NEW stop \in StopsOf(created),
           stop.done \subseteq stops[s].done,
           StopGoesOn(s, stop), UNCHANGED <<row, saved, served, seen, astray>>
    PROVE  RuntimeInv'
<1>1. /\ Typed
      /\ stops' = [stops EXCEPT ![s] = stop]
      /\ UNCHANGED <<wiring, created, row, saved, age, proc, held, session, served, listen,
                     misses, phase, listed, revoked, crashes, open, seen, astray, launches,
                     quiet>>
  BY DEF RuntimeInv, StopGoesOn, history
<1>2. stops' \in [Stoppers -> StopsOf(created)]
  BY <1>1 DEF Typed
<1>3. Typed'
  BY <1>1, <1>2 DEF Typed
<1>4. ASSUME NEW i \in Runtimes PROVE Sound(i)'
  <2>1. Sound(i)
    BY <1>4 DEF RuntimeInv
  <2>2. Written(i)' => Written(i)
    BY <1>1 DEF Written, Typed
  <2>3. QED
    BY <1>1, <2>1, <2>2 DEF Sound, RecordSound, PreparingSound, LaunchesSound, ListedSound,
       MissesSound, WrittenSound, SeenSound, CutOff, OutOfService, Locked, Reachable
<1>5. QED BY <1>3, <1>4 DEF RuntimeInv

LEMMA NoStopTyped == ASSUME Typed PROVE NoStop \in StopsOf(created) /\ NoStop.done = {}
BY DEF NoStop, StopsOf

LEMMA SavedPath ==
    ASSUME RuntimeInv, NEW i \in 1 .. created
    PROVE  i \in Runtimes /\ saved[i].path \in 1 .. created
BY CreatedAreRuntimes DEF RuntimeInv, Sound, RecordSound

LEMMA AdminStopSound ==
    ASSUME RuntimeInv, NEW s \in Stoppers, NEW i \in Runtimes, AdminStop(s, i)
    PROVE  RuntimeInv'
<1> DEFINE stop == [NoStop EXCEPT !.todo = {i}, !.path = saved[i].path]
<1>1. /\ stops[s] = NoStop /\ i \in 1 .. created
      /\ StopGoesOn(s, stop) /\ UNCHANGED <<row, saved, served, seen, astray>>
  BY DEF AdminStop, Runtimes
<1>2. saved[i].path \in 1 .. created
  BY <1>1, SavedPath
<1>3. NoStop \in StopsOf(created)
  BY NoStopTyped DEF RuntimeInv
<1>4. stop \in StopsOf(created) /\ stop.done \subseteq stops[s].done
  BY <1>1, <1>2, <1>3 DEF StopsOf
<1>5. QED BY <1>1, <1>4, StopKnows

LEMMA StopModuleSound ==
    ASSUME RuntimeInv, NEW s \in Stoppers, StopModule(s) PROVE RuntimeInv'
<1> DEFINE listing == {i \in 1 .. created : saved[i].state \notin {"STOPPED", "BLOCKED"}}
           stop == [NoStop EXCEPT !.todo = listing]
<1>1. /\ stops[s] = NoStop /\ listing \subseteq 1 .. created
      /\ StopGoesOn(s, stop) /\ UNCHANGED <<row, saved, served, seen, astray>>
  BY DEF StopModule
<1> HIDE DEF listing
<1>2. stop = [todo |-> listing, path |-> NoPath, done |-> {}]
  BY DEF NoStop
<1> HIDE DEF stop
<1>3. stop \in StopsOf(created) /\ stop.done \subseteq stops[s].done
  BY <1>1, <1>2 DEF StopsOf
<1>4. QED BY <1>1, <1>3, StopKnows

LEMMA StopReadsSound ==
    ASSUME RuntimeInv, NEW s \in Stoppers, NEW i \in Runtimes, StopReads(s, i)
    PROVE  RuntimeInv'
<1> DEFINE stop == IF CanTransition(saved[i].state, "STOPPING")
                   THEN [stops[s] EXCEPT !.path = saved[i].path] ELSE NoStop
<1>1. /\ i \in stops[s].todo
      /\ StopGoesOn(s, stop) /\ UNCHANGED <<row, saved, served, seen, astray>>
  BY DEF StopReads, Newest
<1>2. Typed /\ stops[s] \in StopsOf(created)
  BY DEF RuntimeInv, Typed
<1>3. i \in 1 .. created /\ saved[i].path \in 1 .. created
  <2>1. i \in 1 .. created
    BY <1>1, <1>2 DEF StopsOf
  <2>2. QED BY <2>1, SavedPath
<1>4. stop \in StopsOf(created) /\ stop.done \subseteq stops[s].done
  <2>1. CASE stop = [stops[s] EXCEPT !.path = saved[i].path]
    BY <1>2, <1>3, <2>1 DEF StopsOf
  <2>2. CASE stop = NoStop
    BY <1>2, <2>2, NoStopTyped
  <2>3. QED BY <2>1, <2>2
<1> HIDE DEF stop
<1>5. QED BY <1>1, <1>4, StopKnows

LEMMA StopFailsSound ==
    ASSUME RuntimeInv, NEW s \in Stoppers, StopFails(s) PROVE RuntimeInv'
<1>1. NoStop \in StopsOf(created) /\ NoStop.done \subseteq stops[s].done
  BY NoStopTyped DEF RuntimeInv
<1>2. QED BY <1>1, StopKnows DEF StopFails

LEMMA StopWritesSound ==
    ASSUME RuntimeInv, NEW s \in Stoppers, NEW i \in Runtimes, StopWrites(s, i)
    PROVE  RuntimeInv'
<1> DEFINE stop == [todo |-> stops[s].todo \ {i}, path |-> NoPath,
                    done |-> stops[s].done \cup {i}]
<1>1. /\ Typed /\ i \in stops[s].todo /\ row[i] = saved[i]
      /\ stops' = [stops EXCEPT ![s] = stop]
      /\ served' = served \ {stops[s].path}
      /\ astray' = IF stops[s].path = saved[i].path THEN astray \ {i} ELSE astray \cup {i}
      /\ UNCHANGED <<wiring, created, row, saved, age, proc, held, session, listen,
                     misses, phase, listed, revoked, crashes, open, seen, launches, quiet>>
  BY DEF RuntimeInv, StopWrites, StopGoesOn, Newest, Locked, history
<1>2. /\ stops[s] \in StopsOf(created) /\ i \in 1 .. created
      /\ stop \in StopsOf(created) /\ stop.done = stops[s].done \cup {i}
  BY <1>1 DEF Typed, StopsOf
<1> HIDE DEF stop
<1>3. Typed'
  <2>1. stops' \in [Stoppers -> StopsOf(created)]
    BY <1>1, <1>2 DEF Typed
  <2>2. astray' \subseteq 1 .. created /\ served' \subseteq 1 .. created
    BY <1>1, <1>2 DEF Typed
  <2>3. QED BY <1>1, <2>1, <2>2 DEF Typed
<1>4. ASSUME NEW j \in Runtimes PROVE Sound(j)'
  <2>1. Sound(j) /\ j \in Nat
    BY <1>4 DEF RuntimeInv, Runtimes
  <2>2. /\ RecordSound(j)' /\ PreparingSound(j)' /\ LaunchesSound(j)' /\ ListedSound(j)'
        /\ MissesSound(j)' /\ SeenSound(j)'
    BY <1>1, <2>1 DEF Sound, RecordSound, PreparingSound, LaunchesSound, ListedSound,
       MissesSound, SeenSound
  <2>3. CASE j # i
    <3>1. Written(j)' => Written(j)
      BY <1>1, <1>2, <2>3 DEF Written, Typed
    <3>2. j \in astray => j \in astray'
      BY <1>1, <2>3
    <3>3. WrittenSound(j)' /\ CutOff(j)'
      BY <1>1, <2>1, <3>1, <3>2 DEF Sound, WrittenSound, CutOff, OutOfService, Locked, Reachable
    <3>4. QED BY <2>2, <3>3 DEF Sound
  <2>4. CASE j = i
    <3>1. WrittenSound(j)'
      BY <1>1, <1>2, <2>4 DEF WrittenSound
    <3>2. i \notin astray' => row'[i].path \notin served'
      BY <1>1
    <3>3. CutOff(j)'
      BY <2>4, <3>2 DEF CutOff, Reachable
    <3>4. QED BY <2>2, <3>1, <3>3 DEF Sound
  <2>5. QED BY <2>3, <2>4
<1>5. QED BY <1>3, <1>4 DEF RuntimeInv

\* What a stop commits.
StopCommits(s) ==
    /\ \A i \in stops[s].done :
          /\ i \in 1 .. created /\ Written(i) /\ row[i] = saved[i]
          /\ row'[i] = Put(row[i], "STOPPED") /\ saved'[i] = row'[i]
    /\ \A i \in Runtimes \ stops[s].done : row'[i] = row[i] /\ saved'[i] = saved[i]

LEMMA StopEndsStep ==
    ASSUME RuntimeInv, NEW s \in Stoppers, StopEnds(s)
    PROVE  /\ StopCommits(s)
           /\ row' \in [Runtimes -> Record] /\ saved' \in [Runtimes -> Record]
<1> DEFINE done == stops[s].done
<1>1. /\ row' = [i \in Runtimes |->
                   IF i \in done THEN [row[i] EXCEPT !.state = "STOPPED"] ELSE row[i]]
      /\ saved' = [i \in Runtimes |-> IF i \in done THEN row'[i] ELSE saved[i]]
  BY DEF StopEnds
<1>2. Typed /\ stops[s] \in StopsOf(created) /\ done \subseteq 1 .. created
      /\ 1 .. created \subseteq Runtimes
  BY CreatedAreRuntimes DEF RuntimeInv, Typed, StopsOf
<1>3. ASSUME NEW i \in done PROVE Written(i) /\ row[i] = saved[i] /\ i \in Runtimes
  <2>1. i \in Runtimes /\ Written(i)
    BY <1>2 DEF Written
  <2>2. QED BY <2>1 DEF RuntimeInv, Sound, WrittenSound
<1> HIDE DEF done
<1>4. ASSUME NEW i \in Runtimes PROVE [row[i] EXCEPT !.state = "STOPPED"] \in Record
  <2>1. row[i] \in Record
    BY <1>2 DEF Typed
  <2>2. QED BY <2>1 DEF Record, States, Transitions
<1>5. row' \in [Runtimes -> Record]
  BY <1>1, <1>2, <1>4 DEF Typed
<1>6. saved' \in [Runtimes -> Record]
  BY <1>1, <1>2, <1>5 DEF Typed
<1>7. StopCommits(s)
  BY <1>1, <1>2, <1>3 DEF StopCommits, Put, done
<1>8. QED BY <1>5, <1>6, <1>7

LEMMA StopEndsSound ==
    ASSUME RuntimeInv, NEW s \in Stoppers, StopEnds(s) PROVE RuntimeInv'
<1>1. /\ Typed /\ StopCommits(s)
      /\ stops' = [stops EXCEPT ![s] = NoStop]
      /\ seen' = [i \in Runtimes |->
                    IF i \in stops[s].done /\ phase # "idle" /\ seen[i] = "NONE"
                    THEN row[i].state ELSE seen[i]]
      /\ UNCHANGED <<wiring, created, age, proc, held, session, served, listen,
                     misses, phase, listed, revoked, crashes, open, astray, launches, quiet>>
  BY StopEndsStep DEF RuntimeInv, StopEnds, StopGoesOn, history
<1>2. Typed'
  <2>1. stops' \in [Stoppers -> StopsOf(created)]
    BY <1>1, NoStopTyped DEF Typed
  <2>2. seen' \in [Runtimes -> States]
    BY <1>1 DEF Typed, Record
  <2>3. QED BY <1>1, <2>1, <2>2, StopEndsStep DEF Typed
<1>3. ASSUME NEW i \in Runtimes PROVE Sound(i)'
  <2>1. /\ Sound(i) /\ row[i] \in Record /\ row[i].restarts \in Nat /\ created \in Nat
        /\ i \in Nat
    BY <1>1, <1>3, CreatedAreRuntimes DEF RuntimeInv, Typed, Record, Runtimes
  <2>2. Written(i)' => Written(i)
    BY <1>1 DEF Written, Typed, NoStop
  <2>3. CASE i \notin stops[s].done
    <3>1. row'[i] = row[i] /\ saved'[i] = saved[i] /\ seen'[i] = seen[i]
      BY <1>1, <1>3, <2>3 DEF StopCommits
    <3>2. QED
      BY <1>1, <2>1, <2>2, <3>1 DEF Sound, RecordSound, PreparingSound, LaunchesSound,
         ListedSound, MissesSound, WrittenSound, SeenSound, CutOff, OutOfService, Locked,
         Reachable
  <2>4. CASE i \in stops[s].done
    <3>1. /\ i \in 1 .. created /\ Written(i) /\ row[i] = saved[i] /\ saved'[i] = row'[i]
          /\ row'[i].state = "STOPPED" /\ row'[i].path = row[i].path
          /\ row'[i].restarts = row[i].restarts
          /\ \/ seen'[i] = seen[i]
             \/ seen'[i] = row[i].state /\ phase # "idle"
      BY <1>1, <2>1, <2>4 DEF StopCommits, Put, Record
    <3>2. RecordSound(i)' /\ WrittenSound(i)'
      BY <1>1, <2>1, <3>1 DEF Sound, RecordSound, WrittenSound, Ended
    <3>3. PreparingSound(i)' /\ LaunchesSound(i)'
      BY <1>1, <2>1, <3>1 DEF Sound, PreparingSound, LaunchesSound
    <3>4. ListedSound(i)'
      BY <1>1, <2>1, <3>1 DEF Sound, ListedSound
    <3>5. MissesSound(i)'
      BY <1>1, <2>1, <3>1 DEF Sound, MissesSound, Ended
    <3>6. SeenSound(i)'
      BY <1>1, <2>1, <3>1 DEF Sound, SeenSound, PreparingSound
    <3>7. CutOff(i)'
      BY <1>1, <2>1, <3>1 DEF Sound, CutOff, OutOfService, Reachable
    <3>8. QED BY <3>2, <3>3, <3>4, <3>5, <3>6, <3>7 DEF Sound
  <2>5. QED BY <2>3, <2>4
<1>4. QED BY <1>2, <1>3 DEF RuntimeInv

LEMMA StartSound ==
    ASSUME RuntimeInv, NEW outcome \in Outcomes, Start(outcome) PROVE RuntimeInv'
<1>5. PICK n : n = created + 1
  OBVIOUS
<1> DEFINE state == CASE outcome = "ready"    -> "RUNNING"
                      [] outcome = "notReady" -> "STOPPED"
                      [] outcome = "raises"   -> "CRASHED"
           record == [state |-> state, restarts |-> 0, path |-> n]
           first == IF outcome = "raises" THEN 0 ELSE 1
<1>1. /\ created < MaxRuntimes
      /\ wiring.kept => phase = "idle"
      /\ created' = n
      /\ row' = [row EXCEPT ![n] = record]
      /\ saved' = [saved EXCEPT ![n] = record]
      /\ proc' = [proc EXCEPT ![n] = IF outcome = "ready" THEN "well" ELSE "none"]
      /\ session' = [session EXCEPT ![n] = outcome = "ready"]
      /\ held' \subseteq held \cup {n}
      /\ served' \subseteq served \cup {n}
      /\ listen' = IF wiring.kept THEN n ELSE listen
      /\ launches' = [launches EXCEPT ![n] = first]
      /\ UNCHANGED <<wiring, age, misses, phase, listed, revoked, crashes, open, stops, seen,
                     astray, quiet>>
  BY <1>5 DEF Start, others
<1>2. /\ Typed /\ created \in Nat /\ n \in Runtimes /\ n \in Nat
      /\ wiring.threshold \in Nat \ {0} /\ wiring.kept \in BOOLEAN
      /\ NoPath \notin Runtimes
  BY <1>1, <1>5, CreatedAreRuntimes, WiringTyped, RuntimeAssumption DEF RuntimeInv, Runtimes
<1>3. /\ state \in InService \cup Ended /\ state # "PREPARING"
      /\ first \in Nat /\ first <= 1 /\ record.restarts = 0 /\ record.path = n
      /\ record.state = state
      /\ state \notin Supervised => outcome # "ready"
  BY DEF Outcomes, InService, Ended, Supervised
<1>4. record \in Record
  <2> HIDE DEF state
  <2>1. state \in States
    BY <1>3 DEF States, Transitions, InService, Ended
  <2>2. 0 \in 0 .. MaxRestarts
    BY RuntimeAssumption
  <2>3. QED BY <1>2, <2>1, <2>2 DEF Record
<1> HIDE DEF record, state, first
<1>6. Typed'
  <2>1. row' \in [Runtimes -> Record] /\ saved' \in [Runtimes -> Record]
    BY <1>1, <1>2, <1>4 DEF Typed
  <2>2. /\ proc' \in [Runtimes -> {"none", "well", "hung"}]
        /\ launches' \in [Runtimes -> Nat]
    BY <1>1, <1>2, <1>3 DEF Typed
  <2>3. session' \in [Runtimes -> BOOLEAN]
    BY <1>1, <1>2 DEF Typed
  <2>4. created' \in 0 .. MaxRuntimes
    BY <1>1, <1>2, <1>5, RuntimeAssumption
  <2>5. /\ held' \subseteq 1 .. created' /\ served' \subseteq 1 .. created'
        /\ listen' \in (1 .. created') \cup {NoPath}
    BY <1>1, <1>2, <1>5 DEF Typed
  <2>6. ~wiring.kept /\ phase # "restart" => held' = {}
    BY <1>1, <1>2 DEF Typed, Start
  <2>7. 1 .. created \subseteq 1 .. created'
    BY <1>1, <1>2, <1>5
  <2>8. stops' \in [Stoppers -> StopsOf(created')]
    BY <1>1, <1>2, <2>7 DEF Typed, StopsOf
  <2>9. open' \subseteq 1 .. created' /\ astray' \subseteq 1 .. created'
    BY <1>1, <1>2, <2>7 DEF Typed
  <2>10. QED BY <1>1, <1>2, <2>1, <2>2, <2>3, <2>4, <2>5, <2>6, <2>8, <2>9 DEF Typed
<1>7. Sound(n)'
  <2>1. /\ RecordSound(n) /\ MissesSound(n) /\ ListedSound(n) /\ WrittenSound(n)
        /\ SeenSound(n) /\ n > created /\ crashes \in Nat
    BY <1>2, <1>5 DEF RuntimeInv, Sound, Typed
  <2>2. /\ row'[n] = record /\ saved'[n] = record /\ launches'[n] = first
        /\ session'[n] = (outcome = "ready")
    BY <1>1, <1>2 DEF Typed
  <2>3. listed[n] = NotListed /\ seen[n] = "NONE" /\ ~Written(n)'
    BY <1>1, <1>2, <2>1, SameWritten DEF ListedSound, SeenSound, WrittenSound
  <2>4. RecordSound(n)'
    <3>1. ~(n > created') /\ n \in 1 .. created'
      BY <1>1, <1>2, <1>5
    <3>2. /\ row'[n].state \in InService \cup Ended /\ row'[n].path = n
          /\ row'[n].restarts = 0
      BY <1>3, <2>2
    <3>3. QED BY <2>2, <3>1, <3>2 DEF RecordSound
  <2>5. PreparingSound(n)' /\ ListedSound(n)'
    BY <1>1, <1>3, <2>2, <2>3 DEF PreparingSound, ListedSound
  <2>6. LaunchesSound(n)'
    BY <1>1, <1>3, <2>1, <2>2 DEF LaunchesSound
  <2>7. saved[n].state \notin Ended
    BY <2>1 DEF RecordSound, Unused, Ended
  <2>8. MissesSound(n)'
    BY <1>1, <1>2, <2>1, <2>7 DEF MissesSound
  <2>9. CutOff(n)'
    <3>1. state \in Supervised \/ ~session'[n]
      BY <1>3, <2>2
    <3>2. row'[n].state = state /\ saved'[n].state = state
      BY <1>3, <2>2
    <3>3. QED BY <2>3, <3>1, <3>2 DEF CutOff, OutOfService, Reachable
  <2>10. WrittenSound(n)' /\ SeenSound(n)'
    BY <1>1, <2>3 DEF WrittenSound, SeenSound
  <2>11. QED BY <2>4, <2>5, <2>6, <2>8, <2>9, <2>10 DEF Sound
<1>8. ASSUME NEW i \in Runtimes \ {n} PROVE Sound(i)'
  <2>1. /\ Sound(i) /\ row'[i] = row[i] /\ saved'[i] = saved[i] /\ launches'[i] = launches[i]
        /\ session'[i] = session[i] /\ i \in Nat
        /\ (Written(i)' <=> Written(i)) /\ seen'[i] = seen[i]
        /\ row[i].path # n
    <3>1. Sound(i) /\ i \in Nat
      BY <1>8 DEF RuntimeInv, Runtimes
    <3>2. row[i].path # n
      BY <1>2, <1>5, <3>1 DEF Sound, RecordSound, Unused
    <3>3. QED BY <1>1, <1>2, <1>8, <3>1, <3>2, SameWritten DEF Typed
  <2>2. i \in held' <=> i \in held
    BY <1>1, <1>8 DEF Start
  <2>3. RecordSound(i)'
    BY <1>1, <1>2, <1>5, <1>8, <2>1, <2>2 DEF Sound, RecordSound
  <2>4. PreparingSound(i)' /\ LaunchesSound(i)'
    BY <1>1, <2>1, <2>2 DEF Sound, PreparingSound, LaunchesSound
  <2>5. ListedSound(i)'
    BY <1>1, <1>2, <1>5, <2>1 DEF Sound, ListedSound
  <2>6. MissesSound(i)'
    BY <1>1, <2>1 DEF Sound, MissesSound
  <2>7. CutOff(i)'
    BY <1>1, <2>1, <2>2 DEF Sound, CutOff, OutOfService, Locked, Reachable
  <2>8. WrittenSound(i)' /\ SeenSound(i)'
    BY <1>1, <1>2, <1>5, <2>1, <2>2 DEF Sound, WrittenSound, SeenSound
  <2>9. QED BY <2>3, <2>4, <2>5, <2>6, <2>7, <2>8 DEF Sound
<1>9. QED BY <1>6, <1>7, <1>8 DEF RuntimeInv

-----------------------------------------------------------------------------
(* The theorems.                                                           *)

LEMMA RuntimeInductive == RuntimeInv /\ [RuntimeNext]_vars => RuntimeInv'
<1> SUFFICES ASSUME RuntimeInv, [RuntimeNext]_vars PROVE RuntimeInv'
  OBVIOUS
<1>1. CASE TickStep
  <2>1. CASE BeginTick
    BY <2>1, BeginTickSound
  <2>2. CASE \E i \in Runtimes, over \in BOOLEAN : Supervise(i, over)
    BY <2>2, SuperviseSound
  <2>3. CASE EndSupervise
    BY <2>3, EndSuperviseSound
  <2>4. CASE \E i \in Runtimes, outcome \in Outcomes : Restart(i, outcome)
    BY <2>4, RestartSound
  <2>5. CASE \E late \in SUBSET Runtimes : ScanAndCommit(late)
    BY <2>5, ScanSound
  <2>6. QED BY <1>1, <2>1, <2>2, <2>3, <2>4, <2>5 DEF TickStep
<1>2. CASE \E outcome \in Outcomes : Start(outcome)
  BY <1>2, StartSound
<1>3. ASSUME NEW s \in Stoppers,
             \/ \E i \in Runtimes : AdminStop(s, i)
             \/ StopModule(s) \/ StopStep(s) \/ StopFails(s)
      PROVE  RuntimeInv'
  BY <1>3, AdminStopSound, StopModuleSound, StopReadsSound, StopWritesSound, StopEndsSound,
     StopFailsSound DEF StopStep
<1>4. CASE \E i \in Runtimes : ProcessCalls(i) \/ ProcessPublishes(i)
  BY <1>4, ProcessSound, PublishesSound
<1>5. CASE \/ \E i \in Runtimes, how \in Failures : Fails(i, how)
           \/ \E i \in Runtimes : GrowsOld(i)
           \/ Revoke
           \/ UNCHANGED vars
  BY <1>5, WorldAround
<1>6. CASE CollectorDies
  BY <1>6, CollectorDiesSound
<1>7. CASE TickFails
  BY <1>7, TickFailsSound
<1>8. QED
  BY <1>1, <1>2, <1>3, <1>4, <1>5, <1>6, <1>7 DEF RuntimeNext

THEOREM RuntimeInvHolds == RuntimeSpec => []RuntimeInv
BY InitSound, RuntimeInductive, PTL DEF RuntimeSpec

\* No handler leaves a record, a count or a launch beyond what the settings
\* allow, in whatever step a tick failed or the collector died.
THEOREM RuntimeTypeCorrect == RuntimeSpec => []RuntimeTypeOK
<1>1. RuntimeInv => RuntimeTypeOK
  <2> SUFFICES ASSUME RuntimeInv PROVE RuntimeTypeOK
    OBVIOUS
  <2>1. Typed /\ wiring.threshold \in Nat \ {0} /\ created \in Nat
        /\ 1 .. created \subseteq Runtimes
    BY WiringTyped, CreatedAreRuntimes DEF RuntimeInv
  <2>2. ASSUME NEW i \in Runtimes
        PROVE  /\ misses[i] \in 0 .. wiring.threshold
               /\ launches[i] \in 0 .. MaxRestarts + MaxCrashes + 1
    <3>1. /\ LaunchesSound(i) /\ MissesSound(i) /\ row[i] \in Record
          /\ misses[i] \in Nat /\ launches[i] \in Nat /\ crashes \in 0 .. MaxCrashes
      BY <2>1, <2>2 DEF RuntimeInv, Sound, Typed
    <3>2. row[i].restarts \in 0 .. MaxRestarts /\ launches[i] <= row[i].restarts + 1 + crashes
      BY <3>1 DEF Record, LaunchesSound
    <3>3. launches[i] \in 0 .. MaxRestarts + MaxCrashes + 1
      BY <3>1, <3>2, RuntimeAssumption
    <3>4. QED BY <2>1, <3>1, <3>3 DEF MissesSound
  <2>3. misses \in [Runtimes -> 0 .. wiring.threshold]
        /\ launches \in [Runtimes -> 0 .. MaxRestarts + MaxCrashes + 1]
    BY <2>1, <2>2 DEF Typed
  <2>4. listen \in Runtimes \cup {NoPath}
    BY <2>1 DEF Typed
  <2>5. stops \in [Stoppers -> Stop]
    BY <2>1 DEF Typed, StopsOf, Stop
  <2>6. QED BY <2>1, <2>3, <2>4, <2>5 DEF RuntimeTypeOK, Typed
<1>2. QED BY <1>1, RuntimeInvHolds, PTL

\* Whoever stopped a runtime and whatever a tick left half done, a process
\* that is out of service reaches no gateway, unless a stop missed its socket
\* or its restart was rolled back.
THEOREM OutOfServiceStaysCutOff == RuntimeSpec => []OutOfServiceIsCutOff
<1>1. RuntimeInv => OutOfServiceIsCutOff
  BY DEF RuntimeInv, Sound, CutOff, OutOfService, OutOfServiceIsCutOff
<1>2. QED BY <1>1, RuntimeInvHolds, PTL

\* A launch is lost from the restart count only with a collector or its tick.
THEOREM LaunchesStayCounted == RuntimeSpec => []LaunchesCounted
<1>1. RuntimeInv => LaunchesCounted
  BY DEF RuntimeInv, Sound, LaunchesSound, LaunchesCounted
<1>2. QED BY <1>1, RuntimeInvHolds, PTL

\* What RestartsOnlyTheSilent asks of one runtime.
SilentBefore(i) ==
    row'[i].restarts > row[i].restarts /\ proc[i] # "none" => quiet'[i] >= wiring.threshold

\* Only supervise counts a restart.
LEMMA SuperviseCounts ==
    ASSUME RuntimeInv, NEW k \in Runtimes, NEW over \in BOOLEAN, Supervise(k, over),
           NEW i \in Runtimes
    PROVE  SilentBefore(i)
<1>p. PICK from \in States : SuperviseOf(k, from, Dealing(k, over, from))
  BY SuperviseStep
<1> DEFINE v == Dealing(k, over, from)
<1>1. SuperviseOf(k, from, v)
  BY <1>p
<1> HIDE DEF v
<1>2. /\ Typed /\ k \in Runtimes /\ listed[k] # NotListed
      /\ Sound(i) /\ Sound(k)
      /\ wiring.threshold \in Nat \ {0}
      /\ row[i].restarts \in Nat /\ row[k].restarts \in Nat /\ saved[i].restarts \in Nat
      /\ misses[k] \in Nat /\ quiet'[k] \in Nat /\ quiet[k] \in Nat
  BY <1>1, WiringTyped DEF SuperviseOf, RuntimeInv, Typed, Record
<1>3. CASE v.ok # TRUE
  <2>1. row'[i] = saved[i]
    BY <1>1, <1>3 DEF SuperviseOf, Abandon
  <2>2. QED BY <1>2, <2>1 DEF SilentBefore, Sound, RecordSound
<1>4. CASE v.ok = TRUE /\ i # k
  <2>1. row'[i] = row[i]
    BY <1>1, <1>4 DEF SuperviseOf, Continue, Elsewhere, World
  <2>2. QED BY <1>2, <2>1 DEF SilentBefore
<1>5. CASE v.ok = TRUE /\ i = k
  <2>1. DealtWith(k, from, v) /\ row' = v.row
    BY <1>1, <1>5 DEF SuperviseOf, Continue
  <2>2. CASE Stayed(k, from, v) \/ Quarantined(k, from, v)
    BY <1>2, <1>5, <2>1, <2>2 DEF SilentBefore, Stayed, Quarantined
  <2>3. CASE Readied(k, from, v) /\ proc[k] = "none"
    BY <1>5, <2>3 DEF SilentBefore
  <2>4. CASE Readied(k, from, v) /\ listed[k].silent /\ misses[k] + 1 >= wiring.threshold
    <3>1. misses[k] <= quiet[k]
      BY <1>2 DEF Sound, ListedSound
    <3>2. listed[k].silent => quiet'[k] = quiet[k] + 1 \/ quiet'[k] >= wiring.threshold
      BY <1>1 DEF SuperviseOf
    <3>3. quiet'[k] >= wiring.threshold
      BY <1>2, <2>4, <3>1, <3>2
    <3>4. QED BY <1>5, <3>3 DEF SilentBefore
  <2>5. QED BY <2>1, <2>2, <2>3, <2>4 DEF DealtWith, Readied
<1>6. QED BY <1>3, <1>4, <1>5

\* Every other step leaves the counts of the records or takes them back.
NoneCounted == \A i \in Runtimes : row'[i].restarts <= row[i].restarts

LEMMA OthersCountNone ==
    ASSUME RuntimeInv, [RuntimeNext]_vars,
           ~ \E i \in Runtimes, over \in BOOLEAN : Supervise(i, over)
    PROVE  NoneCounted
<1>1. /\ Typed /\ row \in [Runtimes -> Record] /\ created \in Nat /\ 1 .. created \subseteq Runtimes
      /\ \A i \in Runtimes : row[i] \in Record /\ row[i].restarts \in Nat
                             /\ saved[i].restarts <= row[i].restarts
  BY CreatedAreRuntimes DEF RuntimeInv, Typed, Record, Sound, RecordSound
<1>2. CASE row' = row
  BY <1>1, <1>2 DEF NoneCounted
<1>3. CASE row' = saved
  BY <1>1, <1>3 DEF NoneCounted
<1>4. ASSUME NEW i \in Runtimes, NEW outcome \in Outcomes, Restart(i, outcome)
      PROVE  NoneCounted
  <2> DEFINE v == Restarted(i, outcome)
  <2>1. OthersUnserved(v, i) /\ RestartDone(v, i) /\ row' = v.row
    BY <1>4, RestartStep
  <2> HIDE DEF v
  <2>2. QED BY <1>1, <2>1 DEF OthersUnserved, RestartDone, NoneCounted
<1>5. ASSUME NEW late \in SUBSET Runtimes, ScanAndCommit(late) PROVE NoneCounted
  <2>1. \A i \in Runtimes : row'[i] = row[i] \/ row'[i].restarts = row[i].restarts
    BY <1>5, ScanStep DEF PassedBy, TakenOut
  <2>2. QED BY <1>1, <2>1 DEF NoneCounted
<1>6. ASSUME NEW outcome \in Outcomes, Start(outcome) PROVE NoneCounted
  <2>1. PICK n, r : n \in Runtimes /\ r.restarts = 0 /\ row' = [row EXCEPT ![n] = r]
    <3>1. created + 1 \in Runtimes
      BY <1>1, <1>6, RuntimeAssumption DEF Start, Runtimes
    <3>2. QED BY <1>6, <3>1 DEF Start
  <2>2. QED BY <1>1, <2>1 DEF NoneCounted
<1>7. ASSUME NEW s \in Stoppers, StopEnds(s) PROVE NoneCounted
  <2>1. ASSUME NEW i \in Runtimes PROVE row'[i].restarts = row[i].restarts
    <3>1. row'[i] = row[i] \/ row'[i] = Put(row[i], "STOPPED")
      BY <1>7, StopEndsStep DEF StopCommits
    <3>2. QED BY <1>1, <3>1 DEF Put, Record
  <2>2. QED BY <1>1, <2>1 DEF NoneCounted
<1>8. \/ row' = row
      \/ row' = saved
      \/ \E i \in Runtimes, outcome \in Outcomes : Restart(i, outcome)
      \/ \E late \in SUBSET Runtimes : ScanAndCommit(late)
      \/ \E outcome \in Outcomes : Start(outcome)
      \/ \E s \in Stoppers : StopEnds(s)
  BY DEF RuntimeNext, TickStep, BeginTick, EndSupervise, ProcessCalls, ProcessPublishes,
     GrowsOld, Fails, AdminStop, StopModule, StopStep, StopReads, StopWrites, StopFails,
     CollectorDies, TickFails, Abandon, Revoke, vars, records
<1>9. QED BY <1>2, <1>3, <1>4, <1>5, <1>6, <1>7, <1>8

\* A restart of a runtime whose process runs answers a threshold of silent
\* ticks, however managers come and go between them.
THEOREM OnlySilentRestart == RuntimeSpec => RestartsOnlyTheSilent
<1>1. RuntimeInv /\ [RuntimeNext]_vars
          => [\A i \in Runtimes :
                row'[i].restarts > row[i].restarts /\ proc[i] # "none"
                    => quiet'[i] >= wiring.threshold]_vars
  <2> SUFFICES ASSUME RuntimeInv, [RuntimeNext]_vars, NEW i \in Runtimes
               PROVE  SilentBefore(i)
    BY DEF SilentBefore
  <2>1. CASE \E k \in Runtimes, over \in BOOLEAN : Supervise(k, over)
    BY <2>1, SuperviseCounts
  <2>2. CASE ~ \E k \in Runtimes, over \in BOOLEAN : Supervise(k, over)
    <3>1. row'[i].restarts <= row[i].restarts
      BY <2>2, OthersCountNone DEF NoneCounted
    <3>2. row[i].restarts \in Nat /\ row'[i].restarts \in Nat
      BY RuntimeInductive DEF RuntimeInv, Typed, Record
    <3>3. QED BY <3>1, <3>2 DEF SilentBefore
  <2>3. QED BY <2>1, <2>2
<1>2. QED BY <1>1, RuntimeInvHolds, PTL DEF RuntimeSpec, RestartsOnlyTheSilent
=============================================================================
