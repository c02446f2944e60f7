-------------------------- MODULE IsolatedRuntime --------------------------
(***************************************************************************)
(* The isolated runtimes of third-party modules: their records in the      *)
(* database, the sandboxed processes, the sockets and RPC sessions between *)
(* the two, and the supervision tick that restarts, degrades, stops and    *)
(* quarantines them (platform/modules/isolation).                          *)
(*                                                                         *)
(* A tick is one transaction of many awaits: it lists the records, deals   *)
(* with each from that listing, restarts what it prepared, scans for       *)
(* revocations, commits.  Between its steps the processes run and other    *)
(* managers (the API, the orchestrator's adapter) stop runtimes.  An       *)
(* illegal transition raises, which abandons the whole tick: the records   *)
(* go back to what was committed, the processes and sockets do not.        *)
(*                                                                         *)
(* Every writer reads a record before its UPDATE, and the UPDATE waits for *)
(* the row's lock.  So a stop may use a path, and a tick a state, that is  *)
(* no longer the record's; and a heartbeat, which is an UPDATE that only a *)
(* publication of readings commits, keeps the others waiting.              *)
(***************************************************************************)
EXTENDS Naturals, FiniteSets

CONSTANTS
    MaxRuntimes,    \* runtime instances created in a behaviour (a bound)
    MaxRestarts,    \* settings.isolated_runtime_max_restarts
    MaxCrashes,     \* times the collector dies or its tick fails (a bound)
    Wirings,        \* who keeps the manager, and the miss threshold
    Stoppers,       \* stops that may be under way at a time, elsewhere (a bound)
    Failures,       \* how a process may fail (a bound)
    NoPath          \* no socket

ASSUME RuntimeAssumption ==
    /\ MaxRuntimes \in Nat \ {0}
    /\ MaxRestarts \in Nat
    /\ MaxCrashes \in Nat
    /\ Wirings \subseteq [kept: BOOLEAN, threshold: Nat \ {0}]
    /\ Failures \subseteq {"hung", "none"}
    /\ NoPath \notin 1 .. MaxRuntimes

Runtimes == 1 .. MaxRuntimes

(***************************************************************************)
(* isolation/state_machine.py: the legal transitions of a record.  "NONE"  *)
(* is a record that does not exist yet.                                    *)
(***************************************************************************)
Transitions ==
    [ PREPARING   |-> {"STARTING", "BLOCKED", "QUARANTINED"},
      STARTING    |-> {"HANDSHAKING", "CRASHED", "STOPPED", "QUARANTINED"},
      HANDSHAKING |-> {"READY", "CRASHED", "QUARANTINED", "STOPPED", "STOPPING"},
      READY       |-> {"RUNNING", "STOPPING", "CRASHED", "QUARANTINED", "DEGRADED"},
      RUNNING     |-> {"DEGRADED", "STOPPING", "CRASHED", "QUARANTINED"},
      DEGRADED    |-> {"RUNNING", "STOPPING", "CRASHED", "QUARANTINED"},
      STOPPING    |-> {"STOPPED", "CRASHED"},
      STOPPED     |-> {"PREPARING", "BLOCKED", "QUARANTINED"},
      CRASHED     |-> {"PREPARING", "QUARANTINED", "BLOCKED"},
      QUARANTINED |-> {"STOPPED", "STOPPING"},
      BLOCKED     |-> {"PREPARING"} ]

States == DOMAIN Transitions \cup {"NONE"}

CanTransition(from, to) == from = to \/ to \in Transitions[from]

\* What supervise looks after: a runtime in service.
Supervised == {"RUNNING", "DEGRADED", "READY"}

\* Mutant: degraded runtimes are not scanned.
Scanned_notDegraded == {"RUNNING", "READY", "HANDSHAKING"}

\* What the security monitor scans.
Scanned == Supervised \cup {"HANDSHAKING"}

VARIABLES
    wiring,     \* fixed: [kept, threshold]; kept is one manager for all calls
    created,    \* how many instances were created; the last is the newest
    row,        \* the records, with what a tick in progress has written
    saved,      \* the records as last committed
    age,        \* last_heartbeat_at, or started_at before the first heartbeat
    proc,       \* the process last launched: "none", "well" or "hung"
    held,       \* manager._processes: the runtimes whose process it holds
    session,    \* the process's session is known to the gateway it calls
    served,     \* the socket files on which a gateway listens
    listen,     \* gateway._listen_address of the manager at work
    misses,     \* supervisor._miss_counts of the manager at work
    phase,      \* where the tick is
    listed,     \* supervise's listing, for the runtimes still to be dealt with
    revoked,    \* a revocation of the module or its publisher is active
    crashes,    \* how often the collector died or a tick of it failed
    open,       \* the runtimes with a heartbeat that is not committed
    stops,      \* the stops under way elsewhere
    seen,       \* what the tick may have read of a record before a stop of it
    astray,     \* history: a stop missed its socket, or its restart was rolled back
    launches,   \* history: processes launched for the runtime
    quiet       \* history: ticks that found it silent since it was last heard

records == <<row, saved, age>>
host    == <<proc, held, session, served, listen, misses>>
others  == <<open, stops, astray>>
history == <<launches, quiet>>
vars    == <<wiring, created, records, host, phase, listed, revoked, crashes, others, seen,
             history>>

Record  == [state: States, restarts: 0 .. MaxRestarts, path: Runtimes \cup {NoPath}]
Unused  == [state |-> "NONE", restarts |-> 0, path |-> NoPath]
NotListed == [state |-> "NONE", silent |-> FALSE]

\* A stop elsewhere: what it has still to stop, the path it read for the
\* runtime whose turn it is, and the records it wrote and has not committed.
Stop   == [todo: SUBSET Runtimes, path: Runtimes \cup {NoPath}, done: SUBSET Runtimes]
NoStop == [todo |-> {}, path |-> NoPath, done |-> {}]

\* "started" and "late": no heartbeat yet; "recent" and "old": one was stored.
Silent(i) == age[i] \in {"late", "old"}

\* The process can reach a gateway that accepts its session.
Reachable(i) == row[i].path \in served /\ session[i]

\* The row locks: of the rows a tick has written, of those a stop has
\* written, and of those with a heartbeat that its session has not committed.
Locked(i)  == row[i] # saved[i]
Written(i) == \E s \in Stoppers : i \in stops[s].done

\* The runtime calls a manager whose session is the one the tick uses.
InTick(i) == wiring.kept \/ i \in held

\* The tick's UPDATE of the record need not wait.
Free(i) == ~Written(i) /\ (i \in open => InTick(i))

\* What a step of the tick may have read of a record before its UPDATE.
Seen(i) == {row[i].state} \cup ({seen[i]} \ {"NONE"})

-----------------------------------------------------------------------------
(* What the handlers do to the world w: records, processes, sockets and    *)
(* the manager's memory.  ok becomes FALSE where the code raises.          *)

World == [row |-> row, proc |-> proc, held |-> held, session |-> session,
          served |-> served, misses |-> misses, ok |-> TRUE]

Raised(w) == [w EXCEPT !.ok = FALSE]

SetState(w, i, state) == [w EXCEPT !.row[i].state = state]

\* The process is forgotten before anything is checked.
Forgotten(w, i) == [w EXCEPT !.held = @ \ {i}]

\* Mutant: the socket is removed only along with a process of its own.
TearDown_ownSocket(w, i) ==
    LET owned == i \in w.held
    IN  [Forgotten(w, i) EXCEPT
            !.proc[i]    = IF owned THEN "none" ELSE @,
            !.session[i] = @ /\ ~(wiring.kept \/ owned),
            !.served     = IF owned THEN @ \ {w.row[i].path} ELSE @,
            !.misses[i]  = 0]

\* Mutant: the misses are not cleared.
TearDown_countKept(w, i) ==
    LET owned == i \in w.held
    IN  [Forgotten(w, i) EXCEPT
            !.proc[i]    = IF owned THEN "none" ELSE @,
            !.session[i] = @ /\ ~(wiring.kept \/ owned),
            !.served     = @ \ {w.row[i].path}]

\* The body of manager.stop_runtime after STOPPING: only the manager that holds
\* the process terminates it, only the gateway that knows its session revokes
\* it, and the socket goes in any case.
TearDown(w, i) ==
    LET owned == i \in w.held
    IN  [Forgotten(w, i) EXCEPT
            !.proc[i]    = IF owned THEN "none" ELSE @,
            !.session[i] = @ /\ ~(wiring.kept \/ owned),
            !.served     = @ \ {w.row[i].path},
            !.misses[i]  = 0]

\* manager.stop_runtime, by the manager of the tick
StopRuntime(w, i) ==
    IF CanTransition(w.row[i].state, "STOPPING")
    THEN SetState(TearDown(w, i), i, "STOPPED")
    ELSE Raised(Forgotten(w, i))

\* Mutant: one restart too many.
MaybeRestart_oneMore(w, i) ==
    IF ~w.ok THEN w
    ELSE IF w.row[i].restarts > MaxRestarts
    THEN SetState(w, i, "QUARANTINED")
    ELSE [w EXCEPT !.row[i].state = "PREPARING", !.row[i].restarts = @ + 1]

\* Mutant: the count stays at one.
MaybeRestart_uncounted(w, i) ==
    IF ~w.ok THEN w
    ELSE IF w.row[i].restarts >= MaxRestarts
    THEN SetState(w, i, "QUARANTINED")
    ELSE [w EXCEPT !.row[i].state = "PREPARING", !.row[i].restarts = 1]

\* supervisor._maybe_restart
MaybeRestart(w, i) ==
    IF ~w.ok THEN w
    ELSE IF w.row[i].restarts >= MaxRestarts
    THEN SetState(w, i, "QUARANTINED")
    ELSE [w EXCEPT !.row[i].state = "PREPARING", !.row[i].restarts = @ + 1]

\* supervisor._handle_crash
HandleCrash(w, i) ==
    LET cleared == [w EXCEPT !.held = @ \ {i}, !.session[i] = FALSE, !.misses[i] = 0]
    IN  IF CanTransition(w.row[i].state, "CRASHED")
        THEN MaybeRestart(SetState(cleared, i, "CRASHED"), i)
        ELSE Raised(cleared)

\* supervisor._check_disk_quota and security_monitor._stop_security_event
StopAndQuarantine(w, i) ==
    LET stopped == StopRuntime(w, i)
    IN  IF stopped.ok THEN SetState(stopped, i, "QUARANTINED") ELSE stopped

\* Mutant: the threshold must be exceeded.
Missed_strict(w, i, listedState) ==
    LET counted == [w EXCEPT !.misses[i] = @ + 1]
    IN  IF counted.misses[i] > wiring.threshold
        THEN MaybeRestart(StopRuntime(counted, i), i)
        ELSE IF listedState # "RUNNING" THEN counted
        ELSE IF CanTransition(w.row[i].state, "DEGRADED")
        THEN SetState(counted, i, "DEGRADED")
        ELSE Raised(counted)

\* supervisor.supervise, for a record past the interval times the threshold.
Missed(w, i, listedState) ==
    LET counted == [w EXCEPT !.misses[i] = @ + 1]
    IN  IF counted.misses[i] >= wiring.threshold
        THEN MaybeRestart(StopRuntime(counted, i), i)
        ELSE IF listedState # "RUNNING" THEN counted
        ELSE IF CanTransition(w.row[i].state, "DEGRADED")
        THEN SetState(counted, i, "DEGRADED")
        ELSE Raised(counted)

HostBecomes(w) ==
    /\ proc' = w.proc
    /\ held' = w.held
    /\ session' = w.session
    /\ served' = w.served
    /\ misses' = w.misses

-----------------------------------------------------------------------------
RuntimeInit ==
    /\ wiring \in Wirings
    /\ created = 0
    /\ row = [i \in Runtimes |-> Unused]
    /\ saved = row
    /\ age = [i \in Runtimes |-> "started"]
    /\ proc = [i \in Runtimes |-> "none"]
    /\ held = {}
    /\ session = [i \in Runtimes |-> FALSE]
    /\ served = {}
    /\ listen = NoPath
    /\ misses = [i \in Runtimes |-> 0]
    /\ phase = "idle"
    /\ listed = [i \in Runtimes |-> NotListed]
    /\ revoked = FALSE
    /\ crashes = 0
    /\ open = {}
    /\ stops = [s \in Stoppers |-> NoStop]
    /\ seen = [i \in Runtimes |-> "NONE"]
    /\ astray = {}
    /\ launches = [i \in Runtimes |-> 0]
    /\ quiet = [i \in Runtimes |-> 0]

\* The checks in start_runtime that come before the record: here, the revocations.
MayStart == ~revoked

\* manager.start_runtime: a new record, a server on its own socket, a launch.
\* The launch raises, or the process does not get ready in time, or it runs.
Start(outcome) ==
    LET i == created + 1
        state == CASE outcome = "ready"    -> "RUNNING"
                   [] outcome = "notReady" -> "STOPPED"
                   [] outcome = "raises"   -> "CRASHED"
        record == [state |-> state, restarts |-> 0, path |-> i]
    IN  /\ created < MaxRuntimes
        /\ MayStart
        /\ wiring.kept => phase = "idle"
        /\ created' = i
        /\ row' = [row EXCEPT ![i] = record]
        /\ saved' = [saved EXCEPT ![i] = record]
        /\ proc' = [proc EXCEPT ![i] = IF outcome = "ready" THEN "well" ELSE "none"]
        /\ session' = [session EXCEPT ![i] = outcome = "ready"]
        /\ held' = IF wiring.kept /\ outcome = "ready" THEN held \cup {i} ELSE held
        /\ served' = IF outcome = "notReady" THEN served ELSE served \cup {i}
        /\ listen' = IF wiring.kept THEN i ELSE listen
        /\ launches' = [launches EXCEPT ![i] = IF outcome = "raises" THEN 0 ELSE 1]
        /\ UNCHANGED <<wiring, age, misses, phase, listed, revoked, crashes, others, seen, quiet>>

Newest(S) == {i \in S : \A j \in S : j <= i}

StopGoesOn(s, stop) ==
    /\ stops' = [stops EXCEPT ![s] = stop]
    /\ UNCHANGED <<wiring, created, age, proc, held, session, listen, misses,
                   phase, listed, revoked, crashes, open, history>>

\* POST /{id}/stop of the API, with a manager and a transaction of its own,
\* reads the record, which is where it has the path from.
AdminStop(s, i) ==
    /\ stops[s] = NoStop
    /\ i <= created
    /\ CanTransition(saved[i].state, "STOPPING")
    /\ StopGoesOn(s, [NoStop EXCEPT !.todo = {i}, !.path = saved[i].path])
    /\ UNCHANGED <<row, saved, served, seen, astray>>

\* IsolatedModuleAdapter.stop lists the runtimes of the module that it will
\* stop, with a manager of its own and in the transaction of its caller.
StopModule(s) ==
    LET listing == {i \in 1 .. created : saved[i].state \notin {"STOPPED", "BLOCKED"}}
    IN  /\ stops[s] = NoStop
        /\ listing # {}
        /\ StopGoesOn(s, [NoStop EXCEPT !.todo = listing])
        /\ UNCHANGED <<row, saved, served, seen, astray>>

\* stop_runtime reads the record of each again: a runtime that cannot be
\* stopped raises, and what the transaction has written is lost.
StopReads(s, i) ==
    /\ i \in Newest(stops[s].todo)
    /\ stops[s].path = NoPath
    /\ StopGoesOn(s, IF CanTransition(saved[i].state, "STOPPING")
                     THEN [stops[s] EXCEPT !.path = saved[i].path] ELSE NoStop)
    /\ UNCHANGED <<row, saved, served, seen, astray>>

\* Its UPDATE waits for the row.  This manager holds no process and knows no
\* session: all it does is to remove the socket at the path it read.
StopWrites(s, i) ==
    /\ i \in Newest(stops[s].todo)
    /\ stops[s].path # NoPath
    /\ ~Locked(i) /\ ~Written(i) /\ i \notin open
    /\ served' = served \ {stops[s].path}
    /\ astray' = IF stops[s].path = saved[i].path THEN astray \ {i} ELSE astray \cup {i}
    /\ StopGoesOn(s, [todo |-> stops[s].todo \ {i}, path |-> NoPath,
                      done |-> stops[s].done \cup {i}])
    /\ UNCHANGED <<row, saved, seen>>

\* The commit.  A tick under way may have read these records before.
StopEnds(s) ==
    LET done == stops[s].done
    IN  /\ stops[s].todo = {} /\ done # {}
        /\ row' = [i \in Runtimes |->
                     IF i \in done THEN [row[i] EXCEPT !.state = "STOPPED"] ELSE row[i]]
        /\ saved' = [i \in Runtimes |-> IF i \in done THEN row'[i] ELSE saved[i]]
        /\ seen' = [i \in Runtimes |->
                      IF i \in done /\ phase # "idle" /\ seen[i] = "NONE"
                      THEN row[i].state ELSE seen[i]]
        /\ StopGoesOn(s, NoStop)
        /\ UNCHANGED <<served, astray>>

\* The transaction fails, as the victim of a deadlock over the row locks or
\* with its caller: the sockets stay removed, the records stay as they were.
StopFails(s) ==
    /\ stops[s] # NoStop
    /\ StopGoesOn(s, NoStop)
    /\ UNCHANGED <<row, saved, served, seen, astray>>

\* A step of the tick is over: what it read for the next, it reads anew.
ReadAnew == seen' = [i \in Runtimes |-> "NONE"]

\* collector._supervise_isolated_runtimes and the first lines of supervise.
\* Unless a manager is kept, the tick's is new: it holds no process and has
\* counted no miss.
BeginTick ==
    LET known == {i \in 1 .. created : row[i].state \in Supervised}
    IN  /\ phase = "idle"
        /\ created > 0
        /\ phase' = "supervise"
        /\ listed' = [i \in Runtimes |->
                        IF i \in known THEN [state |-> row[i].state, silent |-> Silent(i)]
                        ELSE NotListed]
        /\ ReadAnew
        /\ UNCHANGED <<wiring, created, records, host, revoked, crashes, others, history>>

Pending == {i \in Runtimes : listed[i] # NotListed}

\* A manager that is not kept ends with its tick, and its memory with it.
Forget(w) ==
    IF wiring.kept THEN w
    ELSE [w EXCEPT !.held = {}, !.misses = [i \in Runtimes |-> 0]]

Abandon(w) ==
    /\ phase' = "idle"
    /\ listed' = [i \in Runtimes |-> NotListed]
    /\ row' = saved
    /\ open' = {i \in open : ~InTick(i)}
    /\ HostBecomes(Forget(w))
    /\ listen' = IF wiring.kept THEN listen ELSE NoPath
    /\ UNCHANGED saved

Continue(w, i) ==
    /\ listed' = [listed EXCEPT ![i] = NotListed]
    /\ row' = w.row
    /\ HostBecomes(w)
    /\ UNCHANGED <<saved, listen, phase, open>>

\* What supervise makes of one record of its listing.
Looked(w, i, overQuota) ==
    IF overQuota THEN StopAndQuarantine(w, i)
    ELSE IF i \in held /\ proc[i] = "none" THEN HandleCrash(w, i)
    ELSE IF listed[i].silent THEN Missed(w, i, listed[i].state)
    ELSE [w EXCEPT !.misses[i] = 0]

\* What it makes of it when it read that state: only what it writes stays.
Dealing(i, overQuota, from) ==
    LET read == SetState(World, i, from)
        w    == Looked(read, i, overQuota)
    IN  IF w.row[i] = read.row[i] THEN [w EXCEPT !.row[i] = row[i]] ELSE w

\* The body of supervise's loop, for the newest record not yet dealt with.
Supervise(i, overQuota) ==
    \E from \in Seen(i) :
        LET w == Dealing(i, overQuota, from)
        IN  /\ phase = "supervise"
            /\ i \in Newest(Pending)
            /\ w.row[i] # row[i] => Free(i)
            /\ IF w.ok THEN Continue(w, i) ELSE Abandon(w)
            /\ ReadAnew
            /\ quiet' = [quiet EXCEPT ![i] =
                            IF listed[i].silent /\ @ < wiring.threshold THEN @ + 1 ELSE @]
            /\ UNCHANGED <<wiring, created, age, revoked, crashes, stops, astray, launches>>

EndSupervise ==
    /\ phase = "supervise"
    /\ Pending = {}
    /\ phase' = "restart"
    /\ ReadAnew
    /\ UNCHANGED <<wiring, created, records, host, listed, revoked, crashes, others, history>>

\* manager._process_pending_restarts and restart_runtime_instance.  The socket
\* is the one this manager listened on last, whoever it was made for; without
\* one it listens on the record's, and what served that before is cut off.
Prepared(i)  == row[i].state = "PREPARING" /\ row[i].restarts > 0 /\ i \notin held
Preparing(i) == "PREPARING" \in Seen(i) /\ row[i].restarts > 0 /\ i \notin held

RestartPath(i) == IF listen = NoPath THEN row[i].path ELSE listen
Bound(i) == IF listen = NoPath THEN served \cup {row[i].path} ELSE served
CutOffBy(i) == {j \in Runtimes : listen = NoPath /\ row[j].path = row[i].path} \cup {i}

Relaunched(i) ==
    [World EXCEPT !.row[i]  = [@ EXCEPT !.path = RestartPath(i), !.state = "HANDSHAKING"],
                  !.held    = @ \cup {i},
                  !.proc[i] = "well",
                  !.served  = Bound(i),
                  !.session = [j \in Runtimes |-> @[j] /\ j \notin CutOffBy(i)]]

Restarted(i, outcome) ==
    CASE outcome = "ready"    -> SetState([Relaunched(i) EXCEPT !.session[i] = TRUE], i, "RUNNING")
      [] outcome = "notReady" -> StopRuntime(Relaunched(i), i)
      [] outcome = "raises"   ->
            SetState([Relaunched(i) EXCEPT !.held = held, !.proc = proc], i, "CRASHED")

Restart(i, outcome) ==
    LET w == Restarted(i, outcome)
    IN  /\ phase = "restart"
        /\ Preparing(i) /\ Free(i)
        /\ \A j \in Runtimes : Prepared(j) => j <= i
        /\ outcome = "ready" => RestartPath(i) \in Bound(i)
        /\ row' = w.row
        /\ HostBecomes(w)
        /\ listen' = RestartPath(i)
        /\ astray' = astray \ {i}
        /\ ReadAnew
        /\ IF outcome = "raises" THEN UNCHANGED <<age, launches, quiet>>
           ELSE /\ age' = [age EXCEPT ![i] = IF @ \in {"started", "late"} THEN "started" ELSE @]
                /\ launches' = [launches EXCEPT ![i] = @ + 1]
                /\ quiet' = [quiet EXCEPT ![i] = 0]
        /\ UNCHANGED <<wiring, created, saved, phase, listed, revoked, crashes, open, stops>>

\* security_monitor.scan_active, then the collector's commit.  What it read in
\* service it stops and quarantines, although a stop may have come between.
ScanAndCommit(late) ==
    LET hit == {i \in Runtimes : revoked /\ (row[i].state \in Scanned \/ i \in late)}
        read(i) == IF i \in late THEN seen[i] ELSE row[i].state
        over(i) == StopAndQuarantine(SetState(World, i, read(i)), i)
    IN  /\ phase = "restart"
        /\ late \subseteq {i \in Runtimes : seen[i] \in Scanned}
        /\ \A i \in Runtimes : ~Prepared(i)
        /\ \A i \in hit : Free(i)
        /\ phase' = "idle"
        /\ row' = [i \in Runtimes |-> IF i \in hit THEN over(i).row[i] ELSE row[i]]
        /\ saved' = row'
        /\ HostBecomes(Forget([World EXCEPT
                !.proc    = [i \in Runtimes |-> IF i \in hit THEN over(i).proc[i] ELSE proc[i]],
                !.session = [i \in Runtimes |-> IF i \in hit THEN over(i).session[i] ELSE session[i]],
                !.misses  = [i \in Runtimes |-> IF i \in hit THEN over(i).misses[i] ELSE misses[i]],
                !.held    = @ \ hit,
                !.served  = @ \ {row[i].path : i \in hit}]))
        /\ listen' = IF wiring.kept THEN listen ELSE NoPath
        /\ open' = {i \in open : ~InTick(i)}
        /\ ReadAnew
        /\ UNCHANGED <<wiring, created, age, listed, revoked, crashes, stops, astray, history>>

\* The collector dies: its transaction is lost, and with it go its gateways
\* and, sandboxed to die with their parent, all processes.
CollectorDies ==
    /\ crashes < MaxCrashes
    /\ created > 0
    /\ crashes' = crashes + 1
    /\ phase' = "idle"
    /\ listed' = [i \in Runtimes |-> NotListed]
    /\ row' = saved
    /\ proc' = [i \in Runtimes |-> "none"]
    /\ held' = {}
    /\ session' = [i \in Runtimes |-> FALSE]
    /\ served' = {}
    /\ listen' = NoPath
    /\ misses' = [i \in Runtimes |-> 0]
    /\ open' = {}
    /\ astray' = {}
    /\ ReadAnew
    /\ UNCHANGED <<wiring, created, saved, age, revoked, stops, history>>

\* The tick is the victim of a deadlock over the row locks, or its database
\* fails: what it did to sockets and processes stays.
TickFails ==
    /\ phase # "idle"
    /\ crashes < MaxCrashes
    /\ crashes' = crashes + 1
    /\ Abandon(World)
    /\ astray' = astray \cup {i \in held : Locked(i) /\ saved[i].state \notin Supervised}
    /\ ReadAnew
    /\ UNCHANGED <<wiring, created, age, revoked, stops, history>>

-----------------------------------------------------------------------------
(* The sandboxed processes and the clock.                                  *)

\* The bootstrap's loop: GetHealth is an UPDATE of the record in the session of
\* the manager that launched the process, flushed and not committed.  The tick
\* sees it at once only where that session is its own.  Any refusal (no
\* socket, an unknown session) ends the process.
ProcessCalls(i) ==
    /\ proc[i] = "well"
    /\ IF Reachable(i)
       THEN /\ ~Written(i)
            /\ Locked(i) => InTick(i)
            /\ open' = open \cup {i}
            /\ IF InTick(i)
               THEN /\ age' = [age EXCEPT ![i] = "recent"]
                    /\ misses' = [misses EXCEPT ![i] = 0]
                    /\ quiet' = [quiet EXCEPT ![i] = 0]
               ELSE UNCHANGED <<age, misses, quiet>>
            /\ UNCHANGED proc
       ELSE /\ proc' = [proc EXCEPT ![i] = "none"]
            /\ UNCHANGED <<age, misses, quiet, open>>
    /\ UNCHANGED <<wiring, created, row, saved, held, session, served, listen,
                   phase, listed, revoked, crashes, stops, seen, astray, launches>>

\* The runtimes whose calls the manager answers that answers those of i.
SameManager(i) == {j \in Runtimes : row[j].path = row[i].path /\ session[j]}

\* PublishReadings commits the session of the manager: the heartbeats of all
\* its runtimes, and what a tick has written so far, if it is the tick's.
ProcessPublishes(i) ==
    LET stored == open \cap SameManager(i)
    IN  /\ proc[i] = "well" /\ Reachable(i)
        /\ IF InTick(i)
           THEN /\ saved' = row
                /\ open' = {j \in open : ~InTick(j)}
                /\ UNCHANGED <<age, quiet>>
           ELSE /\ open' = open \ stored
                /\ age' = [j \in Runtimes |-> IF j \in stored THEN "recent" ELSE age[j]]
                /\ quiet' = [j \in Runtimes |-> IF j \in stored THEN 0 ELSE quiet[j]]
                /\ UNCHANGED saved
        /\ UNCHANGED <<wiring, created, row, host, phase, listed, revoked, crashes,
                       stops, seen, astray, launches>>

\* The module hangs, or its process dies: of anything, and of the refusal it
\* gets when its session passes expires_at, which nothing renews.
Fails(i, how) ==
    /\ proc[i] \notin {"none", how}
    /\ proc' = [proc EXCEPT ![i] = how]
    /\ UNCHANGED <<wiring, created, records, held, session, served, listen, misses,
                   phase, listed, revoked, crashes, others, seen, history>>

\* The age of what supervise compares passes interval times threshold, be it
\* that the heartbeats since were not committed or were rolled back.
GrowsOld(i) ==
    /\ row[i].state \in Supervised
    /\ ~Silent(i)
    /\ age' = [age EXCEPT ![i] = IF @ = "started" THEN "late" ELSE "old"]
    /\ UNCHANGED <<wiring, created, row, saved, host, phase, listed, revoked, crashes,
                   others, seen, history>>

Revoke ==
    /\ ~revoked
    /\ revoked' = TRUE
    /\ UNCHANGED <<wiring, created, records, host, phase, listed, crashes, others, seen, history>>

Outcomes == {"ready", "notReady", "raises"}

TickStep ==
    \/ BeginTick
    \/ \E i \in Runtimes, over \in BOOLEAN : Supervise(i, over)
    \/ EndSupervise
    \/ \E i \in Runtimes, outcome \in Outcomes : Restart(i, outcome)
    \/ \E late \in SUBSET Runtimes : ScanAndCommit(late)

StopStep(s) ==
    \/ \E i \in Runtimes : StopReads(s, i) \/ StopWrites(s, i)
    \/ StopEnds(s)

RuntimeNext ==
    \/ TickStep
    \/ \E outcome \in Outcomes : Start(outcome)
    \/ \E i \in Runtimes : ProcessCalls(i) \/ ProcessPublishes(i) \/ GrowsOld(i)
    \/ \E i \in Runtimes, how \in Failures : Fails(i, how)
    \/ \E s \in Stoppers, i \in Runtimes : AdminStop(s, i)
    \/ \E s \in Stoppers : StopModule(s) \/ StopStep(s) \/ StopFails(s)
    \/ CollectorDies
    \/ TickFails
    \/ Revoke

\* The collector's fast lane runs the tick again and again, and each await of
\* it returns once no other session holds the row: of those who wait for a row
\* the database lets the first in, so a tick that may go on again and again
\* does.  A stop that is under way ends, and time passes.
RuntimeFairness ==
    /\ SF_vars(TickStep)
    /\ \A s \in Stoppers : WF_vars(StopStep(s))
    /\ \A i \in Runtimes : WF_vars(GrowsOld(i)) /\ WF_vars(ProcessCalls(i))

RuntimeSpec == RuntimeInit /\ [][RuntimeNext]_vars /\ RuntimeFairness

-----------------------------------------------------------------------------
(* What supervision promises.                                              *)

\* Every variable has its type.
RuntimeTypeOK ==
    /\ wiring \in Wirings
    /\ created \in 0 .. MaxRuntimes
    /\ row \in [Runtimes -> Record] /\ saved \in [Runtimes -> Record]
    /\ age \in [Runtimes -> {"started", "late", "recent", "old"}]
    /\ proc \in [Runtimes -> {"none", "well", "hung"}]
    /\ held \subseteq 1 .. created
    /\ session \in [Runtimes -> BOOLEAN]
    /\ served \subseteq 1 .. created
    /\ listen \in Runtimes \cup {NoPath}
    /\ misses \in [Runtimes -> 0 .. wiring.threshold]
    /\ phase \in {"idle", "supervise", "restart"}
    /\ listed \in [Runtimes -> [state: Supervised \cup {"NONE"}, silent: BOOLEAN]]
    /\ revoked \in BOOLEAN
    /\ crashes \in 0 .. MaxCrashes
    /\ open \subseteq 1 .. created /\ astray \subseteq 1 .. created
    /\ stops \in [Stoppers -> Stop]
    /\ seen \in [Runtimes -> States]
    /\ launches \in [Runtimes -> 0 .. MaxRestarts + MaxCrashes + 1]
    /\ quiet \in [Runtimes -> 0 .. wiring.threshold]

\* A runtime that is out of service is cut off: no gateway would serve the
\* process it may have left running, whoever stopped it and however.  Two ways
\* lead astray: a stop that read the path before a tick moved the runtime to
\* another socket removes the wrong one, and a restart whose tick fails before
\* the commit leaves a process that no record is of.  (stop_runtime,
\* _handle_crash, both failed starts.)
OutOfServiceIsCutOff ==
    \A i \in Runtimes : row[i].state \notin Supervised => i \in astray \/ ~Reachable(i)

\* Every launch after the first is on the record's restart count; only a
\* collector that died, or a tick that failed, between the launch and the
\* commit can lose one.  So crash-loop protection bounds the launches.
\* (_maybe_restart, restart_runtime_instance.)
LaunchesCounted ==
    \A i \in Runtimes : launches[i] <= row[i].restarts + 1 + crashes

\* A runtime whose process still runs is restarted for silence only after as
\* many ticks in a row found it silent as the threshold says, counted from its
\* own launch or the last heartbeat that a tick can see: under a manager that
\* is kept its last one, else its last one that a publication of readings
\* committed.  (_miss_counts, clear_runtime, record_heartbeat.)
RestartsOnlyTheSilent ==
    [][\A i \in Runtimes :
        row'[i].restarts > row[i].restarts /\ proc[i] # "none"
            => quiet'[i] >= wiring.threshold]_vars

\* A runtime in service whose process is gone or hung does not stay in service.
LostRuntimeEnds(i) ==
    []<>~(row[i].state \in Supervised /\ proc[i] # "well")

\* No heartbeat stays uncommitted for good.  Nothing in the code sees to it: a
\* process that dies between a heartbeat and the next publication of its
\* manager leaves the row locked until the collector dies.
HeartbeatsCommitted == \A i \in Runtimes : []<>(i \notin open)

\* With a manager that is kept, or a threshold of one miss, supervision finds
\* every lost runtime, unless a heartbeat keeps its row locked for good.
\* (supervise, _handle_crash, _maybe_restart.)
LostRuntimesEnd ==
    /\ HeartbeatsCommitted
    /\ wiring.kept \/ wiring.threshold = 1
    => \A i \in Runtimes : LostRuntimeEnds(i)

\* Once the module is revoked, no committed record stays in service, unless a
\* heartbeat keeps its row locked for good.
\* (security_monitor.check_runtime; start_runtime denies new ones.)
RevokedRuntimesEnd ==
    HeartbeatsCommitted => (revoked ~> [](\A i \in Runtimes : saved[i].state \notin Supervised))

\* docs/architecture/EMIC_SPRINT_C_5_CLOSURE.md: "heartbeat miss -> DEGRADED
\* -> stop -> bounded restart -> crash-loop quarantine; wired via
\* manager.supervise_tick()": a lost runtime is stopped, as the collector
\* wires it.
HeartbeatMissStops == HeartbeatsCommitted => \A i \in Runtimes : LostRuntimeEnds(i)
=============================================================================
