----------------------- MODULE PackageLifecycleProofs -----------------------
(***************************************************************************)
(* The safety properties of PackageLifecycle, for all archives, versions   *)
(* and requests, and for behaviours of any length.                         *)
(*                                                                         *)
(* The invariant has three parts.  The lock is held by the request that is *)
(* between its work on the files and its commit, unless that is a rollback.*)
(* As long as nothing overlapped what takes no lock, there is at most one  *)
(* such request; what it is about to store fits the files, what it read is *)
(* still the record, and when there is none the record itself fits.  And a *)
(* process that starts and that nothing overlapped has listed the record   *)
(* as it is, so that its verdict is about the files of that record.        *)
(***************************************************************************)
EXTENDS PackageLifecycle, TLAPS

Stages == {"idle", "act", "restore", "select", "store", "delete"}
Steps  == {"down", "verify", "packing", "packed", "load", "select", "store", "up"}

RequestState ==
    [op: {"none", "install", "update", "rollback", "recover", "remove"},
     stage: Stages, arch: Archives \cup {None}, cur: Record \cup {None},
     rec: Record \cup {None}, seen: Record \cup {None}]

StartState ==
    [stage: Steps, view: Record \cup {None}, found: Contents, seen: Record \cup {None}]

\* What the stage of a request says of its other fields.
Shaped(q) ==
    /\ q.stage = "idle" => q.op = "none"
    /\ q.stage = "act" => q.op \in {"install", "update", "remove"}
    /\ q.stage = "restore" => q.op \in {"rollback", "recover"}
    /\ q.stage \in {"select", "store"} =>
        q.op \in {"install", "update", "rollback", "recover"} /\ q.rec \in Record
    /\ q.stage = "delete" => q.op = "remove"
    /\ q.op \in {"install", "update"} => q.arch \in Archives
    /\ q.op \in {"update", "recover", "remove"} => q.cur \in Record

\* Who may hold the lock.
Locks == Requests \cup {"backend", None}

Listed(s) == s.stage \notin {"down", "up"} => s.view \in Record

Typed ==
    /\ row \in Record \cup {None}
    /\ installed \in [Versions -> Contents]
    /\ backup \in [Versions -> Contents]
    /\ req \in [Requests -> RequestState]
    /\ lock \in Locks
    /\ imported \in Archives \cup {None}
    /\ start \in [Processes -> StartState]
    /\ scratch \in Contents
    /\ events \in Nat
    /\ faults \in Nat
    /\ replaced \in Contents
    /\ disturbed \in BOOLEAN
    /\ \A r \in Requests : Shaped(req[r])
    /\ \A p \in Processes : Listed(start[p])

\* The stages that a request is in with the lock of the module.
Holding == {"restore", "select", "store", "delete"}

Locked ==
    \A r \in Requests :
        lock = r <=> req[r].stage \in Holding /\ req[r].op # "rollback"

\* A record of an install or an update names the archive that is there, and
\* the way back that a record offers is what the last update replaced.
Fits(record, by) ==
    /\ record.state = "installed" /\ by \in {"install", "update"} =>
        installed[record.version] = record.sum
    /\ record.back \notin {None, record.version} /\ by # "recover" =>
        backup[record.back] = replaced /\ installed[record.back] = replaced

\* Between the work on the files and the commit of what it comes to.
Work == {"select", "store", "delete"}

Pending(q) ==
    /\ q.stage \in {"select", "store"} => Fits(q.rec, q.op)
    /\ q.stage = "store" => q.seen = row

Settled == row # None => Fits(row, origin)

Consistent ==
    /\ \A r \in Requests : Pending(req[r])
    /\ (\A r \in Requests : req[r].stage \notin Work) => Settled

\* What a start knows that nothing overlapped.
Checked(s) ==
    /\ row # None
    /\ s.view = row
    /\ s.stage = "packing" => scratch = Partial
    /\ s.stage = "packed" => scratch = installed[row.version]
    /\ s.stage = "load" => installed[row.version] = row.sum
    /\ s.stage \in {"select", "store"} => installed[row.version] # row.sum
    /\ s.stage = "store" => s.seen = row

Checking == \A p \in Processes : start[p].stage \notin {"down", "up"} => Checked(start[p])

PackageInv ==
    /\ Typed
    /\ Locked
    /\ Overlap => disturbed
    /\ Undisturbed => Consistent
    /\ ~disturbed => Checking
-----------------------------------------------------------------------------
(* The records.                                                            *)

\* A version is a number, and neither it nor an archive is the model value that
\* stands for nothing.
LEMMA ConstantsDiffer ==
    /\ None \notin Versions /\ None \notin Archives /\ None \notin Requests
    /\ None # Partial /\ Partial \notin Archives
    /\ None # Torn /\ Torn \notin Archives /\ Torn # Partial
    /\ "backend" \notin Requests /\ None # "backend"
    /\ None \notin Record
    /\ \A a \in Archives : VersionOf[a] \in Versions
BY PackageAssumption, RecordAssumption DEF Versions, Processes

LEMMA PromotedTyped ==
    ASSUME NEW a \in Archives, NEW back \in Versions \cup {None}
    PROVE  /\ Promoted(a, back) \in Record
           /\ Promoted(a, back).version = VersionOf[a]
           /\ Promoted(a, back).sum = a
           /\ Promoted(a, back).back = back
BY ConstantsDiffer DEF Promoted, Record

LEMMA QuarantinedTyped ==
    ASSUME NEW record \in Record
    PROVE  /\ Quarantined(record) \in Record
           /\ Quarantined(record).version = record.version
           /\ Quarantined(record).state = "quarantined"
           /\ Quarantined(record).sum = record.sum
           /\ Quarantined(record).back = record.back
BY DEF Quarantined, Record

\* What a flush writes is a record, and it is the one handed in when the
\* selected record is still the one in the database.
LEMMA StoredTyped ==
    ASSUME NEW rec \in Record, NEW seen \in Record \cup {None},
           row \in Record \cup {None}, Storable(seen)
    PROVE  /\ Stored(rec, seen) \in Record
           /\ seen = row => Stored(rec, seen) = rec
BY ConstantsDiffer DEF Stored, Storable, Flushed, Record

LEMMA RestoredTyped ==
    ASSUME row \in Record, row.back # None
    PROVE  /\ Restored \in Record
           /\ Restored.version = row.back
           /\ Restored.back = None
BY DEF Restored, Record

-----------------------------------------------------------------------------
(* A request goes on.                                                      *)

\* The request r is q now, and no other one changed.
Put(r, q) ==
    /\ req'[r] = q
    /\ \A x \in Requests \ {r} : req'[x] = req[x]
    /\ req' \in [Requests -> RequestState]

LEMMA PutsOne ==
    ASSUME Typed, NEW r \in Requests, NEW q \in RequestState,
           req' = [req EXCEPT ![r] = q]
    PROVE  Put(r, q)
BY DEF Typed, Put

\* A request that goes on to a stage, to storing a record, or back.
LEMMA PutsStage ==
    ASSUME Typed, NEW r \in Requests, NEW s \in Stages, Goes(r, s)
    PROVE  Put(r, [req[r] EXCEPT !.stage = s])
<1>1. req \in [Requests -> RequestState] /\ req[r] \in RequestState
  BY DEF Typed
<1> QED
  BY <1>1 DEF Goes, Put, RequestState

LEMMA PutsRecord ==
    ASSUME Typed, NEW r \in Requests, NEW c \in Record, WillStore(r, c)
    PROVE  Put(r, [req[r] EXCEPT !.stage = "select", !.rec = c])
<1>1. req \in [Requests -> RequestState] /\ req[r] \in RequestState
  BY DEF Typed
<1> QED
  BY <1>1 DEF WillStore, Put, RequestState, Stages

LEMMA PutsRecovery ==
    ASSUME Typed, NEW r \in Requests, Recovers(r)
    PROVE  Put(r, [req[r] EXCEPT !.op = "recover", !.stage = "restore"])
<1>1. req \in [Requests -> RequestState] /\ req[r] \in RequestState
  BY DEF Typed
<1> QED
  BY <1>1 DEF Recovers, Put, RequestState, Stages

LEMMA PutsSelected ==
    ASSUME Typed, NEW r \in Requests,
           req' = [req EXCEPT ![r].stage = "store", ![r].seen = row]
    PROVE  Put(r, [req[r] EXCEPT !.stage = "store", !.seen = row])
<1>1. req \in [Requests -> RequestState] /\ req[r] \in RequestState
  BY DEF Typed
<1>2. row \in Record \cup {None}
  BY DEF Typed
<1> QED
  BY <1>1, <1>2 DEF Put, RequestState, Stages

LEMMA IdleTyped == Idle \in RequestState /\ Shaped(Idle)
BY DEF Idle, RequestState, Shaped, Stages

\* What a step does to the requests and the lock when it concerns one of them.
Continues(r) ==
    /\ req' \in [Requests -> RequestState]
    /\ \A x \in Requests : Shaped(req'[x])
    /\ \A x \in Requests \ {r} : req'[x] = req[x]
    /\ lock' \in Locks
    /\ Locked'

LEMMA PutContinues ==
    ASSUME Typed, Locked, NEW r \in Requests, NEW q, Put(r, q), Shaped(q),
           lock' \in Locks,
           lock' = r <=> q.stage \in Holding /\ q.op # "rollback",
           \A x \in Requests \ {r} : lock' = x <=> lock = x
    PROVE  Continues(r)
BY DEF Typed, Locked, Put, Continues

LEMMA EndContinues ==
    ASSUME Typed, Locked, NEW r \in Requests, Ends(r)
    PROVE  Continues(r) /\ req'[r] = Idle
<1>1. Put(r, Idle)
  BY IdleTyped, PutsOne DEF Ends
<1>2. /\ lock' \in Locks
      /\ lock' # r
      /\ \A x \in Requests \ {r} : lock' = x <=> lock = x
  BY ConstantsDiffer DEF Ends, Typed, Locks
<1>3. ~(Idle.stage \in Holding)
  BY DEF Idle, Holding
<1> QED
  BY <1>1, <1>2, <1>3, IdleTyped, PutContinues DEF Put

-----------------------------------------------------------------------------
(* The files.                                                              *)

Dirs == [Versions -> Contents]

LEMMA CopyingTyped ==
    ASSUME NEW dir \in Dirs, NEW v \in Versions
    PROVE  /\ Copying(dir, v) \subseteq Dirs /\ Swapping(dir, v) \subseteq Dirs
           /\ Removing(dir, v) \subseteq Dirs
BY DEF Copying, Swapping, Removing, Dirs, Contents

LEMMA BackedUpTyped ==
    ASSUME installed \in Dirs, backup \in Dirs, NEW from \in Versions
    PROVE  BackedUp(from) \in Dirs
BY DEF BackedUp, Dirs

LEMMA VersionsOfRecords ==
    ASSUME NEW record \in Record
    PROVE  record.version \in Versions /\ record.back \in Versions \cup {None}
BY DEF Record

LEMMA HalfwayTyped ==
    ASSUME Typed, NEW r \in Requests, AtWork(r), NEW left \in Halfway(r)
    PROVE  left.installed \in Dirs /\ left.backup \in Dirs
<1> DEFINE a == req[r].arch
           from == req[r].cur.version
<1>1. installed \in Dirs /\ backup \in Dirs
  BY DEF Typed, Dirs
<1>2. Shaped(req[r]) /\ req[r].stage \in {"act", "restore"}
  BY DEF AtWork, Typed
<1>3. CASE req[r].op = "install"
  <2>1. VersionOf[a] \in Versions
    BY <1>2, <1>3, ConstantsDiffer DEF Shaped
  <2>2. \E i \in Swapping(installed, VersionOf[a]) :
            left = [installed |-> i, backup |-> backup, inside |-> FALSE]
    BY <1>3 DEF Halfway
  <2> QED
    BY <1>1, <2>1, <2>2, CopyingTyped
<1>4. CASE req[r].op = "update"
  <2>1. VersionOf[a] \in Versions /\ from \in Versions
    BY <1>2, <1>4, ConstantsDiffer, VersionsOfRecords DEF Shaped
  <2>2. \/ \E b \in Copying(backup, from) :
                left = [installed |-> installed, backup |-> b, inside |-> FALSE]
        \/ \E i \in Swapping(installed, VersionOf[a]) :
                left = [installed |-> i, backup |-> BackedUp(from), inside |-> TRUE]
    BY <1>4 DEF Halfway
  <2>3. BackedUp(from) \in Dirs
    BY <1>1, <2>1, BackedUpTyped
  <2>4. Copying(backup, from) \subseteq Dirs /\ Swapping(installed, VersionOf[a]) \subseteq Dirs
    BY <1>1, <2>1, CopyingTyped
  <2> QED
    BY <1>1, <2>2, <2>3, <2>4
<1>5. CASE req[r].op = "remove"
  <2>1. from \in Versions
    BY <1>2, <1>5, VersionsOfRecords DEF Shaped
  <2>2. \E i \in Removing(installed, from) :
            left = [installed |-> i, backup |-> backup, inside |-> FALSE]
    BY <1>5 DEF Halfway
  <2> QED
    BY <1>1, <2>1, <2>2, CopyingTyped
<1>6. CASE req[r].op \in {"rollback", "recover"}
  <2>1. \E i \in IF CanRestore THEN Copying(installed, row.back) ELSE {installed} :
            left = [installed |-> i, backup |-> backup, inside |-> FALSE]
    BY <1>6 DEF Halfway
  <2>2. CanRestore => row.back \in Versions
    BY VersionsOfRecords DEF CanRestore, Typed
  <2>3. CanRestore => Copying(installed, row.back) \subseteq Dirs
    BY <1>1, <2>2, CopyingTyped
  <2> QED
    BY <1>1, <2>1, <2>3
<1> QED
  BY <1>2, <1>3, <1>4, <1>5, <1>6 DEF Shaped

-----------------------------------------------------------------------------
(* A step of one request keeps the types and the lock.                     *)

\* The part of the state a request's step leaves to be shown.
Kept(r) ==
    /\ row' \in Record \cup {None}
    /\ installed' \in Dirs
    /\ backup' \in Dirs
    /\ imported' \in Archives \cup {None}
    /\ events' \in Nat
    /\ faults' \in Nat
    /\ replaced' \in Contents
    /\ UNCHANGED <<start, scratch>>
    /\ Continues(r)

LEMMA BeginKeeps ==
    ASSUME Typed, Locked, NEW r \in Requests, NEW q \in RequestState, Begin(r, q),
           Shaped(q), q.stage = "act" \/ (q.stage = "restore" /\ q.op = "rollback")
    PROVE  Kept(r)
<1>1. Put(r, q)
  BY PutsOne DEF Begin
<1>2. req[r].stage = "idle" /\ lock # r
  BY DEF Begin, Idle, Locked, Holding
<1>3. Continues(r)
  BY <1>1, <1>2, PutContinues DEF Begin, Holding, Typed
<1> QED
  BY <1>3 DEF Begin, Event, Kept, Typed, Dirs, files, history

LEMMA ArrivesKeeps ==
    ASSUME Typed, Locked, NEW r \in Requests, Arrives(r)
    PROVE  Kept(r)
<1>1. Idle \in RequestState
  BY IdleTyped
<1>2. CASE \E a \in Archives : BeginInstall(r, a)
  <2>1. PICK a \in Archives : BeginInstall(r, a)
    BY <1>2
  <2> DEFINE q == [Idle EXCEPT !.op = "install", !.stage = "act", !.arch = a]
  <2>2. q \in RequestState /\ Shaped(q) /\ q.stage = "act"
    BY <1>1 DEF RequestState, Shaped, Stages, Idle
  <2>3. Begin(r, q)
    BY <2>1 DEF BeginInstall
  <2> QED
    BY <2>2, <2>3, BeginKeeps
<1>3. CASE \E a \in Archives, allow \in BOOLEAN : BeginUpdate(r, a, allow)
  <2>1. PICK a \in Archives, allow \in BOOLEAN : BeginUpdate(r, a, allow)
    BY <1>3
  <2> DEFINE q == [Idle EXCEPT !.op = "update", !.stage = "act", !.arch = a, !.cur = row]
  <2>2. row \in Record
    BY <2>1 DEF BeginUpdate, Typed
  <2>3. q \in RequestState /\ Shaped(q) /\ q.stage = "act"
    BY <1>1, <2>2 DEF RequestState, Shaped, Stages, Idle
  <2>4. Begin(r, q)
    BY <2>1 DEF BeginUpdate
  <2> QED
    BY <2>3, <2>4, BeginKeeps
<1>4. CASE BeginRollback(r)
  <2> DEFINE q == [Idle EXCEPT !.op = "rollback", !.stage = "restore"]
  <2>1. q \in RequestState /\ Shaped(q) /\ q.stage = "restore" /\ q.op = "rollback"
    BY <1>1 DEF RequestState, Shaped, Stages, Idle
  <2>2. Begin(r, q)
    BY <1>4 DEF BeginRollback
  <2> QED
    BY <2>1, <2>2, BeginKeeps
<1>5. CASE BeginRemove(r)
  <2> DEFINE q == [Idle EXCEPT !.op = "remove", !.stage = "act", !.cur = row]
  <2>1. row \in Record
    BY <1>5 DEF BeginRemove, Typed
  <2>2. q \in RequestState /\ Shaped(q) /\ q.stage = "act"
    BY <1>1, <2>1 DEF RequestState, Shaped, Stages, Idle
  <2>3. Begin(r, q)
    BY <1>5 DEF BeginRemove
  <2> QED
    BY <2>2, <2>3, BeginKeeps
<1> QED
  BY <1>2, <1>3, <1>4, <1>5 DEF Arrives

\* Taking the lock that nobody holds.
LEMMA LockTaken ==
    ASSUME Typed, NEW r \in Requests, lock = None, lock' = r
    PROVE  /\ lock' \in Locks
           /\ \A x \in Requests \ {r} : lock' = x <=> lock = x
BY ConstantsDiffer DEF Locks

LEMMA RefusedKeeps ==
    ASSUME Typed, Locked, NEW r \in Requests, Refused(r)
    PROVE  Kept(r)
BY EndContinues DEF Refused, Kept, Typed, Dirs, files, counts, history

LEMMA InstallFilesKeeps ==
    ASSUME Typed, Locked, NEW r \in Requests, InstallFiles(r)
    PROVE  Kept(r)
<1> DEFINE a == req[r].arch
           q == [req[r] EXCEPT !.stage = "select", !.rec = Promoted(a, None)]
<1>1. a \in Archives /\ req[r] \in RequestState /\ req[r].op = "install"
  BY DEF InstallFiles, Enters, Typed, Shaped
<1>2. Promoted(a, None) \in Record /\ VersionOf[a] \in Versions
  BY <1>1, PromotedTyped, ConstantsDiffer
<1>3. Put(r, q)
  BY <1>2, PutsRecord DEF InstallFiles
<1>4. Shaped(q) /\ q.stage \in Holding /\ q.op # "rollback"
  BY <1>1, <1>2 DEF Shaped, RequestState, Holding
<1>5. lock = None /\ lock' = r
  BY DEF InstallFiles, Enters
<1>6. Continues(r)
  <2> HIDE DEF q
  <2> QED
    BY <1>3, <1>4, <1>5, LockTaken, PutContinues
<1>7. installed' \in Dirs
  BY <1>1, <1>2 DEF InstallFiles, Dirs, Typed, Contents
<1> QED
  BY <1>6, <1>7 DEF InstallFiles, Kept, Typed, Dirs, counts, history

LEMMA UpdateFilesKeeps ==
    ASSUME Typed, Locked, NEW r \in Requests, UpdateFiles(r)
    PROVE  Kept(r)
<1> DEFINE a == req[r].arch
           from == req[r].cur.version
           gate == GateOf(a)
           q == [req[r] EXCEPT !.stage = "select", !.rec = Promoted(a, from)]
           b == [req[r] EXCEPT !.op = "recover", !.stage = "restore"]
<1>1. /\ a \in Archives /\ req[r] \in RequestState /\ req[r].op = "update"
      /\ req[r].cur \in Record
  BY DEF UpdateFiles, Enters, Typed, Shaped
<1>2. VersionOf[a] \in Versions /\ from \in Versions /\ Promoted(a, from) \in Record
  BY <1>1, PromotedTyped, ConstantsDiffer, VersionsOfRecords
<1>3. backup' \in Dirs
  BY <1>2, BackedUpTyped DEF UpdateFiles, Typed, Dirs
<1>4. /\ row' \in Record \cup {None}
      /\ events' \in Nat /\ faults' \in Nat
      /\ UNCHANGED <<start, scratch>>
      /\ lock = None
  BY DEF UpdateFiles, Enters, Typed, counts
<1>5. CASE installed[from] = None
  <2>1. Ends(r) /\ UNCHANGED <<installed, imported, replaced>>
    BY <1>5 DEF UpdateFiles
  <2> QED
    BY <1>3, <1>4, <2>1, EndContinues DEF Kept, Typed, Dirs
<1>6. CASE installed[from] # None
  <2>1. imported' = IF gate = "raises" THEN imported ELSE Runs(a)
    BY <1>6 DEF UpdateFiles
  <2>2. imported' \in Archives \cup {None}
    BY <1>1, <2>1 DEF Runs, Typed
  <2>3. gate \in {"raises", "fails", "passes"}
    BY DEF GateOf
  <2>4. CASE gate = "fails"
    <3>1. Ends(r) /\ UNCHANGED <<installed, replaced>>
      BY <1>6, <2>4 DEF UpdateFiles
    <3> QED
      BY <1>3, <1>4, <2>2, <3>1, EndContinues DEF Kept, Typed, Dirs
  <2>5. CASE gate = "raises"
    <3>1. lock' = r /\ Recovers(r) /\ UNCHANGED <<installed, replaced>>
      BY <1>6, <2>5 DEF UpdateFiles
    <3>2. Put(r, b)
      BY <3>1, PutsRecovery
    <3>3. Shaped(b) /\ b.stage \in Holding /\ b.op # "rollback"
      BY <1>1 DEF Shaped, RequestState, Holding
    <3>4. Continues(r)
      <4> HIDE DEF b
      <4> QED
        BY <1>4, <3>1, <3>2, <3>3, LockTaken, PutContinues
    <3> QED
      BY <1>3, <1>4, <2>2, <3>1, <3>4 DEF Kept, Typed, Dirs
  <2>6. CASE gate = "passes"
    <3>1. /\ lock' = r /\ WillStore(r, Promoted(a, from))
          /\ installed' = [installed EXCEPT ![VersionOf[a]] = a]
          /\ replaced' = installed[from]
      BY <1>6, <2>6 DEF UpdateFiles
    <3>2. Put(r, q)
      BY <1>2, <3>1, PutsRecord
    <3>3. Shaped(q) /\ q.stage \in Holding /\ q.op # "rollback"
      BY <1>1, <1>2 DEF Shaped, RequestState, Holding
    <3>4. Continues(r)
      <4> HIDE DEF q
      <4> QED
        BY <1>4, <3>1, <3>2, <3>3, LockTaken, PutContinues
    <3>5. installed' \in Dirs /\ replaced' \in Contents
      BY <1>1, <1>2, <3>1 DEF Dirs, Typed, Contents
    <3> QED
      BY <1>3, <1>4, <2>2, <3>4, <3>5 DEF Kept
  <2> QED
    BY <2>3, <2>4, <2>5, <2>6
<1> QED
  BY <1>5, <1>6

LEMMA RestoreKeeps ==
    ASSUME Typed, Locked, NEW r \in Requests, Restore(r)
    PROVE  Kept(r)
<1> DEFINE q(record) == [req[r] EXCEPT !.stage = "select", !.rec = record]
<1>1. /\ req[r] \in RequestState /\ req[r].stage = "restore"
      /\ req[r].op \in {"rollback", "recover"} /\ Shaped(req[r])
  BY DEF Restore, Typed, Shaped
<1>2. /\ row' \in Record \cup {None} /\ backup' \in Dirs
      /\ imported' \in Archives \cup {None} /\ replaced' \in Contents
      /\ events' \in Nat /\ faults' \in Nat
      /\ UNCHANGED <<start, scratch>>
  BY DEF Restore, Typed, Dirs, counts, history
<1>3. ASSUME NEW c \in Record, WillStore(r, c), UNCHANGED lock
      PROVE  Continues(r)
  <2>1. Put(r, q(c))
    BY <1>3, PutsRecord
  <2>2. /\ Shaped(q(c)) /\ q(c).stage \in Holding /\ q(c).op = req[r].op
    BY <1>1, <1>3 DEF Shaped, RequestState, Holding
  <2>3. lock = r <=> req[r].op # "rollback"
    BY <1>1 DEF Locked, Holding
  <2> HIDE DEF q
  <2> QED
    BY <1>3, <2>1, <2>2, <2>3, PutContinues DEF Typed
<1>4. CASE CanRestore
  <2>1. row \in Record /\ row.back \in Versions /\ Restored \in Record
    BY <1>4, RestoredTyped, VersionsOfRecords DEF CanRestore, Typed
  <2>2. /\ installed' = [installed EXCEPT ![row.back] = backup[row.back]]
        /\ WillStore(r, Restored) /\ UNCHANGED lock
    BY <1>4 DEF Restore
  <2>3. installed' \in Dirs
    BY <2>1, <2>2 DEF Typed, Dirs
  <2>4. Continues(r)
    BY <1>3, <2>1, <2>2
  <2> QED
    BY <1>2, <2>3, <2>4 DEF Kept
<1>5. CASE ~CanRestore
  <2>1. installed' \in Dirs
    BY <1>5 DEF Restore, Typed, Dirs
  <2>2. CASE req[r].op = "recover"
    <3>1. Quarantined(req[r].cur) \in Record
      BY <1>1, <2>2, QuarantinedTyped DEF Shaped
    <3>2. WillStore(r, Quarantined(req[r].cur)) /\ UNCHANGED lock
      BY <1>5, <2>2 DEF Restore
    <3> QED
      BY <1>2, <1>3, <2>1, <3>1, <3>2 DEF Kept
  <2>3. CASE req[r].op # "recover"
    <3>1. Ends(r)
      BY <1>5, <2>3 DEF Restore
    <3> QED
      BY <1>2, <2>1, <3>1, EndContinues DEF Kept
  <2> QED
    BY <2>2, <2>3
<1> QED
  BY <1>4, <1>5

\* A request that was admitted goes on to the deletion of the record.
LEMMA RemovalContinues ==
    ASSUME Typed, Locked, NEW r \in Requests, req[r].stage = "act",
           req[r].op = "remove", lock = None, lock' = r, Goes(r, "delete")
    PROVE  Continues(r)
<1> DEFINE q == [req[r] EXCEPT !.stage = "delete"]
<1>1. req[r] \in RequestState /\ Shaped(req[r])
  BY DEF Typed
<1>2. Put(r, q)
  BY PutsStage DEF Stages
<1>3. Shaped(q) /\ q.stage \in Holding /\ q.op # "rollback"
  BY <1>1 DEF Shaped, RequestState, Holding
<1> HIDE DEF q
<1> QED
  BY <1>2, <1>3, LockTaken, PutContinues

LEMMA RemoveFilesKeeps ==
    ASSUME Typed, Locked, NEW r \in Requests, RemoveFiles(r)
    PROVE  Kept(r)
<1>1. req[r].cur.version \in Versions
  BY VersionsOfRecords DEF RemoveFiles, Enters, Typed, Shaped
<1>2. Continues(r)
  BY RemovalContinues DEF RemoveFiles, Enters
<1>3. installed' \in Dirs
  BY <1>1 DEF RemoveFiles, Dirs, Typed, Contents
<1> QED
  BY <1>2, <1>3 DEF RemoveFiles, Kept, Typed, Dirs, counts, history

LEMMA DeleteKeeps ==
    ASSUME Typed, Locked, NEW r \in Requests, Delete(r)
    PROVE  Kept(r)
BY EndContinues DEF Delete, Kept, Typed, Dirs, files, counts, history

LEMMA SelectKeeps ==
    ASSUME Typed, Locked, NEW r \in Requests, Select(r)
    PROVE  Kept(r)
<1> DEFINE q == [req[r] EXCEPT !.stage = "store", !.seen = row]
<1>1. /\ req[r] \in RequestState /\ Shaped(req[r]) /\ req[r].stage = "select"
      /\ row \in Record \cup {None}
  BY DEF Select, Typed
<1>2. Put(r, q)
  BY PutsSelected DEF Select
<1>3. Shaped(q) /\ q.stage \in Holding /\ q.op = req[r].op
  BY <1>1 DEF Shaped, RequestState, Holding
<1>4. lock = r <=> req[r].op # "rollback"
  BY <1>1 DEF Locked, Holding
<1>5. UNCHANGED lock
  BY DEF Select
<1>6. Continues(r)
  <2> HIDE DEF q
  <2> QED
    BY <1>2, <1>3, <1>4, <1>5, PutContinues DEF Typed
<1> QED
  BY <1>6 DEF Select, Kept, Typed, Dirs, files, counts, history

LEMMA StoreKeeps ==
    ASSUME Typed, Locked, NEW r \in Requests, Store(r)
    PROVE  Kept(r)
<1>1. Continues(r)
  BY EndContinues DEF Store
<1>2. /\ req[r].rec \in Record /\ req[r].seen \in Record \cup {None}
      /\ row \in Record \cup {None}
  BY DEF Store, Typed, RequestState, Shaped
<1>3. row' \in Record \cup {None}
  BY <1>2, StoredTyped DEF Store
<1> QED
  BY <1>1, <1>3 DEF Store, Kept, Typed, Dirs, files, counts, history

LEMMA LockFaultKeeps ==
    ASSUME Typed, Locked, NEW r \in Requests, LockFault(r)
    PROVE  Kept(r) /\ faults' # 0
<1>1. Put(r, Idle)
  BY IdleTyped, PutsOne DEF LockFault
<1>2. /\ lock = None /\ lock' = "backend" /\ lock' \in Locks
      /\ \A x \in Requests : lock' # x /\ lock # x
  BY ConstantsDiffer DEF LockFault, Locks
<1>3. Idle.stage \notin Holding
  BY DEF Idle, Holding
<1>4. Continues(r)
  BY <1>1, <1>2, <1>3, IdleTyped, PutContinues
<1>5. faults' \in Nat /\ faults' # 0 /\ UNCHANGED events
  BY DEF LockFault, Fault, Typed
<1> QED
  BY <1>4, <1>5 DEF LockFault, Kept, Typed, Dirs, files, history

LEMMA DiskFaultKeeps ==
    ASSUME Typed, Locked, NEW r \in Requests, DiskFault(r)
    PROVE  Kept(r) /\ faults' # 0
<1>1. PICK left \in Halfway(r) :
        /\ installed' = left.installed
        /\ backup' = left.backup
        /\ CASE req[r].op = "remove" -> lock' = r /\ Goes(r, "delete")
             [] req[r].op = "update" /\ left.inside -> lock' = r /\ Recovers(r)
             [] OTHER -> Ends(r)
  BY DEF DiskFault
<1>2. AtWork(r) /\ req[r] \in RequestState /\ Shaped(req[r])
  BY DEF DiskFault, Typed
<1>3. installed' \in Dirs /\ backup' \in Dirs
  BY <1>1, <1>2, HalfwayTyped
<1>4. ASSUME req[r].op = "remove"
      PROVE  Continues(r)
  <2>1. req[r].stage = "act" /\ lock = None /\ lock' = r /\ Goes(r, "delete")
    BY <1>1, <1>2, <1>4 DEF AtWork, Shaped
  <2> QED
    BY <1>4, <2>1, RemovalContinues
<1>5. ASSUME req[r].op = "update", left.inside
      PROVE  Continues(r)
  <2> DEFINE b == [req[r] EXCEPT !.op = "recover", !.stage = "restore"]
  <2>1. lock' = r /\ Recovers(r)
    BY <1>1, <1>5
  <2>2. lock = None
    BY <1>2, <1>5 DEF AtWork, Shaped
  <2>3. Put(r, b)
    BY <2>1, PutsRecovery
  <2>4. Shaped(b) /\ b.stage \in Holding /\ b.op # "rollback"
    BY <1>2, <1>5 DEF Shaped, RequestState, Holding
  <2>5. Continues(r)
    <3> HIDE DEF b
    <3> QED
      BY <2>1, <2>2, <2>3, <2>4, LockTaken, PutContinues
  <2> QED
    BY <2>5
<1>6. ASSUME req[r].op # "remove", ~(req[r].op = "update" /\ left.inside)
      PROVE  Continues(r)
  <2>1. Ends(r)
    BY <1>1, <1>6
  <2> QED
    BY <2>1, EndContinues
<1>7. Continues(r)
  BY <1>4, <1>5, <1>6
<1>8. faults' \in Nat /\ faults' # 0
  BY DEF DiskFault, Fault, Typed
<1> QED
  BY <1>3, <1>7, <1>8 DEF DiskFault, Fault, Kept, Typed, history

LEMMA RequestKeeps ==
    ASSUME Typed, Locked, NEW r \in Requests,
           Arrives(r) \/ GoesOn(r) \/ LockFault(r) \/ DiskFault(r)
    PROVE  Kept(r)
BY ArrivesKeeps, RefusedKeeps, InstallFilesKeeps, UpdateFilesKeeps, RestoreKeeps,
   RemoveFilesKeeps, DeleteKeeps, SelectKeeps, StoreKeeps, LockFaultKeeps,
   DiskFaultKeeps
   DEF GoesOn

-----------------------------------------------------------------------------
(* A step of a start, and a crash of the backend.                          *)

\* What a step of the start of p changes, and what it leaves alone.
Advances(p) ==
    /\ row' \in Record \cup {None}
    /\ start' \in [Processes -> StartState]
    /\ \A x \in Processes : Listed(start'[x])
    /\ \A x \in Processes \ {p} : start'[x] = start[x]
    /\ scratch' \in Contents
    /\ imported' \in Archives \cup {None}
    /\ events' \in Nat
    /\ faults' \in Nat /\ (faults' = 0 => faults = 0)
    /\ lock' \in Locks
    /\ lock' = lock \/ (lock' = None /\ \A r \in Requests : req[r] = Idle)
    /\ UNCHANGED <<files, req, history>>

\* The start p is s now.
PutStart(p, s) ==
    /\ start' \in [Processes -> StartState]
    /\ start'[p] = s
    /\ \A x \in Processes \ {p} : start'[x] = start[x]
    /\ \A x \in Processes : Listed(start'[x])

LEMMA PutsStart ==
    ASSUME Typed, NEW p \in Processes, NEW s \in StartState, Listed(s),
           start' = [start EXCEPT ![p] = s]
    PROVE  PutStart(p, s)
BY DEF Typed, PutStart

LEMMA ReachesStage ==
    ASSUME Typed, NEW p \in Processes, NEW s \in Steps, Reaches(p, s),
           start[p].stage \notin {"down", "up"}
    PROVE  PutStart(p, [start[p] EXCEPT !.stage = s])
<1>1. start \in [Processes -> StartState] /\ start[p] \in StartState
  BY DEF Typed
<1>2. start[p].view \in Record
  BY DEF Typed, Listed
<1>3. \A x \in Processes : Listed(start[x])
  BY DEF Typed
<1> QED
  BY <1>1, <1>2, <1>3 DEF Reaches, PutStart, Listed, StartState

LEMMA DownTyped ==
    /\ Down \in StartState /\ Listed(Down) /\ Down.stage = "down"
    /\ Up \in StartState /\ Listed(Up) /\ Up.stage = "up"
BY DEF Down, Up, StartState, Listed, Steps, Contents

LEMMA StopKeeps ==
    ASSUME Typed, NEW p \in Processes, Stop(p)
    PROVE  Advances(p) /\ start'[p] = Down
<1>1. PutStart(p, Down)
  BY DownTyped, PutsStart DEF Stop
<1>2. events' \in Nat /\ imported' \in Archives \cup {None} /\ lock' \in Locks
  BY DEF Stop, Event, Typed, Locks
<1>3. lock' = lock \/ (lock' = None /\ \A r \in Requests : req[r] = Idle)
  BY DEF Stop
<1> QED
  BY <1>1, <1>2, <1>3 DEF Stop, Advances, PutStart, Typed

LEMMA ListKeeps ==
    ASSUME Typed, NEW p \in Processes, List(p)
    PROVE  /\ Advances(p)
           /\ UNCHANGED row
           /\ \/ start'[p] = Up
              \/ /\ row # None
                 /\ start'[p].stage = "verify"
                 /\ start'[p].view = row
<1> DEFINE s == [Down EXCEPT !.stage = "verify", !.view = row]
<1>1. row' \in Record \cup {None} /\ UNCHANGED row
  BY DEF List, Typed
<1>2. CASE row # None /\ row.state = "installed"
  <2>1. s \in StartState /\ Listed(s) /\ s.stage = "verify" /\ s.view = row
    BY <1>2 DEF Typed, Down, StartState, Listed, Steps, Contents
  <2>2. start' = [start EXCEPT ![p] = s]
    BY <1>2 DEF List
  <2> HIDE DEF s
  <2>3. PutStart(p, s)
    BY <2>1, <2>2, PutsStart
  <2> QED
    BY <1>1, <1>2, <2>1, <2>3 DEF List, Advances, PutStart, Typed, counts
<1>3. CASE ~(row # None /\ row.state = "installed")
  <2>1. start' = [start EXCEPT ![p] = Up]
    BY <1>3 DEF List
  <2>2. PutStart(p, Up)
    BY <2>1, DownTyped, PutsStart
  <2> QED
    BY <1>1, <2>2 DEF List, Advances, PutStart, Typed, counts
<1> QED
  BY <1>2, <1>3

\* The steps of the check that write no record.
LEMMA BeginPackingKeeps ==
    ASSUME Typed, NEW p \in Processes, BeginPacking(p)
    PROVE  /\ Advances(p)
           /\ UNCHANGED row
           /\ \/ /\ installed[start[p].view.version] = None
                 /\ start'[p] = [start[p] EXCEPT !.stage = "select"]
              \/ start'[p] = Down
              \/ /\ start'[p].stage = "packing"
                 /\ start'[p].view = start[p].view
                 /\ scratch' = Partial
<1> DEFINE s == start[p]
           d == installed[s.view.version]
           g == [s EXCEPT !.stage = "packing", !.found = d]
<1>1. s.stage \notin {"down", "up"} /\ s.view \in Record /\ s \in StartState
  BY DEF BeginPacking, Typed, Listed
<1>2. CASE d = None
  <2>1. Reaches(p, "select") /\ UNCHANGED scratch
    BY <1>2, ConstantsDiffer DEF BeginPacking, WillQuarantine
  <2>2. PutStart(p, [s EXCEPT !.stage = "select"])
    BY <1>1, <2>1, ReachesStage DEF Steps
  <2> QED
    BY <1>2, <2>1, <2>2 DEF BeginPacking, Advances, PutStart, Typed, counts
<1>3. CASE d = Torn
  <2>1. Fails(p) /\ UNCHANGED scratch
    BY <1>3, ConstantsDiffer DEF BeginPacking
  <2>2. PutStart(p, Down)
    BY <2>1, DownTyped, PutsStart DEF Fails
  <2> QED
    BY <2>1, <2>2 DEF BeginPacking, Advances, PutStart, Typed, counts
<1>4. CASE d \notin {None, Torn}
  <2>1. d \in Contents
    BY <1>1, VersionsOfRecords DEF Typed
  <2>2. /\ g \in StartState /\ Listed(g)
        /\ g.stage = "packing" /\ g.view = s.view
    BY <1>1, <2>1 DEF StartState, Listed, Steps
  <2>3. start' = [start EXCEPT ![p] = g] /\ scratch' = Partial
    BY <1>4 DEF BeginPacking
  <2> HIDE DEF g
  <2>4. PutStart(p, g)
    BY <2>2, <2>3, PutsStart
  <2> QED
    BY <2>2, <2>3, <2>4 DEF BeginPacking, Advances, PutStart, Typed, counts, Contents
<1> QED
  BY <1>2, <1>3, <1>4

LEMMA RaisesKeeps ==
    ASSUME Typed, NEW p \in Processes, Raises(p)
    PROVE  Advances(p) /\ start'[p] = Down
<1>1. PutStart(p, Down)
  BY DownTyped, PutsStart DEF Raises, Fails
<1>2. /\ faults' \in Nat /\ (faults' = 0 => faults = 0)
      /\ events' \in Nat
  BY DEF Raises, Fault, Typed, counts
<1> QED
  BY <1>1, <1>2 DEF Raises, Advances, PutStart, Typed

LEMMA EndPackingKeeps ==
    ASSUME Typed, NEW p \in Processes, EndPacking(p)
    PROVE  /\ Advances(p)
           /\ UNCHANGED row
           /\ start'[p] = [start[p] EXCEPT !.stage = "packed"]
           /\ scratch' = IF scratch = None THEN None
                         ELSE installed[start[p].view.version]
<1>1. start[p].stage \notin {"down", "up"} /\ start[p].view \in Record
  BY DEF EndPacking, Typed, Listed
<1>2. PutStart(p, [start[p] EXCEPT !.stage = "packed"])
  BY <1>1, ReachesStage DEF EndPacking, Steps
<1>3. installed[start[p].view.version] \in Contents
  BY <1>1, VersionsOfRecords DEF Typed
<1> QED
  BY <1>2, <1>3 DEF EndPacking, Advances, PutStart, Typed, counts, Contents

LEMMA CompareKeeps ==
    ASSUME Typed, NEW p \in Processes, Compare(p)
    PROVE  /\ Advances(p)
           /\ UNCHANGED row
           /\ IF scratch = start[p].view.sum
              THEN start'[p] = [start[p] EXCEPT !.stage = "load"]
              ELSE start'[p] = [start[p] EXCEPT !.stage = "select"]
<1>1. start[p].stage \notin {"down", "up"}
  BY DEF Compare
<1>2. PutStart(p, [start[p] EXCEPT !.stage =
                      IF scratch = start[p].view.sum THEN "load" ELSE "select"])
  BY <1>1, ReachesStage DEF Compare, WillQuarantine, Steps
<1> QED
  BY <1>2 DEF Compare, Advances, PutStart, Typed, counts, Contents

LEMMA LoadKeeps ==
    ASSUME Typed, NEW p \in Processes, Load(p)
    PROVE  /\ Advances(p)
           /\ UNCHANGED row
           /\ IF installed[start[p].view.version] \in Archives
              THEN start'[p] = Up
              ELSE start'[p] = [start[p] EXCEPT !.stage = "select"]
<1>1. start[p].stage \notin {"down", "up"}
  BY DEF Load
<1>2. CASE installed[start[p].view.version] \in Archives
  <2>1. PutStart(p, Up)
    BY <1>2, DownTyped, PutsStart DEF Load
  <2> QED
    BY <1>2, <2>1 DEF Load, Advances, PutStart, Typed, counts
<1>3. CASE installed[start[p].view.version] \notin Archives
  <2>1. PutStart(p, [start[p] EXCEPT !.stage = "select"])
    BY <1>1, <1>3, ReachesStage DEF Load, WillQuarantine, Steps
  <2> QED
    BY <1>3, <2>1 DEF Load, Advances, PutStart, Typed, counts
<1> QED
  BY <1>2, <1>3

LEMMA SelectQuarantineKeeps ==
    ASSUME Typed, NEW p \in Processes, SelectQuarantine(p)
    PROVE  /\ Advances(p)
           /\ UNCHANGED row
           /\ start'[p] = [start[p] EXCEPT !.stage = "store", !.seen = row]
<1>1. /\ start \in [Processes -> StartState] /\ start[p] \in StartState
      /\ start[p].view \in Record /\ row \in Record \cup {None}
      /\ \A x \in Processes : Listed(start[x])
  BY DEF SelectQuarantine, Typed, Listed
<1>2. PutStart(p, [start[p] EXCEPT !.stage = "store", !.seen = row])
  BY <1>1 DEF SelectQuarantine, PutStart, Listed, StartState, Steps
<1> QED
  BY <1>2 DEF SelectQuarantine, Advances, PutStart, Typed, counts

LEMMA StoreQuarantineKeeps ==
    ASSUME Typed, NEW p \in Processes, StoreQuarantine(p)
    PROVE  /\ Advances(p)
           /\ UNCHANGED scratch
           /\ start'[p] \in {Down, Up}
           /\ IF Storable(start[p].seen)
              THEN row' = Stored(Quarantined(start[p].view), start[p].seen)
              ELSE UNCHANGED row
<1>1. start[p].view \in Record /\ start[p].seen \in Record \cup {None}
  BY DEF StoreQuarantine, Typed, Listed, StartState
<1>2. CASE Storable(start[p].seen)
  <2>1. /\ row' = Stored(Quarantined(start[p].view), start[p].seen)
        /\ start' = [start EXCEPT ![p] = Up]
    BY <1>2 DEF StoreQuarantine
  <2>2. PutStart(p, Up)
    BY <2>1, DownTyped, PutsStart
  <2>3. row' \in Record \cup {None}
    BY <1>1, <1>2, <2>1, QuarantinedTyped, StoredTyped DEF Typed
  <2> QED
    BY <1>2, <2>1, <2>2, <2>3 DEF StoreQuarantine, Advances, PutStart, Typed, counts
<1>3. CASE ~Storable(start[p].seen)
  <2>1. UNCHANGED row /\ start' = [start EXCEPT ![p] = Down]
    BY <1>3 DEF StoreQuarantine, Fails
  <2>2. PutStart(p, Down)
    BY <2>1, DownTyped, PutsStart
  <2> QED
    BY <1>3, <2>1, <2>2 DEF StoreQuarantine, Advances, PutStart, Typed, counts
<1> QED
  BY <1>2, <1>3

LEMMA StartKeeps ==
    ASSUME Typed, NEW p \in Processes, Stop(p) \/ Starts(p)
    PROVE  Advances(p)
BY StopKeeps, ListKeeps, BeginPackingKeeps, RaisesKeeps, EndPackingKeeps, CompareKeeps, LoadKeeps,
   SelectQuarantineKeeps, StoreQuarantineKeeps DEF Starts

LEMMA BackendDiesKeeps ==
    ASSUME Typed, Locked, BackendDies, Watched
    PROVE  Typed' /\ Locked' /\ faults' # 0
<1>1. installed' \in Dirs /\ backup' \in Dirs
  <2>1. CASE UNCHANGED files
    BY <2>1 DEF files, Typed, Dirs
  <2>2. ASSUME NEW r \in Requests, AtWork(r), NEW left \in Halfway(r),
               installed' = left.installed, backup' = left.backup
        PROVE  installed' \in Dirs /\ backup' \in Dirs
    BY <2>2, HalfwayTyped
  <2> QED
    BY <2>1, <2>2 DEF BackendDies
<1>2. req' \in [Requests -> RequestState] /\ \A r \in Requests : req'[r] = Idle
  BY IdleTyped DEF BackendDies
<1>3. \A r \in Requests : Shaped(req'[r])
  BY <1>2, IdleTyped
<1>4. Locked'
  BY <1>2, ConstantsDiffer DEF BackendDies, Locked, Idle, Holding
<1>5. start' \in [Processes -> StartState] /\ \A p \in Processes : Listed(start'[p])
  BY DownTyped DEF BackendDies, Typed
<1>6. faults' \in Nat /\ faults' # 0 /\ events' \in Nat
  BY DEF BackendDies, Fault, Typed
<1>7. /\ row' \in Record \cup {None} /\ lock' \in Locks
      /\ imported' \in Archives \cup {None} /\ scratch' \in Contents
      /\ replaced' \in Contents
  BY DEF BackendDies, Typed, history, Locks
<1>8. disturbed' \in BOOLEAN
  BY DEF Watched
<1> QED
  BY <1>1, <1>2, <1>3, <1>4, <1>5, <1>6, <1>7, <1>8 DEF Typed, Dirs

-----------------------------------------------------------------------------
(* Nothing overlaps what takes no lock.                                    *)

LEMMA StartIsAlone ==
    ASSUME ~Overlap, NEW p \in Processes, start[p].stage \notin {"down", "up"}
    PROVE  /\ \A r \in Requests : req[r] = Idle
           /\ \A x \in Processes \ {p} : start[x] \in {Down, Up}
<1>1. p \in Running /\ p \in Unlocked
  BY DEF Running, Unlocked, Down, Up
<1>2. \A other \in Running : other = p
  BY <1>1 DEF Overlap
<1>3. \A r \in Requests : r # p
  BY PackageAssumption
<1> QED
  BY <1>2, <1>3 DEF Running

LEMMA RollbackIsAlone ==
    ASSUME ~Overlap, NEW r \in Requests, req[r].op = "rollback"
    PROVE  \A x \in Requests \ {r} : req[x] = Idle
<1>1. r \in Unlocked
  BY DEF Unlocked
<1>2. \A other \in Running : other = r
  BY <1>1 DEF Overlap
<1> QED
  BY <1>2 DEF Running

LEMMA RequestsExcludeStarts ==
    ASSUME ~Overlap, NEW r \in Requests, req[r].stage # "idle", NEW p \in Processes
    PROVE  start[p].stage \in {"down", "up"}
<1>1. req[r] # Idle
  BY DEF Idle
<1> QED
  BY <1>1, StartIsAlone

\* A request that works on the files, or has done so, is the only one.
LEMMA WriterIsAlone ==
    ASSUME Typed, Locked, ~Overlap, NEW r \in Requests,
           AtWork(r) \/ req[r].stage \in Work
    PROVE  \A x \in Requests \ {r} : req[x].stage \in {"idle", "act"}
<1> SUFFICES ASSUME NEW x \in Requests, x # r
             PROVE  req[x].stage \in {"idle", "act"}
  OBVIOUS
<1>1. req[x].stage \in Stages
  BY DEF Typed, RequestState
<1>2. CASE req[x].op = "rollback"
  <2>1. req[r] = Idle
    BY <1>2, RollbackIsAlone
  <2> QED
    BY <2>1 DEF AtWork, Work, Idle
<1>3. CASE req[r].op = "rollback"
  BY <1>3, RollbackIsAlone DEF Idle
<1>4. CASE req[x].op # "rollback" /\ req[r].op # "rollback"
  <2>1. SUFFICES ASSUME req[x].stage \in Holding PROVE FALSE
    BY <1>1 DEF Stages, Holding
  <2>2. lock = x
    BY <1>4, <2>1 DEF Locked
  <2>3. lock # None
    BY <2>2, ConstantsDiffer
  <2>4. req[r].stage \in Holding
    BY <2>3 DEF AtWork, Work, Holding
  <2>5. lock = r
    BY <1>4, <2>4 DEF Locked
  <2> QED
    BY <2>2, <2>5
<1> QED
  BY <1>2, <1>3, <1>4

-----------------------------------------------------------------------------
(* What is to be stored, and what is stored, fits the files.               *)

\* A step of the only request that may have work in hand.
LEMMA WriterKeepsConsistent ==
    ASSUME NEW r \in Requests,
           \A x \in Requests \ {r} : req'[x] = req[x] /\ req[x].stage \in {"idle", "act"},
           Pending(req[r])', req'[r].stage \notin Work => Settled'
    PROVE  Consistent'
<1>1. \A x \in Requests \ {r} : Pending(req[x])'
  BY DEF Pending
<1> QED
  BY <1>1 DEF Consistent

\* A step that leaves the record and the files alone.
LEMMA QuietKeepsConsistent ==
    ASSUME Consistent, NEW r \in Requests, req[r].stage \notin Work,
           \A x \in Requests \ {r} : req'[x] = req[x], req'[r].stage \notin Work,
           UNCHANGED <<row, installed, backup, origin, replaced>>
    PROVE  Consistent'
<1>1. \A x \in Requests : Pending(req[x])'
  BY DEF Consistent, Pending, Fits, Work
<1>2. (\A x \in Requests : req'[x].stage \notin Work) => Settled'
  BY DEF Consistent, Settled, Fits
<1> QED
  BY <1>1, <1>2 DEF Consistent

LEMMA ArrivesConsistent ==
    ASSUME Typed, Locked, Consistent, NEW r \in Requests, Arrives(r)
    PROVE  Consistent'
<1>1. \A x \in Requests \ {r} : req'[x] = req[x]
  BY ArrivesKeeps DEF Kept, Continues
<1>2. ASSUME NEW q, Begin(r, q), q.stage \in {"act", "restore"}
      PROVE  Consistent'
  <2>1. req[r].stage \notin Work
    BY <1>2 DEF Begin, Idle, Work
  <2>2. req'[r] = q
    BY <1>2 DEF Begin, Typed
  <2>3. UNCHANGED <<row, installed, backup, origin, replaced>>
    BY <1>2 DEF Begin, files, history
  <2>4. req'[r].stage \notin Work
    BY <1>2, <2>2 DEF Work
  <2> QED
    BY <1>1, <2>1, <2>3, <2>4, QuietKeepsConsistent
<1>3. ASSUME NEW a \in Archives, BeginInstall(r, a)
      PROVE  Consistent'
  BY <1>2, <1>3 DEF BeginInstall, Idle
<1>4. ASSUME NEW a \in Archives, NEW allow \in BOOLEAN, BeginUpdate(r, a, allow)
      PROVE  Consistent'
  BY <1>2, <1>4 DEF BeginUpdate, Idle
<1>5. CASE BeginRollback(r)
  BY <1>2, <1>5 DEF BeginRollback, Idle
<1>6. CASE BeginRemove(r)
  BY <1>2, <1>6 DEF BeginRemove, Idle
<1> QED
  BY <1>3, <1>4, <1>5, <1>6 DEF Arrives

LEMMA RefusedConsistent ==
    ASSUME Typed, Locked, Consistent, NEW r \in Requests, Refused(r)
    PROVE  Consistent'
<1>1. req'[r] = Idle /\ \A x \in Requests \ {r} : req'[x] = req[x]
  BY EndContinues DEF Refused, Continues
<1>2. req[r].stage \notin Work /\ req'[r].stage \notin Work
  BY <1>1 DEF Refused, Work, Idle
<1> QED
  BY <1>1, <1>2, QuietKeepsConsistent DEF Refused, files, history

\* The files are in place and the record that goes with them is next.
LEMMA WriterIsPending ==
    ASSUME Typed, Locked, ~Overlap, NEW r \in Requests, AtWork(r),
           NEW c \in Record, WillStore(r, c), Fits(c, req[r].op)'
    PROVE  Consistent'
<1>1. Put(r, [req[r] EXCEPT !.stage = "select", !.rec = c])
  BY PutsRecord
<1>2. req'[r].stage = "select" /\ req'[r].rec = c
  BY <1>1 DEF Put, Typed, RequestState
<1>3. Pending(req[r])'
  BY <1>2 DEF Pending
<1>4. \A x \in Requests \ {r} : req'[x] = req[x] /\ req[x].stage \in {"idle", "act"}
  BY <1>1, WriterIsAlone DEF Put
<1>5. req'[r].stage \in Work
  BY <1>2 DEF Work
<1> QED
  BY <1>3, <1>4, <1>5, WriterKeepsConsistent

\* The operation of a request whose record is next is what it was.
LEMMA OpStays ==
    ASSUME Typed, NEW r \in Requests, NEW c \in Record, WillStore(r, c)
    PROVE  req'[r].op = req[r].op
<1>1. Put(r, [req[r] EXCEPT !.stage = "select", !.rec = c])
  BY PutsRecord
<1> QED
  BY <1>1 DEF Put, Typed, RequestState

LEMMA InstallFilesConsistent ==
    ASSUME Typed, Locked, ~Overlap, NEW r \in Requests, InstallFiles(r)
    PROVE  Consistent'
<1>1. PICK a \in Archives : a = req[r].arch
  BY DEF InstallFiles, Enters, Typed, Shaped
<1>2. PICK c \in Record : /\ c = Promoted(a, None) /\ c.version = VersionOf[a]
                          /\ c.sum = a /\ c.back = None
  BY PromotedTyped
<1>3. AtWork(r) /\ WillStore(r, c) /\ req[r].op = "install"
  BY <1>1, <1>2 DEF InstallFiles, Enters, AtWork
<1>4. installed'[VersionOf[a]] = a
  BY <1>1, ConstantsDiffer DEF InstallFiles, Typed
<1>5. req'[r].op = "install"
  BY <1>3, OpStays
<1>6. Fits(c, req[r].op)'
  BY <1>2, <1>4, <1>5 DEF Fits
<1> QED
  BY <1>3, <1>6, WriterIsPending

\* Copying what is installed again keeps the way back: it is what was copied.
LEMMA BackedUpFits ==
    ASSUME Typed, row # None => Fits(row, origin), NEW from \in Versions,
           backup' = BackedUp(from), UNCHANGED <<row, installed, origin, replaced>>
    PROVE  Settled'
<1>1. row # None => row.back \in Versions \cup {None}
  BY VersionsOfRecords DEF Typed
<1>2. \A v \in Versions : backup'[v] = IF v = from THEN installed[v] ELSE backup[v]
  BY DEF BackedUp, Typed
<1> QED
  BY <1>1, <1>2 DEF Settled, Fits

LEMMA UpdateFilesConsistent ==
    ASSUME Typed, Locked, ~Overlap, Consistent, NEW r \in Requests, UpdateFiles(r)
    PROVE  Consistent'
<1>1. PICK a \in Archives : a = req[r].arch
  BY DEF UpdateFiles, Enters, Typed, Shaped
<1>2. PICK from \in Versions : from = req[r].cur.version
  BY VersionsOfRecords DEF UpdateFiles, Enters, Typed, Shaped
<1>3. /\ AtWork(r) /\ req[r].op = "update"
      /\ backup' = BackedUp(from) /\ UNCHANGED <<row, origin>>
  BY <1>2 DEF UpdateFiles, Enters, AtWork
<1>4. \A x \in Requests \ {r} : req'[x] = req[x] /\ req[x].stage \in {"idle", "act"}
  BY <1>3, WriterIsAlone, UpdateFilesKeeps DEF Kept, Continues
<1>5. req[r].stage = "act"
  BY DEF UpdateFiles, Enters
<1>6. row # None => Fits(row, origin)
  BY <1>4, <1>5 DEF Consistent, Settled, Work
<1>7. ASSUME UNCHANGED <<installed, replaced>>, req'[r].stage \notin {"select", "store"}
      PROVE  Consistent'
  <2>1. Pending(req[r])'
    BY <1>7 DEF Pending
  <2>2. Settled'
    BY <1>3, <1>6, <1>7, BackedUpFits
  <2> QED
    BY <1>4, <2>1, <2>2, WriterKeepsConsistent
<1>8. ASSUME Ends(r), UNCHANGED <<installed, replaced>>
      PROVE  Consistent'
  <2>1. req'[r] = Idle
    BY <1>8, EndContinues
  <2> QED
    BY <1>7, <1>8, <2>1 DEF Idle
<1>9. ASSUME Recovers(r), UNCHANGED <<installed, replaced>>
      PROVE  Consistent'
  <2>1. req'[r].stage = "restore"
    <3>1. Put(r, [req[r] EXCEPT !.op = "recover", !.stage = "restore"])
      BY <1>9, PutsRecovery
    <3> QED
      BY <3>1 DEF Put, Typed, RequestState
  <2> QED
    BY <1>7, <1>9, <2>1
<1>10. ASSUME installed' = [installed EXCEPT ![VersionOf[a]] = a],
              replaced' = installed[from], WillStore(r, Promoted(a, from))
       PROVE  Consistent'
  <2>1. PICK c \in Record : /\ c = Promoted(a, from) /\ c.version = VersionOf[a]
                            /\ c.sum = a /\ c.back = from
    BY PromotedTyped
  <2>2. installed'[VersionOf[a]] = a
    BY <1>10, ConstantsDiffer DEF Typed
  <2>3. backup'[from] = replaced'
    BY <1>3, <1>10 DEF BackedUp, Typed
  <2>4. from # VersionOf[a] => installed'[from] = replaced'
    BY <1>10 DEF Typed
  <2>5. Fits(c, req[r].op)'
    BY <2>1, <2>2, <2>3, <2>4 DEF Fits
  <2> QED
    BY <1>3, <1>10, <2>1, <2>5, WriterIsPending
<1>11. CASE installed[from] = None
  BY <1>2, <1>8, <1>11 DEF UpdateFiles
<1>12. CASE installed[from] # None
  <2>1. GateOf(a) \in {"raises", "fails", "passes"}
    BY DEF GateOf
  <2>2. CASE GateOf(a) = "fails"
    BY <1>1, <1>2, <1>8, <1>12, <2>2 DEF UpdateFiles
  <2>3. CASE GateOf(a) = "raises"
    BY <1>1, <1>2, <1>9, <1>12, <2>3 DEF UpdateFiles
  <2>4. CASE GateOf(a) = "passes"
    BY <1>1, <1>2, <1>10, <1>12, <2>4 DEF UpdateFiles
  <2> QED
    BY <2>1, <2>2, <2>3, <2>4
<1> QED
  BY <1>11, <1>12

LEMMA RestoreConsistent ==
    ASSUME Typed, Locked, ~Overlap, Consistent, NEW r \in Requests, Restore(r)
    PROVE  Consistent'
<1>1. /\ AtWork(r) /\ req[r].op \in {"rollback", "recover"} /\ Shaped(req[r])
      /\ req[r].stage \notin Work
  BY DEF Restore, AtWork, Typed, Shaped, Work
<1>2. ASSUME NEW c \in Record, WillStore(r, c),
             req[r].op = "recover" \/ c.back = None
      PROVE  Consistent'
  <2>1. req'[r].op = req[r].op
    BY <1>2, OpStays
  <2>2. Fits(c, req[r].op)'
    BY <1>1, <1>2, <2>1 DEF Fits
  <2> QED
    BY <1>1, <1>2, <2>2, WriterIsPending
<1>3. CASE CanRestore
  <2>1. PICK c \in Record : c = Restored /\ c.back = None
    BY <1>3, RestoredTyped DEF CanRestore, Typed
  <2> QED
    BY <1>2, <1>3, <2>1 DEF Restore
<1>4. CASE ~CanRestore /\ req[r].op = "recover"
  <2>1. PICK c \in Record : c = Quarantined(req[r].cur)
    BY <1>1, <1>4, QuarantinedTyped DEF Shaped
  <2> QED
    BY <1>2, <1>4, <2>1 DEF Restore
<1>5. CASE ~CanRestore /\ req[r].op # "recover"
  <2>1. Ends(r) /\ UNCHANGED <<row, installed, backup, origin, replaced>>
    BY <1>5 DEF Restore, history
  <2>2. req'[r] = Idle /\ \A x \in Requests \ {r} : req'[x] = req[x]
    BY <2>1, EndContinues DEF Continues
  <2>3. req'[r].stage \notin Work
    BY <2>2 DEF Idle, Work
  <2> QED
    BY <1>1, <2>1, <2>2, <2>3, QuietKeepsConsistent
<1> QED
  BY <1>3, <1>4, <1>5

LEMMA RemoveFilesConsistent ==
    ASSUME Typed, Locked, ~Overlap, NEW r \in Requests, RemoveFiles(r)
    PROVE  Consistent'
<1>1. AtWork(r) /\ Goes(r, "delete")
  BY DEF RemoveFiles, Enters, AtWork
<1>2. Put(r, [req[r] EXCEPT !.stage = "delete"])
  BY <1>1, PutsStage DEF Stages
<1>3. req'[r].stage = "delete"
  BY <1>2 DEF Put, Typed, RequestState
<1>4. \A x \in Requests \ {r} : req'[x] = req[x] /\ req[x].stage \in {"idle", "act"}
  BY <1>1, <1>2, WriterIsAlone DEF Put
<1> QED
  BY <1>3, <1>4, WriterKeepsConsistent DEF Pending, Work

LEMMA DeleteConsistent ==
    ASSUME Typed, Locked, ~Overlap, NEW r \in Requests, Delete(r)
    PROVE  Consistent'
<1>1. req[r].stage \in Work
  BY DEF Delete, Work
<1>2. req'[r] = Idle /\ \A x \in Requests \ {r} : req'[x] = req[x]
  BY EndContinues DEF Delete, Continues
<1>3. \A x \in Requests \ {r} : req[x].stage \in {"idle", "act"}
  BY <1>1, WriterIsAlone
<1>4. Pending(req[r])'
  BY <1>2 DEF Pending, Idle
<1>5. Settled'
  BY DEF Delete, Settled
<1> QED
  BY <1>2, <1>3, <1>4, <1>5, WriterKeepsConsistent

LEMMA SelectConsistent ==
    ASSUME Typed, Locked, ~Overlap, Consistent, NEW r \in Requests, Select(r)
    PROVE  Consistent'
<1>1. req[r].stage = "select" /\ req[r].stage \in Work
  BY DEF Select, Work
<1>2. UNCHANGED <<row, installed, backup, replaced>>
  BY DEF Select, files, history
<1>3. Put(r, [req[r] EXCEPT !.stage = "store", !.seen = row])
  BY PutsSelected DEF Select
<1>4. /\ req'[r].stage = "store" /\ req'[r].seen = row
      /\ req'[r].rec = req[r].rec /\ req'[r].op = req[r].op
  BY <1>3 DEF Put, Typed, RequestState
<1>5. Fits(req[r].rec, req[r].op)
  BY <1>1 DEF Consistent, Pending
<1>6. Pending(req[r])'
  BY <1>2, <1>4, <1>5 DEF Pending, Fits
<1>7. \A x \in Requests \ {r} : req'[x] = req[x] /\ req[x].stage \in {"idle", "act"}
  BY <1>1, <1>3, WriterIsAlone DEF Put
<1>8. req'[r].stage \in Work
  BY <1>4 DEF Work
<1> QED
  BY <1>6, <1>7, <1>8, WriterKeepsConsistent

LEMMA StoreConsistent ==
    ASSUME Typed, Locked, ~Overlap, Consistent, NEW r \in Requests, Store(r)
    PROVE  Consistent'
<1>1. req[r].stage = "store" /\ req[r].stage \in Work /\ req[r].rec \in Record
  BY DEF Store, Work, Typed, Shaped
<1>2. UNCHANGED <<installed, backup, replaced>>
  BY DEF Store, files
<1>3. Fits(req[r].rec, req[r].op) /\ req[r].seen = row
  BY <1>1 DEF Consistent, Pending
<1>4. row' = req[r].rec /\ origin' = req[r].op
  <2>1. Storable(req[r].seen)
    BY <1>3 DEF Storable
  <2>2. Stored(req[r].rec, req[r].seen) = req[r].rec
    BY <1>1, <1>3, <2>1, StoredTyped DEF Typed
  <2> QED
    BY <2>1, <2>2 DEF Store
<1>5. Settled'
  BY <1>2, <1>3, <1>4 DEF Settled, Fits
<1>6. req'[r] = Idle /\ \A x \in Requests \ {r} : req'[x] = req[x]
  BY EndContinues DEF Store, Continues
<1>7. \A x \in Requests \ {r} : req[x].stage \in {"idle", "act"}
  BY <1>1, WriterIsAlone
<1>8. Pending(req[r])'
  BY <1>6 DEF Pending, Idle
<1> QED
  BY <1>5, <1>6, <1>7, <1>8, WriterKeepsConsistent

LEMMA RequestConsistent ==
    ASSUME Typed, Locked, ~Overlap, Consistent, NEW r \in Requests,
           Arrives(r) \/ GoesOn(r)
    PROVE  Consistent'
BY ArrivesConsistent, RefusedConsistent, InstallFilesConsistent, UpdateFilesConsistent,
   RestoreConsistent, RemoveFilesConsistent, DeleteConsistent, SelectConsistent,
   StoreConsistent DEF GoesOn

\* A start writes nothing but the mark of quarantine on the record it listed.
LEMMA StartConsistent ==
    ASSUME Typed, ~Overlap, Checking, Consistent, NEW p \in Processes,
           Stop(p) \/ Starts(p)
    PROVE  Consistent'
<1>1. UNCHANGED <<installed, backup, req, origin, replaced>>
  BY StartKeeps DEF Advances, files, history
<1>2. CASE UNCHANGED row
  BY <1>1, <1>2 DEF Consistent, Pending, Settled, Fits
<1>3. CASE ~UNCHANGED row
  <2>1. StoreQuarantine(p)
    BY <1>3 DEF Stop, Starts, List, BeginPacking, Raises, EndPacking, Compare, Load,
                SelectQuarantine
  <2>2. start[p].stage = "store" /\ start[p].stage \notin {"down", "up"}
    BY <2>1 DEF StoreQuarantine
  <2>3. Checked(start[p])
    BY <2>2 DEF Checking
  <2>4. row \in Record /\ start[p].view = row /\ start[p].seen = row
    BY <2>2, <2>3 DEF Checked, Typed
  <2>5. PICK c \in Record : /\ c = Quarantined(row)
                            /\ c.version = row.version /\ c.back = row.back
                            /\ c.state = "quarantined"
    BY <2>4, QuarantinedTyped
  <2>6. Storable(row)
    BY DEF Storable
  <2>7. row' = Stored(c, row)
    BY <2>1, <2>4, <2>5, <2>6, StoreQuarantineKeeps
  <2>8. row' = c
    BY <2>4, <2>6, <2>7, StoredTyped
  <2>9. \A r \in Requests : req[r] = Idle
    BY <2>2, StartIsAlone
  <2>10. Fits(row, origin)
    BY <2>4, <2>9, ConstantsDiffer DEF Consistent, Settled, Work, Idle
  <2>11. Settled'
    BY <1>1, <2>5, <2>8, <2>10 DEF Settled, Fits
  <2>12. \A r \in Requests : Pending(req[r])'
    BY <1>1, <2>9 DEF Pending, Idle
  <2> QED
    BY <2>11, <2>12 DEF Consistent
<1> QED
  BY <1>2, <1>3

-----------------------------------------------------------------------------
(* A start that nothing overlaps checks the record as it is.               *)

LEMMA UnchangedKeepsChecking ==
    ASSUME Checking, UNCHANGED <<row, installed, scratch, start>>
    PROVE  Checking'
BY DEF Checking, Checked

LEMMA RequestChecking ==
    ASSUME Typed, ~Overlap, Checking, NEW r \in Requests,
           Arrives(r) \/ GoesOn(r) \/ LockFault(r) \/ DiskFault(r), Kept(r)
    PROVE  Checking'
<1>1. CASE Arrives(r)
  <2>1. UNCHANGED <<row, installed, scratch, start>>
    BY <1>1 DEF Arrives, BeginInstall, BeginUpdate, BeginRollback, BeginRemove, Begin, files
  <2> QED
    BY <2>1, UnchangedKeepsChecking
<1>2. CASE GoesOn(r) \/ LockFault(r) \/ DiskFault(r)
  <2>1. req[r].stage # "idle"
    BY <1>2 DEF GoesOn, Refused, InstallFiles, UpdateFiles, Restore, RemoveFiles,
                Delete, Select, Store, LockFault, DiskFault, Enters, AtWork
  <2>2. \A p \in Processes : start[p].stage \in {"down", "up"}
    BY <2>1, RequestsExcludeStarts
  <2> QED
    BY <2>2 DEF Kept, Checking
<1> QED
  BY <1>1, <1>2

LEMMA StartCheckingItself ==
    ASSUME Typed, ~Overlap, Checking, NEW p \in Processes, Stop(p) \/ Starts(p),
           start'[p].stage \notin {"down", "up"}
    PROVE  Checked(start[p])'
<1> DEFINE s == start[p]
<1>1. s \in StartState /\ (s.stage \notin {"down", "up"} => Checked(s))
  BY DEF Typed, Checking
<1>2. Advances(p) /\ UNCHANGED installed
  BY StartKeeps DEF Advances, files
<1>3. row \in Record \cup {None}
  BY DEF Typed
<1>4. CASE Stop(p)
  BY <1>4, StopKeeps DEF Down
<1>5. CASE List(p)
  <2>1. start'[p] # Up
    BY DownTyped
  <2>2. /\ UNCHANGED row /\ row # None
        /\ start'[p].stage = "verify" /\ start'[p].view = row
    BY <1>5, <2>1, ListKeeps
  <2> QED
    BY <2>2 DEF Checked
<1>6. CASE BeginPacking(p)
  <2>1. Checked(s) /\ row \in Record /\ s.view = row
    BY <1>1, <1>3, <1>6 DEF BeginPacking, Checked
  <2>2. ASSUME installed[s.view.version] = None,
               start'[p] = [s EXCEPT !.stage = "select"], UNCHANGED row
        PROVE  Checked(start[p])'
    <3>1. start'[p].stage = "select" /\ start'[p].view = row
      BY <1>1, <2>1, <2>2 DEF StartState
    <3>2. row.sum # None
      BY <2>1, ConstantsDiffer DEF Record
    <3> QED
      BY <1>2, <2>1, <2>2, <3>1, <3>2, ConstantsDiffer DEF Checked
  <2>3. ASSUME start'[p].stage = "packing", start'[p].view = s.view,
               scratch' = Partial, UNCHANGED row
        PROVE  Checked(start[p])'
    BY <2>1, <2>3, ConstantsDiffer DEF Checked
  <2>4. start'[p] # Down
    BY DownTyped
  <2> QED
    BY <1>6, <2>2, <2>3, <2>4, BeginPackingKeeps
<1>7. CASE EndPacking(p)
  <2>1. Checked(s) /\ row \in Record /\ s.view = row /\ scratch = Partial
    BY <1>1, <1>3, <1>7 DEF EndPacking, Checked
  <2>2. /\ start'[p] = [s EXCEPT !.stage = "packed"] /\ UNCHANGED row
        /\ scratch' = IF scratch = None THEN None ELSE installed[s.view.version]
    BY <1>7, EndPackingKeeps
  <2>3. scratch' = installed[row.version]
    BY <2>1, <2>2, ConstantsDiffer
  <2>4. start'[p].stage = "packed" /\ start'[p].view = row
    BY <1>1, <2>1, <2>2 DEF StartState
  <2> QED
    BY <1>2, <2>1, <2>2, <2>3, <2>4, ConstantsDiffer DEF Checked
<1>8. CASE Compare(p)
  <2>1. /\ Checked(s) /\ row \in Record /\ s.view = row
        /\ scratch = installed[row.version]
    BY <1>1, <1>3, <1>8 DEF Compare, Checked
  <2>2. /\ UNCHANGED row
        /\ IF scratch = s.view.sum THEN start'[p] = [s EXCEPT !.stage = "load"]
           ELSE start'[p] = [s EXCEPT !.stage = "select"]
    BY <1>8, CompareKeeps
  <2>3. /\ start'[p].stage = IF scratch = row.sum THEN "load" ELSE "select"
        /\ start'[p].view = row
    BY <1>1, <2>1, <2>2 DEF StartState
  <2> QED
    BY <1>2, <2>1, <2>2, <2>3, ConstantsDiffer DEF Checked
<1>9. CASE Load(p)
  <2>1. /\ Checked(s) /\ row \in Record /\ s.view = row
        /\ installed[row.version] = row.sum
    BY <1>1, <1>3, <1>9 DEF Load, Checked
  <2>2. row.sum \in Archives
    BY <2>1 DEF Record
  <2>3. start'[p] = Up
    BY <1>9, <2>1, <2>2, LoadKeeps
  <2> QED
    BY <2>3 DEF Up
<1>10. CASE SelectQuarantine(p)
  <2>1. /\ Checked(s) /\ row \in Record /\ s.view = row
        /\ installed[row.version] # row.sum
    BY <1>1, <1>3, <1>10 DEF SelectQuarantine, Checked
  <2>2. UNCHANGED row /\ start'[p] = [s EXCEPT !.stage = "store", !.seen = row]
    BY <1>10, SelectQuarantineKeeps
  <2>3. /\ start'[p].stage = "store" /\ start'[p].view = row
        /\ start'[p].seen = row
    BY <1>1, <2>1, <2>2 DEF StartState
  <2> QED
    BY <1>2, <2>1, <2>2, <2>3, ConstantsDiffer DEF Checked
<1>11. CASE StoreQuarantine(p)
  BY <1>11, StoreQuarantineKeeps DEF Down, Up
<1>12. CASE Raises(p)
  BY <1>12, RaisesKeeps DEF Down
<1> QED
  BY <1>4, <1>5, <1>6, <1>7, <1>8, <1>9, <1>10, <1>11, <1>12 DEF Starts

LEMMA StartChecking ==
    ASSUME Typed, ~Overlap, Checking, NEW p \in Processes, Stop(p) \/ Starts(p)
    PROVE  Checking'
<1> SUFFICES ASSUME NEW x \in Processes, start'[x].stage \notin {"down", "up"}
             PROVE  Checked(start[x])'
  BY DEF Checking
<1>1. CASE x = p
  BY <1>1, StartCheckingItself
<1>2. CASE x # p
  <2>1. start'[x] = start[x] /\ UNCHANGED installed
    BY <1>2, StartKeeps DEF Advances, files
  <2>2. start[x].stage \notin {"down", "up"} /\ Checked(start[x])
    BY <2>1 DEF Checking
  <2>3. start[p] \in {Down, Up}
    BY <1>2, <2>2, StartIsAlone
  <2>4. start[p].stage \in {"down", "up"}
    BY <2>3 DEF Down, Up
  <2>5. Stop(p) \/ List(p)
    BY <2>4 DEF Starts, BeginPacking, Raises, EndPacking, Compare, Load, SelectQuarantine,
                StoreQuarantine
  <2>6. UNCHANGED <<row, scratch>>
    BY <2>5 DEF Stop, List
  <2> QED
    BY <2>1, <2>2, <2>6 DEF Checked
<1> QED
  BY <1>1, <1>2

LEMMA BackendDiesChecking ==
    ASSUME Typed, ~Overlap, Checking, BackendDies
    PROVE  Checking'
<1> SUFFICES ASSUME NEW x \in Processes, start'[x].stage \notin {"down", "up"}
             PROVE  Checked(start[x])'
  BY DEF Checking
<1>1. x # "backend" /\ start'[x] = start[x]
  BY DEF BackendDies, Typed, Down, Processes
<1>2. start[x].stage \notin {"down", "up"} /\ Checked(start[x])
  BY <1>1 DEF Checking
<1>3. \A r \in Requests : ~AtWork(r)
  BY <1>2, StartIsAlone DEF AtWork, Idle
<1>4. UNCHANGED <<row, installed, scratch>>
  BY <1>3 DEF BackendDies, files
<1> QED
  BY <1>1, <1>2, <1>4 DEF Checked

-----------------------------------------------------------------------------
(* The invariant.                                                          *)

LEMMA InitEstablishes == PackageInit => PackageInv
<1> SUFFICES ASSUME PackageInit PROVE PackageInv
  OBVIOUS
<1>1. row \in Record \cup {None}
  BY PromotedTyped DEF PackageInit
<1>2. installed \in Dirs /\ backup \in Dirs
  BY DEF PackageInit, Dirs, Contents
<1>3. /\ req \in [Requests -> RequestState] /\ \A r \in Requests : req[r] = Idle
      /\ \A r \in Requests : Shaped(req[r])
  BY IdleTyped DEF PackageInit
<1>4. /\ start \in [Processes -> StartState] /\ \A p \in Processes : start[p] = Up
      /\ \A p \in Processes : Listed(start[p])
  BY DownTyped DEF PackageInit
<1>5. Typed
  BY <1>1, <1>2, <1>3, <1>4 DEF PackageInit, Typed, Dirs, Contents, Locks
<1>6. Locked
  BY <1>3, ConstantsDiffer DEF PackageInit, Locked, Idle, Holding
<1>7. ~Overlap
  BY <1>3, <1>4 DEF Overlap, Running, Unlocked, Idle
<1>8. Settled
  <2>1. CASE row = None
    BY <2>1 DEF Settled
  <2>2. ASSUME NEW a \in Archives, row = Promoted(a, None),
               installed = [v \in Versions |-> IF v = VersionOf[a] THEN a ELSE None]
        PROVE  Settled
    <3>1. row.version = VersionOf[a] /\ row.sum = a /\ row.back = None
      BY <2>2, PromotedTyped
    <3>2. installed[VersionOf[a]] = a
      BY <2>2, ConstantsDiffer
    <3> QED
      BY <3>1, <3>2 DEF Settled, Fits
  <2> QED
    BY <2>1, <2>2 DEF PackageInit
<1>9. Consistent
  BY <1>3, <1>8 DEF Consistent, Pending, Idle
<1>10. Checking
  BY <1>4, DownTyped DEF Checking
<1> QED
  BY <1>5, <1>6, <1>7, <1>9, <1>10 DEF PackageInv

LEMMA StepTyped ==
    ASSUME Typed, Locked, PackageNext
    PROVE  Typed' /\ Locked'
<1>1. disturbed' \in BOOLEAN
  BY DEF PackageNext, Watched
<1>2. ASSUME NEW r \in Requests,
             Arrives(r) \/ GoesOn(r) \/ LockFault(r) \/ DiskFault(r)
      PROVE  Typed' /\ Locked'
  <2>1. Kept(r)
    BY <1>2, RequestKeeps
  <2> QED
    BY <1>1, <2>1 DEF Kept, Continues, Typed, Dirs
<1>3. ASSUME NEW p \in Processes, Stop(p) \/ Starts(p)
      PROVE  Typed' /\ Locked'
  <2>1. Advances(p)
    BY <1>3, StartKeeps
  <2>2. Typed'
    BY <1>1, <2>1 DEF Advances, Typed, files, history
  <2>3. Locked'
    BY <2>1, ConstantsDiffer DEF Advances, Locked, Idle, Holding
  <2> QED
    BY <2>2, <2>3
<1>4. ASSUME BackendDies
      PROVE  Typed' /\ Locked'
  BY <1>4, BackendDiesKeeps DEF PackageNext
<1> QED
  BY <1>2, <1>3, <1>4 DEF PackageNext

LEMMA StepConsistent ==
    ASSUME PackageInv, PackageNext, Undisturbed'
    PROVE  Consistent'
<1>1. Typed /\ Locked /\ faults \in Nat
  BY DEF PackageInv, Typed
<1>2. ~disturbed
  BY DEF PackageNext, Watched, Undisturbed
<1>3. ~Overlap /\ Checking
  BY <1>2 DEF PackageInv
<1>4. ASSUME NEW r \in Requests,
             Arrives(r) \/ GoesOn(r) \/ LockFault(r) \/ DiskFault(r)
      PROVE  Consistent'
  <2>1. ~LockFault(r) /\ ~DiskFault(r)
    BY <1>1, LockFaultKeeps, DiskFaultKeeps DEF Undisturbed
  <2>2. faults' = faults
    BY <1>4, <2>1 DEF Arrives, BeginInstall, BeginUpdate, BeginRollback, BeginRemove, Begin,
                      GoesOn, Refused, InstallFiles, UpdateFiles, Restore, RemoveFiles,
                      Delete, Select, Store, counts
  <2>3. Consistent
    BY <1>2, <2>2 DEF PackageInv, Undisturbed
  <2> QED
    BY <1>1, <1>3, <1>4, <2>1, <2>3, RequestConsistent
<1>5. ASSUME NEW p \in Processes, Stop(p) \/ Starts(p)
      PROVE  Consistent'
  <2>1. faults' = 0 => faults = 0
    BY <1>1, <1>5, StartKeeps DEF Advances
  <2>2. Consistent
    BY <1>2, <2>1 DEF PackageInv, Undisturbed
  <2> QED
    BY <1>1, <1>3, <1>5, <2>2, StartConsistent
<1>6. ASSUME BackendDies
      PROVE  FALSE
  <2>1. Watched
    BY DEF PackageNext
  <2> QED
    BY <1>1, <1>6, <2>1, BackendDiesKeeps DEF Undisturbed
<1> QED
  BY <1>4, <1>5, <1>6 DEF PackageNext

LEMMA StepChecking ==
    ASSUME PackageInv, PackageNext, ~disturbed'
    PROVE  Checking'
<1>1. Typed /\ Locked
  BY DEF PackageInv
<1>2. ~disturbed
  BY DEF PackageNext, Watched
<1>3. ~Overlap /\ Checking
  BY <1>2 DEF PackageInv
<1>4. ASSUME NEW r \in Requests,
             Arrives(r) \/ GoesOn(r) \/ LockFault(r) \/ DiskFault(r)
      PROVE  Checking'
  BY <1>1, <1>3, <1>4, RequestKeeps, RequestChecking
<1>5. ASSUME NEW p \in Processes, Stop(p) \/ Starts(p)
      PROVE  Checking'
  BY <1>1, <1>3, <1>5, StartChecking
<1>6. ASSUME BackendDies
      PROVE  Checking'
  BY <1>1, <1>3, <1>6, BackendDiesChecking
<1> QED
  BY <1>4, <1>5, <1>6 DEF PackageNext

\* The invariant holds whatever the archives do when they are imported, however
\* many requests there are and wherever a crash or a full disk stops them.
THEOREM PackageInvHolds == PackageSpec => []PackageInv
<1>1. PackageInv /\ [PackageNext]_vars => PackageInv'
  <2> SUFFICES ASSUME PackageInv, [PackageNext]_vars
               PROVE  PackageInv'
    OBVIOUS
  <2>1. CASE PackageNext
    <3>1. Typed' /\ Locked'
      BY <2>1, StepTyped DEF PackageInv
    <3>2. (Overlap => disturbed)'
      BY <2>1 DEF PackageNext, Watched
    <3>3. (Undisturbed => Consistent)'
      BY <2>1, StepConsistent
    <3>4. (~disturbed => Checking)'
      BY <2>1, StepChecking
    <3> QED
      BY <3>1, <3>2, <3>3, <3>4 DEF PackageInv
  <2>2. CASE UNCHANGED vars
    BY <2>2 DEF vars, files, counts, history, PackageInv, Typed, Locked, Overlap, Running,
                Unlocked, Undisturbed, Consistent, Pending, Settled, Fits, Checking, Checked
  <2> QED
    BY <2>1, <2>2
<1> QED
  BY <1>1, InitEstablishes, PTL DEF PackageSpec

-----------------------------------------------------------------------------
(* What follows from it.                                                   *)

\* With nothing in flight, what is settled is the record.
LEMMA AtRestSettled ==
    ASSUME PackageInv, AtRest, Undisturbed, row # None
    PROVE  Fits(row, origin)
<1>1. \A r \in Requests : req[r] = Idle
  BY DEF AtRest, Running
<1>2. \A r \in Requests : req[r].stage \notin Work
  BY <1>1 DEF Idle, Work
<1> QED
  BY <1>2 DEF PackageInv, Consistent, Settled

\* Installs, updates and removals that overlap in any number and any order
\* leave the record and the files of one archive: the lock of the module is
\* what makes install, update and remove of the package services safe.
THEOREM RecordsMatchFiles == PackageSpec => []RecordMatchesFiles
<1>1. PackageInv => RecordMatchesFiles
  BY AtRestSettled DEF RecordMatchesFiles, Fits
<1> QED
  BY <1>1, PackageInvHolds, PTL

\* The backup that a record offers is what its update replaced, whatever was
\* backed up under that version before.
THEOREM RollbackPointsStay == PackageSpec => []RollbackPointIntact
<1>1. PackageInv => RollbackPointIntact
  BY AtRestSettled DEF RollbackPointIntact, Fits
<1> QED
  BY <1>1, PackageInvHolds, PTL

\* No crash and no full disk in the middle of a mutation makes a start put
\* files to work that the record does not name.
THEOREM OnlyVerifiedCode == PackageSpec => OnlyVerifiedCodeLoads
<1>1. PackageInv =>
        \A p \in Processes :
            ~disturbed /\ start[p].stage = "load" =>
                row # None /\ installed[row.version] = row.sum
  BY DEF PackageInv, Checking, Checked
<1>2. PackageInv =>
        [\A p \in Processes :
            ~disturbed /\ start[p].stage = "load" /\ start'[p] = Up =>
                row # None /\ installed[row.version] = row.sum]_vars
  BY <1>1
<1> QED
  BY <1>2, PackageInvHolds, PTL DEF OnlyVerifiedCodeLoads

\* A start that nothing overlaps quarantines only a package whose files are not
\* those of its checksum.
THEOREM QuarantinesJustified == PackageSpec => QuarantineJustified
<1>1. PackageInv =>
        \A p \in Processes :
            ~disturbed /\ start[p].stage = "store" => installed[row.version] # row.sum
  BY DEF PackageInv, Checking, Checked
<1>2. PackageInv =>
        [\A p \in Processes :
            ~disturbed /\ start[p].stage = "store" /\ row' # row =>
                installed[row.version] # row.sum]_vars
  BY <1>1
<1> QED
  BY <1>2, PackageInvHolds, PTL DEF QuarantineJustified
=============================================================================
