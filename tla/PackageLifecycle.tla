-------------------------- MODULE PackageLifecycle --------------------------
(***************************************************************************)
(* The life of one installable module package (platform/modules/packages): *)
(* its record in the database, its directories on the volume the backend   *)
(* and the collector share, the requests that install, update, roll back   *)
(* and remove it, and the check every process makes when it starts.        *)
(*                                                                         *)
(* A request first reads, validates and awaits; then it takes the lock and *)
(* moves files without awaiting; then it selects and stores the record,    *)
(* two awaits more.  A rollback takes no lock.  Between its steps other    *)
(* requests and the other process run; a crash or a full disk can stop it  *)
(* in the middle of its file work.                                         *)
(***************************************************************************)
EXTENDS Naturals

CONSTANTS
    Archives,     \* the archives of the module that pass validation
    VersionOf,    \* their manifest.version
    Broken,       \* those whose code raises when it is imported
    Unhealthy,    \* those whose default configuration makes health() not OK
    Requests,     \* the mutations in flight at most (a bound)
    MaxEvents,    \* requests and restarts in a behaviour (a bound)
    MaxFaults,    \* crashes and disk faults in a behaviour (a bound)
    Partial,      \* a directory of which a part is there
    Torn,         \* a directory whose manifest.json is cut short
    None

Processes == {"backend", "collector"}

ASSUME PackageAssumption ==
    /\ VersionOf \in [Archives -> Nat]
    /\ Broken \subseteq Archives /\ Unhealthy \subseteq Archives
    /\ MaxEvents \in Nat /\ MaxFaults \in Nat
    /\ Partial \notin Archives /\ Torn \notin Archives \cup {Partial}
    /\ None \notin Archives \cup Nat \cup Requests \cup Processes \cup {Partial, Torn}
    /\ Requests \cap Processes = {}

Versions == {VersionOf[a] : a \in Archives}
Contents == Archives \cup {Partial, Torn, None}

(***************************************************************************)
(* InstalledPackageRecord.  Every writer sets package_path to the          *)
(* directory of the version and previous_package_path to the backup of     *)
(* rollback_version, so that the two versions stand for the paths.  sum is *)
(* checksum_sha256, named by the archive that has it.                      *)
(***************************************************************************)
Record == [version: Versions, state: {"installed", "quarantined"},
           sum: Archives, back: Versions \cup {None}]

ASSUME RecordAssumption == None \notin Record

VARIABLES
    row,        \* the committed record, or None
    installed,  \* what is in installed/<module>/<version>
    backup,     \* what is in backups/<module>/<version>
    req,        \* the requests in flight
    lock,       \* the request that holds the module's lock; "backend", if none
                \* does that will ever release it
    imported,   \* the archive whose code is in the backend's sys.modules
    start,      \* where the load of each process is, what it listed and found
    scratch,    \* installed/<module>/.verify-loader.zip, shared by all
    events,     \* how many requests and restarts there were
    faults,     \* how many crashes and disk faults there were
    origin,     \* history: the kind of request that last wrote the record
    replaced,   \* history: what the last update took out of service
    disturbed   \* history: whether two steps overlapped that no lock separates

files   == <<installed, backup>>
counts  == <<events, faults>>
history == <<origin, replaced>>
vars    == <<row, files, req, lock, imported, start, scratch, counts, history, disturbed>>

Idle == [op |-> "none", stage |-> "idle", arch |-> None,
         cur |-> None, rec |-> None, seen |-> None]
Down == [stage |-> "down", view |-> None, found |-> None, seen |-> None]
Up   == [Down EXCEPT !.stage = "up"]

Quarantined(record) == [record EXCEPT !.state = "quarantined"]

Event == events < MaxEvents /\ events' = events + 1
Fault == faults < MaxFaults /\ faults' = faults + 1 /\ UNCHANGED events

\* The request r ends; what it held is free again.
Ends(r) ==
    /\ req' = [req EXCEPT ![r] = Idle]
    /\ lock' = IF lock = r THEN None ELSE lock

Goes(r, stage) == req' = [req EXCEPT ![r].stage = stage]

\* The files are in place; the record is next.
WillStore(r, record) == req' = [req EXCEPT ![r].stage = "select", ![r].rec = record]

\* An update that raised calls the rollback service.
Recovers(r) == req' = [req EXCEPT ![r].op = "recover", ![r].stage = "restore"]

-----------------------------------------------------------------------------
(* InstalledPackageRepository.upsert, then commit: a select, and a flush   *)
(* that writes the columns differing from what was selected.               *)

\* The insert of a record that is there by now, and the update of one that is
\* gone, raise.
Storable(seen) == (seen = None) <=> (row = None)

Flushed(new, selected, now) == IF new # selected THEN new ELSE now

Stored(rec, seen) ==
    IF seen = None THEN rec
    ELSE [version |-> Flushed(rec.version, seen.version, row.version),
          state   |-> Flushed(rec.state, seen.state, row.state),
          sum     |-> Flushed(rec.sum, seen.sum, row.sum),
          back    |-> Flushed(rec.back, seen.back, row.back)]

Select(r) ==
    /\ req[r].stage = "select"
    /\ req' = [req EXCEPT ![r].stage = "store", ![r].seen = row]
    /\ UNCHANGED <<row, files, lock, imported, start, scratch, counts, history>>

\* Mutant: a store that raises leaves the lock taken.
Store_Leaks(r) ==
    /\ req[r].stage = "store"
    /\ IF Storable(req[r].seen)
       THEN row' = Stored(req[r].rec, req[r].seen) /\ origin' = req[r].op /\ Ends(r)
       ELSE req' = [req EXCEPT ![r] = Idle] /\ UNCHANGED <<row, origin, lock>>
    /\ UNCHANGED <<files, imported, start, scratch, counts, replaced>>

\* An update whose flush raises calls the rollback service on a session that
\* refuses every statement, so that nothing more happens.
Store(r) ==
    /\ req[r].stage = "store"
    /\ IF Storable(req[r].seen)
       THEN /\ row' = Stored(req[r].rec, req[r].seen)
            /\ origin' = req[r].op
       ELSE UNCHANGED <<row, origin>>
    /\ Ends(r)
    /\ UNCHANGED <<files, imported, start, scratch, counts, replaced>>

-----------------------------------------------------------------------------
(* A request arrives: it reads the record, validates the archive and       *)
(* checks.  A request that is refused here leaves no trace and is left out. *)

Begin(r, request) ==
    /\ start["backend"] = Up
    /\ req[r] = Idle
    /\ req' = [req EXCEPT ![r] = request]
    /\ Event
    /\ UNCHANGED <<row, files, lock, imported, start, scratch, faults, history>>

\* PackageInstaller.install, refused for a module that is installed already.
BeginInstall(r, a) ==
    /\ row = None
    /\ Begin(r, [Idle EXCEPT !.op = "install", !.stage = "act", !.arch = a])

\* PackageUpdater.update: the downgrade check is against the record read here.
BeginUpdate(r, a, allow) ==
    /\ row # None
    /\ VersionOf[a] < row.version => allow
    /\ Begin(r, [Idle EXCEPT !.op = "update", !.stage = "act", !.arch = a,
                             !.cur = row])

\* PackageRollbackService.rollback on request.
BeginRollback(r) ==
    /\ row # None
    /\ Begin(r, [Idle EXCEPT !.op = "rollback", !.stage = "restore"])

\* PackageRemover.remove, of a module that no site, device or module uses.
BeginRemove(r) ==
    /\ row # None
    /\ Begin(r, [Idle EXCEPT !.op = "remove", !.stage = "act", !.cur = row])

-----------------------------------------------------------------------------
(* The work on the files, under the lock of the module.                    *)

\* PackageMutationLock.acquire: waiting blocks the loop that the holder needs,
\* so that a request that finds the lock taken ends with PACKAGE_LOCKED.
Refused(r) ==
    /\ req[r].stage = "act"
    /\ lock # None
    /\ Ends(r)
    /\ UNCHANGED <<row, files, imported, start, scratch, counts, history>>

\* Mutant: no lock.
Enters_Unlocked(r, op) == req[r].stage = "act" /\ req[r].op = op

Enters(r, op) ==
    /\ req[r].stage = "act"
    /\ req[r].op = op
    /\ lock = None

\* The record of an archive that is installed, with the way back.
Promoted(a, back) ==
    [version |-> VersionOf[a], state |-> "installed", sum |-> a, back |-> back]

InstallFiles(r) ==
    LET a == req[r].arch
    IN  /\ Enters(r, "install")
        /\ lock' = r
        /\ installed' = [installed EXCEPT ![VersionOf[a]] = a]
        /\ WillStore(r, Promoted(a, None))
        /\ UNCHANGED <<row, backup, imported, start, scratch, counts, history>>

\* The gate imports the module into the backend, where its name stays in
\* sys.modules: from then on the gate runs that code, with the configuration
\* defaults of each new archive.
Runs(a) == IF imported = None THEN a ELSE imported

\* evaluate_package_health
GateOf(a) ==
    CASE Runs(a) \in Broken                      -> "raises"
      [] Runs(a) \notin Broken /\ a \in Unhealthy -> "fails"
      [] OTHER                                   -> "passes"

\* Mutant: a backup that is there is kept.
BackedUp_Once(from) ==
    IF backup[from] = None THEN [backup EXCEPT ![from] = installed[from]] ELSE backup

BackedUp(from) == [backup EXCEPT ![from] = installed[from]]

\* Without the files of the version it updates, copytree raises when the old
\* backup is gone already.
UpdateFiles(r) ==
    LET a    == req[r].arch
        from == req[r].cur.version
        gate == GateOf(a)
    IN  /\ Enters(r, "update")
        /\ backup' = BackedUp(from)
        /\ IF installed[from] = None
           THEN /\ Ends(r)
                /\ UNCHANGED <<installed, imported, replaced>>
           ELSE /\ imported' = IF gate = "raises" THEN imported ELSE Runs(a)
                /\ CASE gate = "fails" ->
                          /\ Ends(r)
                          /\ UNCHANGED <<installed, replaced>>
                     [] gate = "raises" ->
                          /\ lock' = r
                          /\ Recovers(r)
                          /\ UNCHANGED <<installed, replaced>>
                     [] gate = "passes" ->
                          /\ lock' = r
                          /\ installed' = [installed EXCEPT ![VersionOf[a]] = a]
                          /\ replaced' = installed[from]
                          /\ WillStore(r, Promoted(a, from))
        /\ UNCHANGED <<row, start, scratch, counts, origin>>

CanRestore ==
    /\ row # None
    /\ row.back # None
    /\ backup[row.back] # None

\* The record of a rollback: the older version with the newer one's checksum.
Restored == [row EXCEPT !.version = row.back, !.state = "installed", !.back = None]

\* PackageRollbackService.rollback: the record as it is now decides.  Where it
\* allows no rollback, a request ends and an update that raised quarantines
\* the record it read at its start.
Restore(r) ==
    /\ req[r].stage = "restore"
    /\ IF CanRestore
       THEN /\ installed' = [installed EXCEPT ![row.back] = backup[row.back]]
            /\ WillStore(r, Restored)
            /\ UNCHANGED lock
       ELSE /\ UNCHANGED installed
            /\ IF req[r].op = "recover"
               THEN /\ WillStore(r, Quarantined(req[r].cur))
                    /\ UNCHANGED lock
               ELSE Ends(r)
    /\ UNCHANGED <<row, backup, imported, start, scratch, counts, history>>

RemoveFiles(r) ==
    /\ Enters(r, "remove")
    /\ lock' = r
    /\ installed' = [installed EXCEPT ![req[r].cur.version] = None]
    /\ Goes(r, "delete")
    /\ UNCHANGED <<row, backup, imported, start, scratch, counts, history>>

\* InstalledPackageRepository.delete, then commit.
Delete(r) ==
    /\ req[r].stage = "delete"
    /\ row' = None
    /\ Ends(r)
    /\ UNCHANGED <<files, imported, start, scratch, counts, history>>

-----------------------------------------------------------------------------
(* Faults in the middle of the work on the files.                          *)

\* A directory that is removed, removed and then copied, or removed and then moved
\* in; a copy may end in the middle of any file.
Removing(dir, v) == {dir} \cup {[dir EXCEPT ![v] = c] : c \in {Partial, None}}
Copying(dir, v)  == Removing(dir, v) \cup {[dir EXCEPT ![v] = Torn]}
Swapping(dir, v) == IF dir[v] = None THEN {dir} ELSE Removing(dir, v)

\* The work on the files that r is about to do, which runs without an await.
AtWork(r) == req[r].stage = "restore" \/ (req[r].stage = "act" /\ lock = None)

\* What it may leave behind, before or inside the try of the updater.
Halfway(r) ==
    LET a    == req[r].arch
        from == req[r].cur.version
        left(i, b, inside) == [installed |-> i, backup |-> b, inside |-> inside]
    IN  CASE req[r].op = "install" ->
               {left(i, backup, FALSE) : i \in Swapping(installed, VersionOf[a])}
          [] req[r].op = "update" ->
               {left(installed, b, FALSE) : b \in Copying(backup, from)} \cup
               {left(i, BackedUp(from), TRUE) :
                    i \in Swapping(installed, VersionOf[a])}
          [] req[r].op = "remove" ->
               {left(i, backup, FALSE) : i \in Removing(installed, from)}
          [] req[r].op \in {"rollback", "recover"} ->
               {left(i, backup, FALSE) :
                    i \in IF CanRestore THEN Copying(installed, row.back) ELSE {installed}}

\* The lock file cannot be written: the lock is taken by then, and the try whose
\* finally releases it is not reached.
LockFault(r) ==
    /\ Fault
    /\ req[r].stage = "act"
    /\ lock = None
    /\ lock' = "backend"
    /\ req' = [req EXCEPT ![r] = Idle]
    /\ UNCHANGED <<row, files, imported, start, scratch, history>>

\* The disk is full: the request ends with the error, but a remover goes on
\* and an update inside its try calls the rollback service.
DiskFault(r) ==
    /\ Fault
    /\ AtWork(r)
    /\ \E left \in Halfway(r) :
        /\ installed' = left.installed
        /\ backup' = left.backup
        /\ CASE req[r].op = "remove" ->
                  /\ lock' = r
                  /\ Goes(r, "delete")
             [] req[r].op = "update" /\ left.inside ->
                  /\ lock' = r
                  /\ Recovers(r)
             [] OTHER -> Ends(r)
    /\ UNCHANGED <<row, imported, start, scratch, history>>

\* The backend dies, with all its requests and their uncommitted records.
BackendDies ==
    /\ Fault
    /\ start["backend"] # Down
    /\ \/ UNCHANGED files
       \/ \E r \in Requests :
            /\ AtWork(r)
            /\ \E left \in Halfway(r) : installed' = left.installed /\ backup' = left.backup
    /\ req' = [r \in Requests |-> Idle]
    /\ lock' = None
    /\ imported' = None
    /\ start' = [start EXCEPT !["backend"] = Down]
    /\ UNCHANGED <<row, scratch, history>>

-----------------------------------------------------------------------------
(* load_installed_module_packages, when a process starts.  The two of them *)
(* may start together.                                                     *)

\* A restart, which is what puts an installed version to work.  The backend
\* finishes its requests first.
Stop(p) ==
    /\ start[p] # Down
    /\ p = "backend" => \A r \in Requests : req[r] = Idle
    /\ start' = [start EXCEPT ![p] = Down]
    /\ imported' = IF p = "backend" THEN None ELSE imported
    /\ lock' = IF p = "backend" THEN None ELSE lock
    /\ Event
    /\ UNCHANGED <<row, files, req, scratch, faults, history>>

Reaches(p, stage) == start' = [start EXCEPT ![p].stage = stage]

WillQuarantine(p) == Reaches(p, "select")

\* An error that nothing catches ends the start of the process.
Fails(p) == start' = [start EXCEPT ![p] = Down]

\* There is nothing to check for a module that is quarantined or not there.
List(p) ==
    /\ start[p].stage = "down"
    /\ start' = [start EXCEPT ![p] =
                    IF row # None /\ row.state = "installed"
                    THEN [Down EXCEPT !.stage = "verify", !.view = row] ELSE Up]
    /\ UNCHANGED <<row, files, req, lock, imported, scratch, counts, history>>

\* _verify_installed_package reads the manifest, outside its try, and packs the
\* files into an archive of a fixed name ...
BeginPacking(p) ==
    LET found == installed[start[p].view.version]
    IN  /\ start[p].stage = "verify"
        /\ CASE found = None -> WillQuarantine(p) /\ UNCHANGED scratch
             [] found = Torn -> Fails(p) /\ UNCHANGED scratch
             [] found \notin {None, Torn} ->
                  /\ start' = [start EXCEPT ![p].stage = "packing", ![p].found = found]
                  /\ scratch' = Partial
        /\ UNCHANGED <<row, files, req, lock, imported, counts, history>>

\* A request has moved the files of the version, and not committed yet.
Moved(v) ==
    \E r \in Requests :
        \/ req[r].stage \in {"select", "store"} /\ req[r].rec.version = v
        \/ req[r].stage = "delete" /\ req[r].cur.version = v

\* ... which raises, outside the try too, when the disk is full or a file that was
\* listed is gone when it is read ...
Raises(p) ==
    LET v == start[p].view.version
    IN  /\ start[p].stage = "packing"
        /\ \/ Fault
           \/ UNCHANGED counts /\ (installed[v] # start[p].found \/ Moved(v))
        /\ Fails(p)
        /\ UNCHANGED <<row, files, req, lock, imported, scratch, history>>

\* Mutant: compiled files are packed as well.
EndPacking_Compiled(p) ==
    LET found == installed[start[p].view.version]
    IN  /\ start[p].stage = "packing"
        /\ scratch' = IF scratch = None THEN None
                      ELSE IF imported = found THEN Partial ELSE found
        /\ Reaches(p, "packed")
        /\ UNCHANGED <<row, files, req, lock, imported, counts, history>>

\* ... and which the other process may have deleted meanwhile ...
EndPacking(p) ==
    /\ start[p].stage = "packing"
    /\ scratch' = IF scratch = None THEN None ELSE installed[start[p].view.version]
    /\ Reaches(p, "packed")
    /\ UNCHANGED <<row, files, req, lock, imported, counts, history>>

\* Mutant: the archive is only read.
Compare_Unchecked(p) ==
    /\ start[p].stage = "packed"
    /\ scratch' = None
    /\ IF scratch \in Archives THEN Reaches(p, "load") ELSE WillQuarantine(p)
    /\ UNCHANGED <<row, files, req, lock, imported, counts, history>>

\* ... compares its checksum with the record's and deletes it.
Compare(p) ==
    /\ start[p].stage = "packed"
    /\ scratch' = None
    /\ IF scratch = start[p].view.sum THEN Reaches(p, "load") ELSE WillQuarantine(p)
    /\ UNCHANGED <<row, files, req, lock, imported, counts, history>>

\* The registration: an installed module runs isolated and is not imported.
Load(p) ==
    /\ start[p].stage = "load"
    /\ IF installed[start[p].view.version] \in Archives
       THEN start' = [start EXCEPT ![p] = Up]
       ELSE WillQuarantine(p)
    /\ UNCHANGED <<row, files, req, lock, imported, scratch, counts, history>>

\* quarantine_package: the record as it was listed, marked.
SelectQuarantine(p) ==
    /\ start[p].stage = "select"
    /\ start' = [start EXCEPT ![p].stage = "store", ![p].seen = row]
    /\ UNCHANGED <<row, files, req, lock, imported, scratch, counts, history>>

\* Mutant: the quarantined record is inserted even if there is one.
StoreQuarantine_Inserts(p) ==
    /\ start[p].stage = "store"
    /\ IF start[p].seen = None /\ row = None
       THEN /\ row' = Quarantined(start[p].view)
            /\ start' = [start EXCEPT ![p] = Up]
       ELSE Fails(p) /\ UNCHANGED row
    /\ UNCHANGED <<files, req, lock, imported, scratch, counts, history>>

\* An error in the flush is one that nothing catches.
StoreQuarantine(p) ==
    /\ start[p].stage = "store"
    /\ IF Storable(start[p].seen)
       THEN /\ row' = Stored(Quarantined(start[p].view), start[p].seen)
            /\ start' = [start EXCEPT ![p] = Up]
       ELSE Fails(p) /\ UNCHANGED row
    /\ UNCHANGED <<files, req, lock, imported, scratch, counts, history>>

-----------------------------------------------------------------------------
\* The module is not there, or it was installed once.
PackageInit ==
    /\ \/ /\ row = None
          /\ installed = [v \in Versions |-> None]
          /\ origin = "none"
       \/ \E a \in Archives :
          /\ row = Promoted(a, None)
          /\ installed = [v \in Versions |-> IF v = VersionOf[a] THEN a ELSE None]
          /\ origin = "install"
    /\ backup = [v \in Versions |-> None]
    /\ req = [r \in Requests |-> Idle]
    /\ lock = None
    /\ imported = None
    /\ start = [p \in Processes |-> Up]
    /\ scratch = None
    /\ events = 0
    /\ faults = 0
    /\ replaced = None
    /\ disturbed = FALSE

Arrives(r) ==
    \/ \E a \in Archives : BeginInstall(r, a)
    \/ \E a \in Archives, allow \in BOOLEAN : BeginUpdate(r, a, allow)
    \/ BeginRollback(r)
    \/ BeginRemove(r)

\* A request that is in flight goes on.
GoesOn(r) ==
    \/ Refused(r)
    \/ InstallFiles(r)
    \/ UpdateFiles(r)
    \/ Restore(r)
    \/ RemoveFiles(r)
    \/ Delete(r)
    \/ Select(r)
    \/ Store(r)

Starts(p) ==
    \/ List(p)
    \/ BeginPacking(p)
    \/ Raises(p)
    \/ EndPacking(p)
    \/ Compare(p)
    \/ Load(p)
    \/ SelectQuarantine(p)
    \/ StoreQuarantine(p)

\* A rollback and a start take no lock: what they do may fall between two
\* steps of anything else.
Running == {r \in Requests : req[r] # Idle} \cup {p \in Processes : start[p] \notin {Down, Up}}
Unlocked == {r \in Requests : req[r].op = "rollback"} \cup (Processes \cap Running)
Overlap == \E u \in Unlocked : \E other \in Running : other # u
Watched == disturbed' = (disturbed \/ Overlap')

PackageNext ==
    /\ \/ \E r \in Requests : Arrives(r) \/ GoesOn(r) \/ LockFault(r) \/ DiskFault(r)
       \/ \E p \in Processes : Stop(p) \/ Starts(p)
       \/ BackendDies
    /\ Watched

\* Every await of a request and of a start returns, and a process that is down
\* is started again.
PackageFairness ==
    /\ \A r \in Requests : WF_vars(GoesOn(r) /\ Watched)
    /\ \A p \in Processes : WF_vars(Starts(p) /\ Watched)

PackageSpec == PackageInit /\ [][PackageNext]_vars /\ PackageFairness

-----------------------------------------------------------------------------
(* Properties.                                                             *)

AtRest == Running = {}

Undisturbed == ~disturbed /\ faults = 0

\* When nothing is in flight, the record names the archive whose files are
\* there: updates, installs and removals that overlap in any order leave both
\* as one of them left both.  This is what PackageMutationLock is for; a
\* rollback or a start that overlaps them takes no lock and breaks it.
RecordMatchesFiles ==
    AtRest /\ Undisturbed /\ row # None =>
        (row.state = "installed" /\ origin \in {"install", "update"} =>
            installed[row.version] = row.sum)

\* The backup that the record offers for a rollback is what the last update
\* took out of service, whatever was installed, refused and removed before.
\* (A refused update of a package that was updated within one version does
\* overwrite its backup.  And an update that raised, and finds no way back, puts
\* back the record it read when it came in: the backup that one names may be
\* overwritten by then, if the package was removed, installed and updated anew
\* while the update waited.)
RollbackPointIntact ==
    AtRest /\ Undisturbed /\ row # None =>
        (row.back \notin {None, row.version} /\ origin # "recover" =>
            backup[row.back] = replaced)

\* After any crash or full disk in the middle of a mutation, a process that
\* starts puts a package to work only with the files that the record names:
\* _verify_installed_package makes up for a half-done change.
OnlyVerifiedCodeLoads ==
    [][\A p \in Processes :
        ~disturbed /\ start[p].stage = "load" /\ start'[p] = Up =>
            row # None /\ installed[row.version] = row.sum]_vars

\* A start that overlaps nothing quarantines no healthy package.  (Two starts
\* at once do: they share .verify-loader.zip.)
QuarantineJustified ==
    [][\A p \in Processes :
        ~disturbed /\ start[p].stage = "store" /\ row' # row =>
            installed[row.version] # row.sum]_vars

\* Whichever way a mutation ends that got to its work, refused, raised or committed,
\* the lock of the module does not stay taken: every later mutation would end
\* PACKAGE_LOCKED.  (It does after one that could not write the lock file, until the
\* backend is restarted.)
LockIsReleased == []<>(lock \notin Requests)

\* The manifest of the package that is to be put to work is cut short.
Unreadable == row # None /\ row.state = "installed" /\ installed[row.version] = Torn

\* A damaged package keeps no process from starting, nor does one that vanishes or
\* changes as it is checked: it is quarantined, or the next start gets through.
\* (One whose manifest is cut short does keep them all from it.)
ProcessesComeUp == []<>(Unreadable \/ \A p \in Processes : start[p] = Up)

\* A package in the state INSTALLED is healthy and loadable, that is, its files
\* are those of its checksum; here, after a rollback that nothing overlapped.
RolledBackIsLoadable ==
    AtRest /\ Undisturbed /\ row # None =>
        (row.state = "installed" /\ origin = "rollback" =>
            installed[row.version] = row.sum)
=============================================================================
