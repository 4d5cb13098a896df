----------------------------- MODULE BackupRestore -----------------------------
(***************************************************************************)
(* The profiles on disk and the restore of a backup: safety backup, swap   *)
(* of the profiles and of the log directories, rollback, new registry.     *)
(* Simplifications:                                                        *)
(*  - a metadata database or a log is what it came from; a log also has    *)
(*    the QSOs written since;                                              *)
(*  - the log directory of a profile has the same path before and after;   *)
(*  - directories of one restore never meet those of another one: their    *)
(*    time stamps differ;                                                  *)
(*  - an archive is what inspect_backup looks at: whether its members have *)
(*    safe, distinct names and bearable sizes (sound), the profiles its    *)
(*    manifest lists, those with all their ADI files, the databases in it, *)
(*    its registry, and the active profile of both (None: not stated).     *)
(***************************************************************************)
EXTENDS Integers, FiniteSets, SequencesExt

CONSTANTS OldProfiles,       \* profiles in the registry at the start
          Archives,          \* ZIP files the user may choose
          NewProfiles,       \* profiles the user may create
          None,
          MaxWrites, MaxOps, MaxFaults   \* bounds: QSOs, operations, failures

ASSUME ProfilesAssumption ==
    /\ OldProfiles # {}
    /\ \A archive \in Archives :
          /\ NewProfiles \intersect (OldProfiles \union archive.databases \union archive.listed) = {}
          /\ IsFiniteSet(archive.listed)

Profiles == OldProfiles \union NewProfiles
            \union UNION {archive.databases \union archive.listed : archive \in Archives}

\* Where a database or a log came from; a log also has the QSOs written to it since.
Origins == {"old", "backup", "empty"}
Logs    == [from : Origins, qsos : SUBSET Nat]

ASSUME NoneAssumption ==
    None \notin Origins \union Logs \union [Profiles -> Origins \union {None}]

VARIABLES
    app,       \* "closed", "running", or the step of an operation
    disk,      \* registry: profiles.json; current: origin of the database of
               \* an id; prepared, aside: profiles.restore-*, .pre-restore-*;
               \* logs, preparedLogs, asideLogs: the same for log directories;
               \* zip: the copies in the last safety backup
    restore,   \* archive: the chosen file; staged: what the backup has copied; todo,
               \* swapped: log directories; history: before (the disk), committed,
               \* rollbackFailed
    memory,    \* the registry in the memory of the ProfileManager
    profile,   \* the profile that is being created or deleted
    ghosts,    \* history: profiles whose creation failed before their database was there
    worker,    \* a sync or a QSO write is running
    written,   \* number of QSOs written to a log
    acked,     \* history: those written while no restore was running
    orphaned,  \* history: QSOs of deleted profiles whose ADI files were kept
    leftover,  \* history: QSOs in what earlier restores left behind
    cut,       \* history: a restore was cut short in the middle
    ops, faults

manager == <<memory, profile, ghosts>>
vars == <<app, disk, restore, manager, worker, written, acked, orphaned, leftover, cut, ops, faults>>

Nothing == [id \in Profiles |-> None]
All(ids, what) == [id \in Profiles |-> IF id \in ids THEN what ELSE None]
Log(from) == [from |-> from, qsos |-> {}]
Has(dir) == {id \in Profiles : dir[id] # None}
QsosIn(dir) == UNION {dir[id].qsos : id \in Has(dir)}

Live == [registry |-> disk.registry, current |-> disk.current, logs |-> disk.logs]

NoRestore == [archive |-> None, staged |-> {}, todo |-> <<>>, swapped |-> <<>>, before |-> None,
              committed |-> FALSE, rollbackFailed |-> FALSE]

Init ==
    /\ app = "running"
    /\ disk = [registry |-> OldProfiles, current |-> All(OldProfiles, "old"),
               prepared |-> None, aside |-> None, logs |-> All(OldProfiles, Log("old")),
               preparedLogs |-> Nothing, asideLogs |-> Nothing, zip |-> {}]
    /\ restore = NoRestore
    /\ memory = OldProfiles /\ profile = None /\ ghosts = {}
    /\ worker = FALSE /\ written = 0 /\ acked = {} /\ orphaned = {} /\ leftover = {} /\ cut = FALSE
    /\ ops = 0 /\ faults = 0

Fault == faults < MaxFaults /\ faults' = faults + 1

Step(from, to) ==
    app = from /\ app' = to /\ UNCHANGED <<worker, written, acked, orphaned, leftover, cut, ops, faults>>

Fails(from, to) ==
    app = from /\ app' = to /\ Fault /\ UNCHANGED <<worker, written, acked, orphaned, leftover, ops>>

UserOp == ops < MaxOps /\ ops' = ops + 1 /\ UNCHANGED <<worker, written, cut, faults>>

-----------------------------------------------------------------------------
(* inspect_backup                                                          *)

\* Members with safe and distinct names, and of bearable number and size.
Sound(archive) == archive.sound

\* Every listed profile has its database and its ADI files.
Complete(archive) ==
    /\ archive.listed # {}
    /\ archive.listed \subseteq archive.databases \intersect archive.adi

\* The registry has the same profiles, and no other one is the active profile.
Registered(archive) ==
    /\ archive.registered = archive.listed
    /\ archive.active # None => archive.active \in archive.registered

Consistent(archive) ==
    /\ Registered(archive)
    /\ archive.manifestActive # None =>
          /\ archive.manifestActive \in archive.listed
          /\ archive.active \in {None, archive.manifestActive}

InspectWithoutRegistry(archive) == Sound(archive) /\ Complete(archive)

InspectBackup(archive) == Sound(archive) /\ Complete(archive) /\ Consistent(archive)

-----------------------------------------------------------------------------
(* create_backup: the database and the log of one profile after the other. *)

ZipQsos == UNION {copy.log.qsos : copy \in {copy \in disk.zip : copy.log # None}}

RestoreDataBackup ==
    /\ app = "running" /\ app' = "backup"
    /\ UserOp
    /\ \E archive \in Archives :
          /\ InspectBackup(archive)
          /\ restore' = [NoRestore EXCEPT !.archive = archive]
    /\ leftover' = leftover \union ZipQsos
    /\ UNCHANGED <<disk, acked, orphaned>>

ToBackUp == disk.registry \ {s.id : s \in restore.staged}

(* A profile without database fails the backup, and so the restore.        *)
BackUpProfile ==
    \E id \in ToBackUp :
        IF disk.current[id] = None
        THEN Step("backup", "refused") /\ UNCHANGED <<disk, restore>>
        ELSE /\ Step("backup", "backup")
             /\ restore' = [restore EXCEPT !.staged =
                              @ \union {[id |-> id, db |-> disk.current[id], log |-> disk.logs[id]]}]
             /\ UNCHANGED disk

WriteZip ==
    /\ ToBackUp = {} /\ Step("backup", "prepare")
    /\ disk' = [disk EXCEPT !.zip = restore.staged]
    /\ UNCHANGED restore

GoOnWithoutZip ==
    /\ ToBackUp = {} /\ Fails("backup", "prepare")
    /\ UNCHANGED <<disk, restore, cut>>

WriteZipFails ==
    /\ ToBackUp = {} /\ Fails("backup", "refused")
    /\ UNCHANGED <<disk, restore, cut>>

-----------------------------------------------------------------------------
(* restore_backup.  From here an error closes the application.             *)

Chosen == restore.archive

(* All log directories and a copy of the profiles, beside the live ones.   *)
PrepareRestore ==
    /\ Step("prepare", "moveOldProfiles")
    /\ disk' = [disk EXCEPT !.preparedLogs = All(Chosen.listed, Log("backup")),
                            !.prepared = All(Chosen.databases, "backup")]
    /\ \E order \in SetToSeqs(Chosen.listed) :
         restore' = [restore EXCEPT !.todo = order, !.before = Live]

PrepareRestoreFails ==
    /\ Fails("prepare", "failed")
    /\ \E ids \in SUBSET Chosen.listed :
         disk' = [disk EXCEPT !.preparedLogs = All(ids, Log("backup"))]
    /\ restore' = [restore EXCEPT !.before = Live]
    /\ UNCHANGED cut

MoveOldProfiles ==
    /\ Step("moveOldProfiles", "moveNewProfiles")
    /\ disk' = [disk EXCEPT !.aside = disk.current, !.current = Nothing]
    /\ UNCHANGED restore

MoveNewProfilesForGood ==
    /\ Step("moveNewProfiles", "moveOldLog")
    /\ disk' = [disk EXCEPT !.current = disk.prepared, !.prepared = None, !.aside = None]
    /\ UNCHANGED restore

MoveNewProfiles ==
    /\ Step("moveNewProfiles", "moveOldLog")
    /\ disk' = [disk EXCEPT !.current = disk.prepared, !.prepared = None]
    /\ UNCHANGED restore

ToSwap == Head(restore.todo)

MoveOldLog ==
    /\ restore.todo # <<>> /\ Step("moveOldLog", "moveNewLog")
    /\ disk' = [disk EXCEPT !.asideLogs[ToSwap] = disk.logs[ToSwap], !.logs[ToSwap] = None]
    /\ UNCHANGED restore

MoveNewLog ==
    /\ Step("moveNewLog", "moveOldLog")
    /\ disk' = [disk EXCEPT !.logs[ToSwap] = disk.preparedLogs[ToSwap],
                            !.preparedLogs[ToSwap] = None]
    /\ restore' = [restore EXCEPT !.swapped = Append(@, ToSwap), !.todo = Tail(@)]

SwapFails ==
    /\ \/ Fails("moveOldProfiles", "rollback")
       \/ Fails("moveNewProfiles", "rollback")
       \/ restore.todo # <<>> /\ Fails("moveOldLog", "rollback")
    /\ UNCHANGED <<disk, restore, cut>>

LeaveTheLog ==
    /\ Fails("moveNewLog", "rollback")
    /\ UNCHANGED <<disk, restore, cut>>

(* The log that was moved away comes back before the rollback of the rest, *)
(* or stays aside when that fails as well.                                 *)
MoveNewLogFails ==
    /\ Fails("moveNewLog", "rollback") /\ UNCHANGED cut
    /\ \/ /\ disk' = [disk EXCEPT !.logs[ToSwap] = disk.asideLogs[ToSwap],
                                   !.asideLogs[ToSwap] = None]
          /\ UNCHANGED restore
       \/ /\ disk.asideLogs[ToSwap] # None
          /\ restore' = [restore EXCEPT !.rollbackFailed = TRUE]
          /\ UNCHANGED disk

(* The log swapped last comes first, the profiles come last.               *)
RollbackLog ==
    /\ restore.swapped # <<>> /\ Step("rollback", "rollback")
    /\ LET id == Last(restore.swapped)
       IN  disk' = [disk EXCEPT !.logs[id] = disk.asideLogs[id], !.asideLogs[id] = None]
    /\ restore' = [restore EXCEPT !.swapped = Front(@)]

RollbackProfiles ==
    /\ restore.swapped = <<>> /\ Step("rollback", "failed")
    /\ disk' = IF disk.aside = None THEN disk
               ELSE [disk EXCEPT !.current = disk.aside, !.aside = None]
    /\ UNCHANGED restore

(* What cannot be removed ends the rollback where it is.                   *)
RollbackFails ==
    /\ Fails("rollback", "failed")
    /\ restore' = [restore EXCEPT !.rollbackFailed = TRUE]
    /\ cut' = TRUE
    /\ UNCHANGED disk

(* What was replaced is removed as far as that is possible.                *)
RemoveOld ==
    /\ restore.todo = <<>> /\ Step("moveOldLog", "registry")
    /\ \E aside \in {None, disk.aside}, kept \in SUBSET Has(disk.asideLogs) :
         disk' = [disk EXCEPT !.aside = aside,
                              !.asideLogs = [id \in Profiles |-> IF id \in kept THEN @[id] ELSE None]]
    /\ restore' = [restore EXCEPT !.committed = TRUE]

(* profiles.json, then the preferences.                                    *)
ReplaceRegistry ==
    /\ app = "registry" /\ app' = "preferences"
    /\ disk' = [disk EXCEPT !.registry = Chosen.registered]
    /\ cut' = FALSE
    /\ UNCHANGED <<restore, worker, written, acked, orphaned, leftover, ops, faults>>

ReplacePreferences == Step("preferences", "done") /\ UNCHANGED <<disk, restore>>

ReplaceFails ==
    /\ \/ Fails("registry", "failed") /\ cut' = TRUE
       \/ Fails("preferences", "failed") /\ UNCHANGED cut
    /\ UNCHANGED <<disk, restore>>

(* A refused restore leaves the application running, any other closes it.  *)
RestoreHandled ==
    /\ app \in {"refused", "failed", "done"}
    /\ app' = IF app = "refused" THEN "running" ELSE "closed"
    /\ worker' = (worker /\ app = "refused")
    /\ UNCHANGED <<disk, restore, written, acked, orphaned, leftover, cut, ops, faults>>

-----------------------------------------------------------------------------
(* The profiles and the logs while the application runs.                   *)

(* Any profile that is listed and saved may be the active one: the user    *)
(* switches, but not to one that is being deleted.                         *)
InUse(id) == id \in (memory \intersect disk.registry) \ {profile}

(* The active profile gets a database and a log directory if need be.      *)
Opened(id) ==
    [disk EXCEPT !.current[id] = IF @ = None THEN "empty" ELSE @,
                 !.logs[id] = IF @ = None THEN Log("empty") ELSE @]

Start(id) ==
    /\ app = "closed" /\ app' = "running" /\ id \in disk.registry
    /\ UserOp
    /\ disk' = [Opened(id) EXCEPT !.aside = None, !.asideLogs = Nothing,
                                  !.prepared = None, !.preparedLogs = Nothing]
    /\ leftover' = leftover \union QsosIn(disk.asideLogs)
    /\ restore' = NoRestore
    /\ memory' = disk.registry /\ profile' = None
    /\ UNCHANGED <<acked, orphaned, ghosts>>

(* The active profile is saved before its database is opened.              *)
OpenProfile(id) ==
    /\ InUse(id) /\ id \notin Has(disk.current)
    /\ Step("running", "running")
    /\ disk' = Opened(id)
    /\ UNCHANGED <<restore, manager>>

(* A new name or another active profile: all that is in memory is saved.   *)
SaveRegistry ==
    /\ memory # disk.registry
    /\ Step("running", "running")
    /\ disk' = [disk EXCEPT !.registry = memory]
    /\ UNCHANGED <<restore, manager>>

(* A profile is listed in memory before it has a database.                 *)
RegisterProfile(id) ==
    /\ id \notin memory \union disk.registry \union ghosts
    /\ app = "running" /\ app' = "creating"
    /\ UserOp
    /\ memory' = memory \union {id} /\ profile' = id
    /\ UNCHANGED <<disk, restore, ghosts, acked, orphaned, leftover>>

CreateDatabase ==
    /\ Step("creating", "saving")
    /\ disk' = [disk EXCEPT !.current[profile] = "empty",
                            !.logs[profile] = IF @ = None THEN Log("empty") ELSE @]
    /\ UNCHANGED <<restore, manager>>

SaveCreated ==
    /\ Step("saving", "running")
    /\ disk' = [disk EXCEPT !.registry = memory]
    /\ profile' = None
    /\ UNCHANGED <<restore, memory, ghosts>>

(* Only a message: the profile stays listed in memory.                     *)
CreateFails ==
    /\ \/ Fails("creating", "running") /\ ghosts' = ghosts \union {profile}
       \/ Fails("saving", "running") /\ UNCHANGED ghosts
    /\ profile' = None
    /\ UNCHANGED <<disk, restore, memory, cut>>

QsosOf(id) == IF disk.logs[id] = None THEN {} ELSE disk.logs[id].qsos

(* Another profile is in use; its ADI files are deleted on request.        *)
DeleteProfile(id) ==
    /\ id \in memory /\ \E other \in Profiles \ {id} : InUse(other)
    /\ app = "running" /\ app' = "deleting"
    /\ UserOp
    /\ profile' = id
    /\ \/ UNCHANGED <<disk, acked>>
       \/ /\ disk.logs[id] # None
          /\ disk' = [disk EXCEPT !.logs[id] = Log("empty")]
          /\ acked' = acked \ QsosOf(id)
    /\ UNCHANGED <<restore, memory, ghosts, orphaned, leftover>>

Unlist ==
    /\ memory' = memory \ {profile}
    /\ orphaned' = orphaned \union QsosOf(profile)

(* The registry without the profile, then its directory.                   *)
SaveDeleted ==
    /\ app = "deleting" /\ app' = "removing"
    /\ Unlist
    /\ disk' = [disk EXCEPT !.registry = memory']
    /\ UNCHANGED <<restore, profile, ghosts, worker, written, acked, leftover, cut, ops, faults>>

RemoveDatabase ==
    /\ Step("removing", "running")
    /\ disk' = [disk EXCEPT !.current[profile] = None]
    /\ profile' = None
    /\ UNCHANGED <<restore, memory, ghosts>>

(* An ADI file cannot be deleted, or the registry not be saved.            *)
DeleteFails ==
    /\ app = "deleting" /\ app' = "running" /\ Fault
    /\ Unlist \/ UNCHANGED <<memory, orphaned>>
    /\ profile' = None
    /\ UNCHANGED <<disk, restore, ghosts, worker, written, acked, leftover, cut, ops>>

(* A sync or a QSO write starts and goes on, whatever the restore does; it *)
(* appends to the file that is there.                                      *)
WorkerStarts ==
    /\ app = "running" /\ ~worker /\ worker' = TRUE
    /\ UNCHANGED <<app, disk, restore, manager, written, acked, orphaned, leftover, cut, ops, faults>>

WorkerWrites(id) ==
    /\ worker /\ written < MaxWrites
    /\ InUse(id) /\ disk.logs[id] # None
    /\ written' = written + 1
    /\ disk' = [disk EXCEPT !.logs[id].qsos = @ \union {written'}]
    /\ acked' = IF app = "running" THEN acked \union {written'} ELSE acked
    /\ UNCHANGED <<app, restore, manager, worker, orphaned, leftover, cut, ops, faults>>

WorkerEnds ==
    /\ worker /\ worker' = FALSE
    /\ UNCHANGED <<app, disk, restore, manager, written, acked, orphaned, leftover, cut, ops, faults>>

Crash ==
    /\ app # "closed" /\ app' = "closed" /\ Fault
    /\ worker' = FALSE
    /\ cut' = (cut \/ app \in {"moveNewProfiles", "moveOldLog", "moveNewLog", "rollback", "registry"})
    /\ UNCHANGED <<disk, restore, manager, written, acked, orphaned, leftover, ops>>

-----------------------------------------------------------------------------
Restore ==
    \/ RestoreDataBackup \/ BackUpProfile \/ WriteZip \/ WriteZipFails
    \/ PrepareRestore \/ PrepareRestoreFails
    \/ MoveOldProfiles \/ MoveNewProfiles \/ MoveOldLog \/ MoveNewLog
    \/ SwapFails \/ MoveNewLogFails
    \/ RollbackLog \/ RollbackProfiles \/ RollbackFails
    \/ RemoveOld \/ ReplaceRegistry \/ ReplacePreferences \/ ReplaceFails
    \/ RestoreHandled

Next ==
    \/ Restore /\ UNCHANGED manager
    \/ Crash
    \/ \E id \in NewProfiles : RegisterProfile(id)
    \/ CreateDatabase \/ SaveCreated \/ CreateFails
    \/ \E id \in Profiles : Start(id) \/ OpenProfile(id) \/ DeleteProfile(id) \/ WorkerWrites(id)
    \/ SaveDeleted \/ RemoveDatabase \/ DeleteFails \/ SaveRegistry
    \/ WorkerStarts \/ WorkerEnds

Spec == Init /\ [][Next]_vars

-----------------------------------------------------------------------------
(* Properties.                                                             *)

Before == restore.before
SameOrigin(log, other) ==
    (log = None) = (other = None) /\ (log # None => log.from = other.from)

(* Wherever a restore stops, by an error, a failed rollback or a crash,    *)
(* the disk holds everything it had before, or everything of the backup    *)
(* (data_backup.py:764).                                                   *)
OldStillOnDisk ==
    \A id \in Profiles :
        /\ \/ disk.current[id] = Before.current[id]
           \/ disk.aside # None /\ disk.aside[id] = Before.current[id]
        /\ Before.logs[id] # None =>
             \E log \in {disk.logs[id], disk.asideLogs[id]} : SameOrigin(log, Before.logs[id])

NewOnDisk ==
    /\ disk.current = All(Chosen.databases, "backup")
    /\ \A id \in Chosen.listed : SameOrigin(disk.logs[id], Log("backup"))

OldOrNewOnDisk == Before # None => OldStillOnDisk \/ NewOnDisk

(* A restore that fails before the swap is complete leaves the profiles,   *)
(* logs and registry as they were, if the rollback itself does not fail    *)
(* (data_backup.py:782).                                                   *)
FailedRestoreRollsBack ==
    app = "failed" /\ ~restore.committed /\ ~restore.rollbackFailed =>
        /\ disk.registry = Before.registry /\ disk.current = Before.current
        /\ \A id \in Profiles : SameOrigin(disk.logs[id], Before.logs[id])

OnDisk == QsosIn(disk.logs) \union QsosIn(disk.asideLogs) \union leftover \union ZipQsos

(* A QSO that was acknowledged before a restore began is in a log, in a    *)
(* directory that was set aside or in a safety backup, however many        *)
(* restores follow and wherever they stop, unless its profile was deleted  *)
(* (docs/en/USER_GUIDE.md:136).                                            *)
AcknowledgedIsKept == acked \ orphaned \subseteq OnDisk

(* Every profile of the registry has its database, without which no backup *)
(* can be made: a backup whose parts do not fit together is refused, and   *)
(* what is saved was created before and is removed after; unless a restore *)
(* was cut short, or the creation of the profile failed halfway            *)
(* (data_backup.py:193, 516; logger_core.py:318, 418).                     *)
RegistryHasDatabases ==
    app = "running" /\ ~cut => disk.registry \ ghosts \subseteq Has(disk.current)
===============================================================================
