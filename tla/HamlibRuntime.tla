--------------------------- MODULE HamlibRuntime ---------------------------
(***************************************************************************)
(* The Hamlib programs on disk and their replacement (hamlib_update.py).   *)
(*                                                                         *)
(* rigctld and rotctld come with the program; on Windows a newer release   *)
(* may be installed beside it, in a directory "current" that is used first *)
(* (find_hamlib_dir).  Installing moves the version in use to "backup" and *)
(* the new one in; restoring exchanges the two through "swap".  The worker *)
(* takes one action per file operation: each may fail, and a rename fails  *)
(* as long as a program runs from the directory (locked).                  *)
(*                                                                         *)
(* A directory is a number: Absent, Unusable (rigctld or rotctld missing), *)
(* Partial (both present, but the copy is incomplete and does not run), or *)
(* a version.                                                              *)
(***************************************************************************)
EXTENDS Naturals

CONSTANTS Latest,      \* the newest release of Hamlib
          InitialDisks \* what earlier runs of the program may have left on the disk
VARIABLES disk,        \* the directories current, backup and swap
          updater      \* the worker that installs or restores, and its last result

Absent   == 0
Unusable == 1
Partial  == 2
Bundled  == 3          \* the version that came with the program

ASSUME LatestAssumption == Latest \in Nat /\ Latest > Bundled

Versions == Bundled .. Latest
Contents == {Absent, Unusable, Partial} \union Versions

Usable(dir) == dir >= Partial
Runs(dir)   == dir \in Versions

ASSUME InitialDisksAssumption ==
    InitialDisks \subseteq [current : Contents, backup : Contents, swap : {Absent}]

\* find_hamlib_dir: the installed version when there is one, else the bundled one.
Active == IF Usable(disk.current) THEN disk.current ELSE Bundled

Idle(result) == [step |-> "idle", result |-> result, release |-> Absent,
                 active |-> Absent, had |-> Absent]

RuntimeInit ==
    /\ disk \in InitialDisks
    /\ updater = Idle("")

At(step) == updater.step = step
GoTo(step) == updater' = [updater EXCEPT !.step = step]
End(result) == updater' = [Idle(result) EXCEPT !.active = updater.active, !.had = updater.had]

-----------------------------------------------------------------------------
(* install_windows_release *)

\* find_latest_windows_release: a newer release than the one in use.
NewerRelease(release) == Runs(Active) /\ release \in Versions /\ release > Active

BeginInstall(release) ==
    /\ At("idle")
    /\ NewerRelease(release)
    /\ updater' = [step |-> "download", result |-> "", release |-> release,
                   active |-> Active, had |-> disk.current]

Downloaded == At("download") /\ GoTo("stage") /\ UNCHANGED disk

DownloadFails == At("download") /\ End("failed") /\ UNCHANGED disk

\* The archive is unpacked into a new directory and asked for its version there.
Staged == At("stage") /\ GoTo("dropBackup") /\ UNCHANGED disk

StageFails == At("stage") /\ GoTo("recover") /\ UNCHANGED disk

OldBackupDropped ==
    /\ At("dropBackup")
    /\ disk' = [disk EXCEPT !.backup = Absent]
    /\ GoTo("keepOld")

OldBackupStays ==
    /\ At("dropBackup")
    /\ \E left \in {disk.backup, Unusable} : disk' = [disk EXCEPT !.backup = left]
    /\ disk.backup # Absent
    /\ GoTo("recover")

\* The version in use becomes the backup: renamed, or copied when it is the bundled one.
KeepOld(locked) ==
    /\ At("keepOld")
    /\ IF Usable(disk.current)
       THEN ~locked /\ disk' = [disk EXCEPT !.current = Absent, !.backup = disk.current]
       ELSE disk' = [disk EXCEPT !.backup = updater.active]
    /\ GoTo("moveIn")

KeepOldFails(locked) ==
    /\ At("keepOld")
    /\ IF Usable(disk.current)
       THEN UNCHANGED disk
       ELSE \E copied \in {Unusable, Partial} : disk' = [disk EXCEPT !.backup = copied]
    /\ GoTo("recover")

\* os.replace of a directory onto one that exists and is not empty is an error.
MoveIn ==
    /\ At("moveIn")
    /\ disk.current = Absent
    /\ disk' = [disk EXCEPT !.current = updater.release]
    /\ GoTo("cleanUp")

MoveInFails == At("moveIn") /\ GoTo("recover") /\ UNCHANGED disk

\* The finally branch removes the directory the archive was unpacked into.  An error there
\* is the error of the whole call, although the new version is already in use; after a
\* failed installation it changes nothing, and Recover stands for both branches.
CleanedUp == At("cleanUp") /\ End("installed") /\ UNCHANGED disk

CleanUpFails == At("cleanUp") /\ End("failed") /\ UNCHANGED disk

\* The except branch: without a usable version in place the backup is copied back.
NeedsBackup == ~Usable(disk.current) /\ Usable(disk.backup)

RecoverNothing ==
    /\ At("recover")
    /\ UNCHANGED disk
    /\ End("failed")

Recover ==
    /\ At("recover")
    /\ disk' = IF NeedsBackup THEN [disk EXCEPT !.current = disk.backup] ELSE disk
    /\ End("failed")

RecoverFails ==
    /\ At("recover")
    /\ NeedsBackup
    /\ \E copied \in {Unusable, Partial} : disk' = [disk EXCEPT !.current = copied]
    /\ End("failed")

-----------------------------------------------------------------------------
(* restore_previous_windows_runtime *)

BeginRestore ==
    /\ At("idle")
    /\ updater' = [step |-> "dropSwap", result |-> "", release |-> disk.backup,
                   active |-> Active, had |-> disk.current]

NothingToRestore ==
    /\ At("dropSwap")
    /\ ~Usable(disk.backup)
    /\ End("failed")
    /\ UNCHANGED disk

SwapDropped ==
    /\ At("dropSwap")
    /\ Usable(disk.backup)
    /\ disk' = [disk EXCEPT !.swap = Absent]
    /\ GoTo("swapOut")

SwapOut(locked) ==
    /\ At("swapOut")
    /\ disk.current # Absent => ~locked
    /\ disk' = [disk EXCEPT !.current = Absent, !.swap = disk.current]
    /\ GoTo("bringBack")

BringBack ==
    /\ At("bringBack")
    /\ disk.current = Absent
    /\ disk' = [disk EXCEPT !.current = disk.backup, !.backup = Absent]
    /\ GoTo("checkBack")

BroughtBackRuns ==
    /\ At("checkBack")
    /\ Runs(disk.current)
    /\ GoTo("keepSwapped")
    /\ UNCHANGED disk

KeepSwapped ==
    /\ At("keepSwapped")
    /\ disk' = IF disk.swap = Absent THEN disk
               ELSE [disk EXCEPT !.backup = disk.swap, !.swap = Absent]
    /\ End("restored")

RestoreStepFails ==
    /\ updater.step \in {"swapOut", "bringBack", "checkBack", "keepSwapped"}
    /\ GoTo("undo")
    /\ UNCHANGED disk

\* The except branch moves both directories back where they were.
BackupUndone(d) ==
    IF d.backup = Absent /\ d.current # Absent
    THEN [d EXCEPT !.backup = d.current, !.current = Absent]
    ELSE d

SwapUndone(d) ==
    IF d.swap # Absent /\ d.current = Absent
    THEN [d EXCEPT !.current = d.swap, !.swap = Absent]
    ELSE d

Undo(locked) ==
    /\ At("undo")
    /\ BackupUndone(disk) # disk => ~locked
    /\ disk' = SwapUndone(BackupUndone(disk))
    /\ End("failed")

UndoFails ==
    /\ At("undo")
    /\ disk' \in {disk, BackupUndone(disk)}
    /\ End("failed")

-----------------------------------------------------------------------------
\* The steps that fail only when something goes wrong with the disk or the network.
FaultyStep(locked) ==
    \/ DownloadFails
    \/ StageFails
    \/ OldBackupStays
    \/ KeepOldFails(locked)
    \/ MoveInFails
    \/ CleanUpFails
    \/ RecoverFails
    \/ RestoreStepFails
    \/ UndoFails

\* The steps of a worker that meets no error, and the errors that are certain.
RegularStep(locked) ==
    \/ Downloaded
    \/ Staged
    \/ OldBackupDropped
    \/ KeepOld(locked)
    \/ MoveIn
    \/ CleanedUp
    \/ Recover
    \/ NothingToRestore
    \/ SwapDropped
    \/ SwapOut(locked)
    \/ BringBack
    \/ BroughtBackRuns
    \/ KeepSwapped
    \/ Undo(locked)

CertainError(locked) ==
    \/ At("keepOld") /\ Usable(disk.current) /\ locked /\ KeepOldFails(locked)
    \/ At("moveIn") /\ disk.current # Absent /\ MoveInFails
    \/ At("swapOut") /\ disk.current # Absent /\ locked /\ RestoreStepFails
    \/ At("checkBack") /\ ~Runs(disk.current) /\ RestoreStepFails
    \/ At("undo") /\ BackupUndone(disk) # disk /\ locked /\ UndoFails
=============================================================================
