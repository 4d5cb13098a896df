------------------------ MODULE BackupRestore_proofs ------------------------
(***************************************************************************)
(* A restore leaves the old or the new profiles on the disk, a failed one  *)
(* the old ones, no profile without its database and no acknowledged QSO   *)
(* nowhere, for any profiles and archives and any number of operations and *)
(* failures.                                                               *)
(***************************************************************************)
EXTENDS BackupRestore, FiniteSetTheorems, SequenceTheorems, TLAPS

MaybeDir == [Profiles -> Origins \union {None}]
MaybeLogs == [Profiles -> Logs \union {None}]
Copies == [id : Profiles, db : Origins \union {None}, log : Logs \union {None}]

Disks == [registry : SUBSET Profiles, current : MaybeDir, prepared : MaybeDir \union {None},
          aside : MaybeDir \union {None}, logs : MaybeLogs, preparedLogs : MaybeLogs,
          asideLogs : MaybeLogs, zip : SUBSET Copies]

Restores == [archive : Archives \union {None}, staged : SUBSET Copies, todo : Seq(Profiles),
             swapped : Seq(Profiles),
             before : [registry : SUBSET Profiles, current : MaybeDir, logs : MaybeLogs]
                      \union {None},
             committed : BOOLEAN, rollbackFailed : BOOLEAN]

TypeInv == disk \in Disks /\ restore \in Restores /\ cut \in BOOLEAN /\ written \in Nat

Elems(s) == {s[i] : i \in 1 .. Len(s)}
Distinct(s) == \A i, j \in 1 .. Len(s) : i # j => s[i] # s[j]

(* The steps of a restore between the backup and the end of the swap.      *)
SwapSteps == {"moveOldProfiles", "moveNewProfiles", "moveOldLog", "moveNewLog", "rollback"}

Ordinary == {"running", "backup", "refused", "creating", "saving", "deleting", "removing", "prepare"}

Steps == SwapSteps \union Ordinary \union {"registry", "preferences", "done", "failed", "closed"}

(* Outside a restore there is nothing to go back to, and nothing aside; a  *)
(* restore that has not begun its swap has swapped nothing.                *)
NothingSwapped ==
    restore.swapped = <<>> /\ ~restore.committed /\ ~restore.rollbackFailed

OrdinaryInv ==
    /\ app \in Ordinary => Before = None /\ disk.aside = None
    /\ app \in {"backup", "prepare"} => NothingSwapped

(* From the inspection on the archive is one that fits together.           *)
ArchiveInv ==
    \/ app \in SwapSteps \union {"backup", "prepare", "registry", "preferences", "done"}
    \/ Before # None
    => Chosen \in Archives /\ InspectBackup(Chosen)

(* The log that is being moved.                                            *)
UnderWay == IF app = "moveNewLog" THEN {ToSwap} ELSE {}

(* Each log of before is in its place, or aside once it was swapped.       *)
LogsKept ==
    \A id \in Profiles :
        IF id \in Elems(restore.swapped) \union UnderWay
        THEN SameOrigin(disk.asideLogs[id], Before.logs[id])
        ELSE \/ SameOrigin(disk.logs[id], Before.logs[id])
             \/ restore.rollbackFailed /\ SameOrigin(disk.asideLogs[id], Before.logs[id])

(* So are the databases.                                                   *)
ProfilesKept ==
    CASE app = "moveOldProfiles" -> disk.current = Before.current /\ disk.aside = None
      [] app = "rollback" -> \/ disk.current = Before.current /\ disk.aside = None
                             \/ disk.aside = Before.current
      [] OTHER -> disk.aside = Before.current

(* What was swapped is of the archive, and what is to be swapped is ready. *)
SwapInv ==
    app \in SwapSteps =>
        /\ Before.current \in MaybeDir /\ disk.registry = Before.registry
        /\ ~restore.committed /\ (app # "rollback" => ~restore.rollbackFailed)
        /\ LogsKept /\ ProfilesKept
        /\ Distinct(restore.swapped)
        /\ app # "rollback" =>
             /\ Distinct(restore.todo)
             /\ Elems(restore.todo) \intersect Elems(restore.swapped) = {}
             /\ Elems(restore.todo) \union Elems(restore.swapped) = Chosen.listed
             /\ \A id \in Elems(restore.todo) : disk.preparedLogs[id] = Log("backup")
             /\ \A id \in Elems(restore.swapped) : SameOrigin(disk.logs[id], Log("backup"))
        /\ app \in {"moveOldProfiles", "moveNewProfiles"} =>
             disk.prepared = All(Chosen.databases, "backup")
        /\ app \in {"moveOldLog", "moveNewLog"} =>
             disk.current = All(Chosen.databases, "backup")
        /\ app = "moveNewLog" => restore.todo # <<>>

(* After the swap everything of the archive is in its place.               *)
CommittedInv ==
    app \in {"registry", "preferences", "done"} => restore.committed /\ NewOnDisk

EndInv ==
    /\ FailedRestoreRollsBack
    /\ app \in {"failed", "closed"} => OldOrNewOnDisk

(* The databases the profiles of the registry will have when the step ends *)
(* well or is undone.                                                      *)
Databases ==
    IF app \in SwapSteps THEN Before.current ELSE disk.current

RegistryInv ==
    ~cut /\ app # "registry" => disk.registry \ ghosts \subseteq Has(Databases)

(* What is listed in memory has its database too, before it is saved.      *)
AtWork == {"creating", "saving", "deleting", "removing"}
Making == IF app = "creating" THEN {profile} ELSE {}

MemoryInv ==
    /\ memory \in SUBSET Profiles
    /\ app \in AtWork => profile \in Profiles
    /\ ~cut /\ app \in Ordinary => (memory \ Making) \ ghosts \subseteq Has(disk.current)
    /\ app = "removing" => profile \notin memory \union disk.registry

(* The acknowledged QSOs that are due, those that no restore touches any   *)
(* more, and those in the logs of the profiles listed in both registries.  *)
Due == acked \ orphaned
Saved == leftover \union ZipQsos
Listed == disk.registry \intersect memory
RegisteredQsos == UNION {QsosOf(id) : id \in Listed}

CopyQsos(copy) == IF copy.log = None THEN {} ELSE copy.log.qsos

(* While the safety backup is made each due QSO is in what earlier         *)
(* restores left, or in the log of a profile that is yet to be copied or   *)
(* was copied with it.                                                     *)
BackingUp ==
    /\ ZipQsos \subseteq leftover
    /\ \A qso \in Due :
          \/ qso \in leftover
          \/ \E id \in Listed :
                /\ qso \in QsosOf(id)
                /\ \A copy \in restore.staged : copy.id = id => qso \in CopyQsos(copy)

(* The swap may take any log away: each due QSO is saved before it begins, *)
(* and only at work or in between may the logs be the only place.          *)
Between == AtWork \union {"running", "refused", "closed"}

SavedInv ==
    CASE app = "backup" -> BackingUp
      [] app \in Between ->
           Due \subseteq Saved \union RegisteredQsos
      [] OTHER -> Due \subseteq Saved

IInv == /\ TypeInv /\ OrdinaryInv /\ ArchiveInv /\ SwapInv /\ CommittedInv /\ EndInv
        /\ RegistryInv /\ app \in Steps

-----------------------------------------------------------------------------
(* The log directories to swap, and those that were swapped.               *)

(* The first one is taken off. *)
LEMMA TailElems ==
    ASSUME NEW S, NEW s \in Seq(S), s # <<>>, Distinct(s)
    PROVE  /\ Head(s) \in S /\ Head(s) \in Elems(s) /\ Tail(s) \in Seq(S)
           /\ Distinct(Tail(s)) /\ Elems(Tail(s)) = Elems(s) \ {Head(s)}
<1>1. Len(s) \in Nat \ {0} /\ Head(s) = s[1] /\ s[1] \in S
  BY HeadTailProperties
<1>2. /\ Tail(s) \in Seq(S) /\ Len(Tail(s)) = Len(s) - 1
      /\ \A i \in 1 .. Len(s) - 1 : Tail(s)[i] = s[i + 1]
  BY <1>1, HeadTailProperties
<1>3. Distinct(Tail(s))
  BY <1>1, <1>2 DEF Distinct
<1>4. Elems(Tail(s)) \subseteq Elems(s) \ {Head(s)}
  BY <1>1, <1>2 DEF Elems, Distinct
<1>5. ASSUME NEW x \in Elems(s), x # Head(s)
      PROVE  x \in Elems(Tail(s))
  <2>1. PICK i \in 1 .. Len(s) : x = s[i]
    BY DEF Elems
  <2>2. i - 1 \in 1 .. Len(s) - 1 /\ Tail(s)[i - 1] = x
    BY <1>1, <1>2, <1>5, <2>1
  <2>3. QED BY <1>2, <2>2 DEF Elems
<1>6. QED BY <1>1, <1>2, <1>3, <1>4, <1>5 DEF Elems

(* One is added at the end. *)
LEMMA AppendElems ==
    ASSUME NEW S, NEW s \in Seq(S), NEW x \in S, Distinct(s), x \notin Elems(s)
    PROVE  /\ Append(s, x) \in Seq(S) /\ Distinct(Append(s, x))
           /\ Elems(Append(s, x)) = Elems(s) \union {x}
<1>1. /\ Append(s, x) \in Seq(S) /\ Len(Append(s, x)) = Len(s) + 1 /\ Len(s) \in Nat
      /\ \A i \in 1 .. Len(s) : Append(s, x)[i] = s[i]
      /\ Append(s, x)[Len(s) + 1] = x
  BY AppendProperties
<1>2. Distinct(Append(s, x))
  BY <1>1 DEF Distinct, Elems
<1>3. Elems(Append(s, x)) = Elems(s) \union {x}
  BY <1>1 DEF Elems
<1>4. QED BY <1>1, <1>2, <1>3

(* The last one is taken off. *)
LEMMA FrontElems ==
    ASSUME NEW S, NEW s \in Seq(S), s # <<>>, Distinct(s)
    PROVE  /\ Last(s) \in S /\ Last(s) \in Elems(s) /\ Front(s) \in Seq(S)
           /\ Distinct(Front(s)) /\ Elems(Front(s)) = Elems(s) \ {Last(s)}
<1>1. Len(s) \in Nat \ {0} /\ Last(s) = s[Len(s)] /\ s[Len(s)] \in S
  BY EmptySeq, LenProperties, ElementOfSeq DEF Last
<1>2. /\ Front(s) \in Seq(S) /\ Len(Front(s)) = Len(s) - 1
      /\ \A i \in 1 .. Len(s) - 1 : Front(s)[i] = s[i]
  <2>1. \A i \in 1 .. Len(s) - 1 : s[i] \in S
    BY <1>1, ElementOfSeq
  <2>2. 1 \in Int /\ Len(s) - 1 \in Int /\ (Len(s) - 1) - 1 + 1 = Len(s) - 1
        /\ \A i \in 1 .. Len(s) - 1 : 1 + i - 1 = i
    BY <1>1
  <2>3. /\ SubSeq(s, 1, Len(s) - 1) \in Seq(S)
        /\ Len(SubSeq(s, 1, Len(s) - 1)) = IF 1 <= Len(s) - 1 THEN (Len(s) - 1) - 1 + 1 ELSE 0
        /\ \A i \in 1 .. (Len(s) - 1) - 1 + 1 :
              SubSeq(s, 1, Len(s) - 1)[i] = s[1 + i - 1]
    BY <2>1, <2>2, SubSeqProperties
  <2>4. QED BY <1>1, <2>2, <2>3 DEF Front
<1>3. Distinct(Front(s))
  BY <1>1, <1>2 DEF Distinct
<1>4. Elems(Front(s)) \subseteq Elems(s) \ {Last(s)}
  BY <1>1, <1>2 DEF Elems, Distinct
<1>5. ASSUME NEW x \in Elems(s), x # Last(s)
      PROVE  x \in Elems(Front(s))
  <2>1. PICK i \in 1 .. Len(s) : x = s[i]
    BY DEF Elems
  <2>2. i \in 1 .. Len(s) - 1 /\ Front(s)[i] = x
    BY <1>1, <1>2, <1>5, <2>1
  <2>3. QED BY <1>2, <2>2 DEF Elems
<1>6. Last(s) \in Elems(s)
  BY <1>1 DEF Elems
<1>7. QED BY <1>1, <1>2, <1>3, <1>4, <1>5, <1>6

(* An order of a set has each of its elements once. *)
LEMMA OrderElems ==
    ASSUME NEW S, IsFiniteSet(S), NEW order \in SetToSeqs(S)
    PROVE  order \in Seq(S) /\ Distinct(order) /\ Elems(order) = S
<1> DEFINE D == 1 .. Cardinality(S)
<1>1. Cardinality(S) \in Nat /\ IsFiniteSet(D) /\ Cardinality(D) = Cardinality(S)
  BY FS_CardinalityType, FS_Interval
<1>2. order \in [D -> S] /\ \A i, j \in D : i # j => order[i] # order[j]
  BY DEF SetToSeqs
<1>3. order \in Seq(S) /\ Len(order) = Cardinality(S)
  BY <1>1, <1>2, LenProperties
<1>4. order \in Injection(D, S)
  BY <1>2 DEF Injection, IsInjective
<1>5. order \in Surjection(D, S)
  BY <1>1, <1>4, FS_Injection
<1>6. Elems(order) = S
  BY <1>2, <1>3, <1>5 DEF Elems, Surjection
<1>7. QED BY <1>2, <1>3, <1>6 DEF Distinct

-----------------------------------------------------------------------------
(* Types.                                                                  *)

(* A directory with the databases, or the logs, of some profiles. *)
LEMMA DirTypes ==
    /\ Nothing \in MaybeDir /\ Nothing \in MaybeLogs
    /\ \A ids : All(ids, "backup") \in MaybeDir /\ All(ids, "old") \in MaybeDir
    /\ \A from \in Origins : Log(from) \in Logs
    /\ \A ids, log : log \in Logs => All(ids, log) \in MaybeLogs
<1>1. {"old", "backup", "empty"} \subseteq Origins
  BY DEF Origins
<1>2. Nothing \in MaybeDir /\ Nothing \in MaybeLogs
  BY DEF Nothing, MaybeDir, MaybeLogs
<1>3. \A ids : All(ids, "backup") \in MaybeDir /\ All(ids, "old") \in MaybeDir
  BY <1>1 DEF All, MaybeDir
<1>4. \A from \in Origins : Log(from) \in Logs
  BY DEF Log, Logs
<1>5. \A ids, log : log \in Logs => All(ids, log) \in MaybeLogs
  BY DEF All, MaybeLogs
<1>6. QED BY <1>2, <1>3, <1>4, <1>5

(* Every part of the disk may be replaced. *)
LEMMA DiskTypes ==
    ASSUME NEW d \in Disks
    PROVE  /\ \A v \in SUBSET Profiles : [d EXCEPT !.registry = v] \in Disks
           /\ \A v \in MaybeDir : [d EXCEPT !.current = v] \in Disks
           /\ \A v \in MaybeDir \union {None} : [d EXCEPT !.prepared = v] \in Disks
           /\ \A v \in MaybeDir \union {None} : [d EXCEPT !.aside = v] \in Disks
           /\ \A v \in MaybeLogs : [d EXCEPT !.logs = v] \in Disks
           /\ \A v \in MaybeLogs : [d EXCEPT !.preparedLogs = v] \in Disks
           /\ \A v \in MaybeLogs : [d EXCEPT !.asideLogs = v] \in Disks
           /\ \A v \in SUBSET Copies : [d EXCEPT !.zip = v] \in Disks
BY DEF Disks

(* The log of one profile may be replaced. *)
LEMMA OneLog ==
    ASSUME NEW f \in MaybeLogs, NEW id \in Profiles, NEW log \in Logs \union {None}
    PROVE  /\ [f EXCEPT ![id] = log] \in MaybeLogs
           /\ [f EXCEPT ![id] = log][id] = log
           /\ \A x \in Profiles \ {id} : [f EXCEPT ![id] = log][x] = f[x]
           /\ \A x \in Profiles : f[x] \in Logs \union {None}
BY DEF MaybeLogs

(* So may every part of what a restore remembers. *)
LEMMA RestoreTypes ==
    ASSUME NEW r \in Restores
    PROVE  /\ \A v \in SUBSET Copies : [r EXCEPT !.staged = v] \in Restores
           /\ \A v \in Seq(Profiles) : [r EXCEPT !.todo = v] \in Restores
           /\ \A v \in Seq(Profiles) : [r EXCEPT !.swapped = v] \in Restores
           /\ \A b \in BOOLEAN : [r EXCEPT !.committed = b] \in Restores
           /\ \A b \in BOOLEAN : [r EXCEPT !.rollbackFailed = b] \in Restores
BY DEF Restores

LEMMA LiveType ==
    ASSUME disk \in Disks
    PROVE  Live \in [registry : SUBSET Profiles, current : MaybeDir, logs : MaybeLogs]
BY DEF Disks, Live

LEMMA LiveRemembered ==
    ASSUME disk \in Disks, NEW r \in Restores
    PROVE  [r EXCEPT !.before = Live] \in Restores
BY LiveType DEF Restores

LEMMA ChosenRemembered ==
    ASSUME NEW archive \in Archives \union {None}
    PROVE  NoRestore \in Restores /\ [NoRestore EXCEPT !.archive = archive] \in Restores
<1>1. <<>> \in Seq(Profiles)
  BY EmptySeq
<1>2. NoRestore \in Restores
  BY <1>1 DEF NoRestore, Restores
<1>3. \A r \in Restores : [r EXCEPT !.archive = archive] \in Restores
  BY DEF Restores
<1>4. QED BY <1>2, <1>3

(* The profiles of an archive are profiles, and there are finitely many. *)
LEMMA ArchiveTypes ==
    ASSUME NEW archive \in Archives, InspectBackup(archive)
    PROVE  /\ archive.databases \subseteq Profiles /\ archive.listed \subseteq Profiles
           /\ archive.registered \subseteq archive.databases
           /\ archive.registered \subseteq Profiles /\ IsFiniteSet(archive.listed)
BY ProfilesAssumption DEF InspectBackup, Complete, Consistent, Registered, Profiles

-----------------------------------------------------------------------------
(* At the start. *)
LEMMA InitInvariant == Init => IInv
<1> SUFFICES ASSUME Init PROVE IInv
  OBVIOUS
<1>1. OldProfiles \subseteq Profiles /\ "old" \in Origins
  BY DEF Profiles, Origins
<1>2. disk \in Disks
  <2>1. Log("old") \in Logs /\ All(OldProfiles, "old") \in MaybeDir
    BY <1>1, DirTypes
  <2>2. All(OldProfiles, Log("old")) \in MaybeLogs
    BY <2>1, DirTypes
  <2>3. disk = [registry |-> OldProfiles, current |-> All(OldProfiles, "old"),
                prepared |-> None, aside |-> None, logs |-> All(OldProfiles, Log("old")),
                preparedLogs |-> Nothing, asideLogs |-> Nothing, zip |-> {}]
    BY DEF Init
  <2>4. Nothing \in MaybeLogs
    BY DirTypes
  <2>5. \A registry \in SUBSET Profiles, current \in MaybeDir,
             dir \in MaybeDir \union {None}, logs \in MaybeLogs, others \in MaybeLogs,
             zip \in SUBSET Copies :
          [registry |-> registry, current |-> current, prepared |-> dir, aside |-> dir,
           logs |-> logs, preparedLogs |-> others, asideLogs |-> others, zip |-> zip] \in Disks
    BY DEF Disks
  <2>6. OldProfiles \in SUBSET Profiles
    BY <1>1
  <2>7. None \in MaybeDir \union {None} /\ {} \in SUBSET Copies
    OBVIOUS
  <2>8. QED BY <2>1, <2>2, <2>3, <2>4, <2>5, <2>6, <2>7, Zenon
<1>3. restore \in Restores
  BY ChosenRemembered DEF Init
<1>4. TypeInv
  BY <1>2, <1>3 DEF Init, TypeInv
<1>5. app = "running" /\ Before = None /\ disk.aside = None
  BY DEF Init, NoRestore, Before
<1>6. disk.registry \ ghosts \subseteq Has(disk.current)
  BY <1>1, NoneAssumption DEF Init, Has, All
<1>7. OrdinaryInv /\ ArchiveInv /\ SwapInv /\ CommittedInv /\ EndInv /\ app \in Steps
  BY <1>5 DEF OrdinaryInv, ArchiveInv, SwapInv, CommittedInv, EndInv, Steps, Ordinary,
              SwapSteps, FailedRestoreRollsBack
<1>8. RegistryInv
  BY <1>5, <1>6 DEF RegistryInv, Databases, SwapSteps
<1>9. QED BY <1>4, <1>7, <1>8 DEF IInv

-----------------------------------------------------------------------------
(* What holds at each kind of step.                                        *)

(* Outside the swap only the databases of the registry matter. *)
LEMMA OrdinaryEnd ==
    ASSUME TypeInv', app' \in Ordinary, Before' = None, disk'.aside = None,
           app' \in {"backup", "prepare"} =>
               Chosen' \in Archives /\ InspectBackup(Chosen)' /\ NothingSwapped',
           ~cut' => disk'.registry \ ghosts' \subseteq Has(disk.current)'
    PROVE  IInv'
<1>1. app' \notin SwapSteps /\ app' \in Steps
      /\ app' \notin {"registry", "preferences", "done", "failed", "closed"}
  BY DEF Ordinary, SwapSteps, Steps
<1>2. OrdinaryInv' /\ SwapInv' /\ CommittedInv' /\ EndInv'
  BY <1>1 DEF OrdinaryInv, SwapInv, CommittedInv, EndInv, FailedRestoreRollsBack
<1>3. ArchiveInv'
  BY <1>1 DEF ArchiveInv
<1>4. RegistryInv'
  BY <1>1 DEF RegistryInv, Databases
<1>5. QED BY <1>1, <1>2, <1>3, <1>4 DEF IInv

(* Neither do they for an application that is closed, but the disk counts. *)
LEMMA ClosedEnd ==
    ASSUME TypeInv', app' = "closed", OldOrNewOnDisk',
           Before' # None => Chosen' \in Archives /\ InspectBackup(Chosen)',
           ~cut' => disk'.registry \ ghosts' \subseteq Has(disk.current)'
    PROVE  IInv'
<1>1. app' \notin SwapSteps /\ app' \in Steps /\ app' \notin Ordinary
      /\ app' \notin {"backup", "prepare", "registry", "preferences", "done", "failed"}
  BY DEF Ordinary, SwapSteps, Steps
<1>2. OrdinaryInv' /\ ArchiveInv' /\ SwapInv' /\ CommittedInv' /\ EndInv'
  BY <1>1 DEF OrdinaryInv, ArchiveInv, SwapInv, CommittedInv, EndInv, FailedRestoreRollsBack
<1>3. RegistryInv'
  BY <1>1 DEF RegistryInv, Databases
<1>4. QED BY <1>1, <1>2, <1>3 DEF IInv

(* In the swap the databases of before count. *)
LEMMA SwapEnd ==
    ASSUME TypeInv', app' \in SwapSteps, Chosen' \in Archives, InspectBackup(Chosen)',
           SwapInv', ~cut' => disk'.registry \ ghosts' \subseteq Has(Before.current)'
    PROVE  IInv'
<1>1. app' \in Steps /\ app' \notin Ordinary
      /\ app' \notin {"backup", "prepare", "registry", "preferences", "done", "failed", "closed"}
  BY DEF Ordinary, SwapSteps, Steps
<1>2. OrdinaryInv' /\ ArchiveInv' /\ CommittedInv' /\ EndInv'
  BY <1>1 DEF OrdinaryInv, ArchiveInv, CommittedInv, EndInv, FailedRestoreRollsBack
<1>3. RegistryInv'
  BY <1>1 DEF RegistryInv, Databases
<1>4. QED BY <1>1, <1>2, <1>3 DEF IInv

(* After the swap the archive is there. *)
LEMMA CommittedEnd ==
    ASSUME TypeInv', app' \in {"registry", "preferences", "done"},
           Chosen' \in Archives, InspectBackup(Chosen)', restore'.committed, NewOnDisk',
           ~cut' /\ app' # "registry" => disk'.registry \ ghosts' \subseteq Has(disk.current)'
    PROVE  IInv'
<1>1. app' \notin SwapSteps /\ app' \in Steps /\ app' \notin Ordinary
      /\ app' \notin {"backup", "prepare", "failed", "closed"}
  BY DEF Ordinary, SwapSteps, Steps
<1>2. OrdinaryInv' /\ ArchiveInv' /\ SwapInv' /\ CommittedInv' /\ EndInv'
  BY <1>1 DEF OrdinaryInv, ArchiveInv, SwapInv, CommittedInv, EndInv, FailedRestoreRollsBack
<1>3. RegistryInv'
  BY <1>1 DEF RegistryInv, Databases
<1>4. QED BY <1>1, <1>2, <1>3 DEF IInv

(* A restore that has failed must have left the old profiles. *)
LEMMA FailedEnd ==
    ASSUME TypeInv', app' = "failed", OldOrNewOnDisk', FailedRestoreRollsBack',
           Before' # None => Chosen' \in Archives /\ InspectBackup(Chosen)',
           ~cut' => disk'.registry \ ghosts' \subseteq Has(disk.current)'
    PROVE  IInv'
<1>1. app' \notin SwapSteps /\ app' \in Steps /\ app' \notin Ordinary
      /\ app' \notin {"backup", "prepare", "registry", "preferences", "done"}
  BY DEF Ordinary, SwapSteps, Steps
<1>2. OrdinaryInv' /\ ArchiveInv' /\ SwapInv' /\ CommittedInv' /\ EndInv'
  BY <1>1 DEF OrdinaryInv, ArchiveInv, SwapInv, CommittedInv, EndInv
<1>3. RegistryInv'
  BY <1>1 DEF RegistryInv, Databases
<1>4. QED BY <1>1, <1>2, <1>3 DEF IInv

(* While logs and profiles are swapped, the old ones are on the disk. *)
LEMMA KeptIsOnDisk ==
    ASSUME IInv, app \in SwapSteps
    PROVE  OldStillOnDisk
<1>1. LogsKept /\ ProfilesKept /\ Before.current \in MaybeDir
  BY DEF IInv, SwapInv
<1>2. Before.current # None
  BY <1>1, NoneAssumption DEF MaybeDir
<1>3. disk.current = Before.current \/ disk.aside = Before.current
  BY <1>1 DEF ProfilesKept
<1>4. \A id \in Profiles :
         \E log \in {disk.logs[id], disk.asideLogs[id]} : SameOrigin(log, Before.logs[id])
  BY <1>1 DEF LogsKept
<1>5. QED BY <1>2, <1>3, <1>4 DEF OldStillOnDisk

(* Wherever the application is, the disk has all of the old or all of the  *)
(* new.                                                                    *)
LEMMA OldOrNew ==
    ASSUME IInv
    PROVE  OldOrNewOnDisk
<1>1. CASE app \in SwapSteps
  BY <1>1, KeptIsOnDisk DEF OldOrNewOnDisk
<1>2. CASE app \in Ordinary
  BY <1>2 DEF IInv, OrdinaryInv, OldOrNewOnDisk
<1>3. CASE app \in {"registry", "preferences", "done"}
  BY <1>3 DEF IInv, CommittedInv, OldOrNewOnDisk
<1>4. CASE app \in {"failed", "closed"}
  BY <1>4 DEF IInv, EndInv
<1>5. QED BY <1>1, <1>2, <1>3, <1>4 DEF IInv, Steps

(* Nor does it matter for them where the application is. *)
LEMMA OldOrNewFrame ==
    ASSUME UNCHANGED <<disk, restore>>
    PROVE  OldOrNewOnDisk' <=> OldOrNewOnDisk
BY DEF OldOrNewOnDisk, OldStillOnDisk, NewOnDisk, Before, Chosen

-----------------------------------------------------------------------------
(* Before the swap.                                                        *)

LEMMA RestoreDataBackupStep ==
    ASSUME IInv, RestoreDataBackup, UNCHANGED ghosts
    PROVE  IInv'
<1>1. PICK archive \in Archives :
         InspectBackup(archive) /\ restore' = [NoRestore EXCEPT !.archive = archive]
  BY DEF RestoreDataBackup
<1>2. app = "running" /\ app' = "backup" /\ UNCHANGED <<disk, cut, written>>
  BY DEF RestoreDataBackup, UserOp
<1>3. restore' \in Restores /\ restore'.archive = archive /\ restore'.before = None
      /\ NothingSwapped'
  BY <1>1, ChosenRemembered DEF NoRestore, NothingSwapped
<1>4. disk.aside = None /\ (~cut => disk.registry \ ghosts \subseteq Has(disk.current))
  BY <1>2 DEF IInv, OrdinaryInv, Ordinary, RegistryInv, Databases, SwapSteps
<1>5. TypeInv'
  BY <1>2, <1>3 DEF IInv, TypeInv
<1>6. QED BY <1>1, <1>2, <1>3, <1>4, <1>5, OrdinaryEnd
         DEF Ordinary, Chosen, Before, NothingSwapped

(* What the safety backup copies is part of no step of the restore. *)
LEMMA BackUpProfileStep ==
    ASSUME IInv, BackUpProfile, UNCHANGED ghosts
    PROVE  IInv'
<1>1. app = "backup" /\ app' \in {"backup", "refused"} /\ UNCHANGED <<disk, cut, written>>
  BY DEF BackUpProfile, Step
<1>2. PICK id \in disk.registry :
         restore' = restore \/
         restore' = [restore EXCEPT !.staged =
                       @ \union {[id |-> id, db |-> disk.current[id], log |-> disk.logs[id]]}]
  BY DEF BackUpProfile, ToBackUp
<1>3. [id |-> id, db |-> disk.current[id], log |-> disk.logs[id]] \in Copies
  BY DEF IInv, TypeInv, Disks, MaybeDir, MaybeLogs, Copies
<1>4. /\ restore' \in Restores /\ restore'.archive = restore.archive
      /\ restore'.before = restore.before /\ (NothingSwapped => NothingSwapped')
  <2>1. restore \in Restores
    BY DEF IInv, TypeInv
  <2>2. CASE restore' = restore
    BY <2>1, <2>2 DEF NothingSwapped
  <2>3. CASE restore' # restore
    <3> DEFINE new == [id |-> id, db |-> disk.current[id], log |-> disk.logs[id]]
    <3>1. restore.staged \union {new} \in SUBSET Copies
      BY <1>3, <2>1 DEF Restores
    <3>2. restore' = [restore EXCEPT !.staged = restore.staged \union {new}]
      BY <1>2, <2>3
    <3> HIDE DEF new
    <3>3. QED BY <2>1, <3>1, <3>2, RestoreTypes DEF Restores, NothingSwapped
  <2>4. QED BY <2>2, <2>3
<1>5. /\ Before = None /\ disk.aside = None /\ Chosen \in Archives /\ InspectBackup(Chosen)
      /\ NothingSwapped
      /\ ~cut => disk.registry \ ghosts \subseteq Has(disk.current)
  BY <1>1 DEF IInv, OrdinaryInv, Ordinary, ArchiveInv, RegistryInv, Databases, SwapSteps
<1>6. TypeInv'
  BY <1>1, <1>4 DEF IInv, TypeInv
<1>7. QED BY <1>1, <1>4, <1>5, <1>6, OrdinaryEnd
         DEF Ordinary, Chosen, Before, NothingSwapped

LEMMA WriteZipStep ==
    ASSUME IInv, WriteZip \/ WriteZipFails, UNCHANGED ghosts
    PROVE  IInv'
<1>1. /\ app = "backup" /\ app' \in {"prepare", "refused"} /\ UNCHANGED <<restore, cut, written>>
      /\ disk' = disk \/ disk' = [disk EXCEPT !.zip = restore.staged]
  BY DEF WriteZip, WriteZipFails, Step, Fails
<1>2. /\ disk' \in Disks /\ disk'.aside = disk.aside /\ disk'.registry = disk.registry
      /\ disk'.current = disk.current
  <2>1. disk \in Disks /\ restore.staged \in SUBSET Copies
    BY DEF IInv, TypeInv, Restores
  <2>2. QED BY <1>1, <2>1, DiskTypes DEF Disks
<1>3. /\ Before = None /\ disk.aside = None /\ Chosen \in Archives /\ InspectBackup(Chosen)
      /\ NothingSwapped
      /\ ~cut => disk.registry \ ghosts \subseteq Has(disk.current)
  BY <1>1 DEF IInv, OrdinaryInv, Ordinary, ArchiveInv, RegistryInv, Databases, SwapSteps
<1>4. TypeInv'
  BY <1>1, <1>2 DEF IInv, TypeInv
<1>5. QED BY <1>1, <1>2, <1>3, <1>4, OrdinaryEnd
         DEF Ordinary, Chosen, Before, NothingSwapped

(* The archive is copied beside the live files, and what is there is       *)
(* remembered.                                                             *)
LEMMA PrepareRestoreStep ==
    ASSUME IInv, PrepareRestore, UNCHANGED ghosts
    PROVE  IInv'
<1>1. /\ app = "prepare" /\ app' = "moveOldProfiles" /\ UNCHANGED <<cut, written>>
      /\ disk' = [disk EXCEPT !.preparedLogs = All(Chosen.listed, Log("backup")),
                              !.prepared = All(Chosen.databases, "backup")]
  BY DEF PrepareRestore, Step
<1>2. PICK order \in SetToSeqs(Chosen.listed) :
         restore' = [restore EXCEPT !.todo = order, !.before = Live]
  BY DEF PrepareRestore
<1>3. /\ disk.aside = None /\ Chosen \in Archives /\ InspectBackup(Chosen) /\ NothingSwapped
      /\ ~cut => disk.registry \ ghosts \subseteq Has(disk.current)
  BY <1>1 DEF IInv, OrdinaryInv, Ordinary, ArchiveInv, RegistryInv, Databases, SwapSteps
<1>4. disk \in Disks /\ restore \in Restores
  BY DEF IInv, TypeInv
<1>5. Log("backup") \in Logs /\ All(Chosen.listed, Log("backup")) \in MaybeLogs
      /\ All(Chosen.databases, "backup") \in MaybeDir
  <2>1. "backup" \in Origins
    BY DEF Origins
  <2>2. QED BY <2>1, DirTypes
<1>6. /\ disk' \in Disks /\ disk'.registry = disk.registry /\ disk'.current = disk.current
      /\ disk'.logs = disk.logs /\ disk'.aside = disk.aside
      /\ disk'.prepared = All(Chosen.databases, "backup")
      /\ disk'.preparedLogs = All(Chosen.listed, Log("backup"))
  BY <1>1, <1>4, <1>5, DiskTypes DEF Disks
<1>7. Chosen.listed \subseteq Profiles /\ IsFiniteSet(Chosen.listed)
  BY <1>3, ArchiveTypes
<1>8. order \in Seq(Chosen.listed) /\ Distinct(order) /\ Elems(order) = Chosen.listed
  BY <1>7, OrderElems
<1>9. order \in Seq(Profiles)
  BY <1>7, <1>8, SeqMonotonic
<1>10. /\ restore' \in Restores /\ restore'.archive = restore.archive
       /\ restore'.todo = order /\ restore'.before = Live /\ NothingSwapped'
  <2>1. [restore EXCEPT !.todo = order] \in Restores
    BY <1>4, <1>9, RestoreTypes
  <2>2. restore' = [[restore EXCEPT !.todo = order] EXCEPT !.before = Live]
    BY <1>2
  <2>3. restore' \in Restores
    BY <1>4, <2>1, <2>2, LiveRemembered
  <2>4. QED BY <1>2, <1>3, <1>4, <2>3 DEF Restores, NothingSwapped
<1>11. TypeInv'
  BY <1>1, <1>6, <1>10 DEF IInv, TypeInv
<1>12. Elems(<<>>) = {} /\ Distinct(<<>>)
  BY DEF Elems, Distinct
<1>13. Live.registry = disk.registry /\ Live.current = disk.current /\ Live.logs = disk.logs
  BY DEF Live
<1>14. LogsKept' /\ ProfilesKept'
  BY <1>1, <1>3, <1>6, <1>10, <1>12, <1>13
     DEF LogsKept, ProfilesKept, SameOrigin, UnderWay, Before, NothingSwapped
<1>15. \A id \in Chosen.listed : disk'.preparedLogs[id] = Log("backup")
  BY <1>6, <1>7 DEF All
<1>16. SwapInv'
  BY <1>1, <1>4, <1>6, <1>8, <1>10, <1>12, <1>13, <1>14, <1>15
     DEF SwapInv, NothingSwapped, Before, Chosen, Disks
<1>17. QED BY <1>1, <1>3, <1>6, <1>10, <1>11, <1>13, <1>16, SwapEnd
          DEF Chosen, Before, SwapSteps

(* What a restore was to go back to stays with its archive. *)
LEMMA ChosenKept ==
    ASSUME IInv, restore' = restore
    PROVE  Before' # None => Chosen' \in Archives /\ InspectBackup(Chosen)'
BY DEF IInv, ArchiveInv, Before, Chosen

(* If that fails, nothing was moved. *)
LEMMA PrepareRestoreFailsStep ==
    ASSUME IInv, PrepareRestoreFails, UNCHANGED ghosts
    PROVE  IInv'
<1>1. /\ app = "prepare" /\ app' = "failed" /\ UNCHANGED <<cut, written>>
      /\ restore' = [restore EXCEPT !.before = Live]
  BY DEF PrepareRestoreFails, Fails
<1>2. PICK ids \in SUBSET Chosen.listed :
         disk' = [disk EXCEPT !.preparedLogs = All(ids, Log("backup"))]
  BY DEF PrepareRestoreFails
<1>3. /\ disk.aside = None /\ NothingSwapped
      /\ ~cut => disk.registry \ ghosts \subseteq Has(disk.current)
  BY <1>1 DEF IInv, OrdinaryInv, Ordinary, RegistryInv, Databases, SwapSteps
<1>4. disk \in Disks /\ restore \in Restores
  BY DEF IInv, TypeInv
<1>5. Log("backup") \in Logs /\ All(ids, Log("backup")) \in MaybeLogs
  <2>1. "backup" \in Origins
    BY DEF Origins
  <2>2. QED BY <2>1, DirTypes
<1>6. /\ disk' \in Disks /\ disk'.registry = disk.registry /\ disk'.current = disk.current
      /\ disk'.logs = disk.logs /\ disk'.aside = disk.aside
  BY <1>2, <1>4, <1>5, DiskTypes DEF Disks
<1>7. restore' \in Restores /\ restore'.before = Live /\ restore'.archive = restore.archive
  BY <1>1, <1>4, LiveRemembered DEF Restores
<1>8. TypeInv'
  BY <1>1, <1>6, <1>7 DEF IInv, TypeInv
<1>9. Live.registry = disk.registry /\ Live.current = disk.current /\ Live.logs = disk.logs
  BY DEF Live
<1>10. FailedRestoreRollsBack'
  BY <1>6, <1>7, <1>9 DEF FailedRestoreRollsBack, Before, SameOrigin
<1>11. OldStillOnDisk'
  BY <1>6, <1>7, <1>9 DEF OldStillOnDisk, Before, SameOrigin
<1>12. Chosen' \in Archives /\ InspectBackup(Chosen)'
  BY <1>1, <1>7 DEF IInv, ArchiveInv, Chosen
<1>13. QED BY <1>1, <1>3, <1>6, <1>8, <1>10, <1>11, <1>12, FailedEnd DEF OldOrNewOnDisk

-----------------------------------------------------------------------------
(* The swap.                                                               *)

(* What holds in the swap. *)
LEMMA Swapping ==
    ASSUME IInv, app \in SwapSteps
    PROVE  /\ disk \in Disks /\ restore \in Restores
           /\ Chosen \in Archives /\ InspectBackup(Chosen)
           /\ ~cut => disk.registry \ ghosts \subseteq Has(Before.current)
           /\ SwapInv
BY DEF IInv, TypeInv, ArchiveInv, RegistryInv, Databases, SwapSteps

LEMMA MoveOldProfilesStep ==
    ASSUME IInv, MoveOldProfiles, UNCHANGED ghosts
    PROVE  IInv'
<1>1. /\ app = "moveOldProfiles" /\ app' = "moveNewProfiles"
      /\ UNCHANGED <<restore, cut, written>>
      /\ disk' = [disk EXCEPT !.aside = disk.current, !.current = Nothing]
  BY DEF MoveOldProfiles, Step
<1>2. /\ disk \in Disks /\ Chosen \in Archives /\ InspectBackup(Chosen) /\ SwapInv
      /\ ~cut => disk.registry \ ghosts \subseteq Has(Before.current)
  BY <1>1, Swapping DEF SwapSteps
<1>3. disk.current \in MaybeDir /\ Nothing \in MaybeDir
  BY <1>2, DirTypes DEF Disks
<1>4. /\ disk' \in Disks /\ disk'.registry = disk.registry /\ disk'.aside = disk.current
      /\ disk'.logs = disk.logs /\ disk'.asideLogs = disk.asideLogs
      /\ disk'.prepared = disk.prepared /\ disk'.preparedLogs = disk.preparedLogs
  BY <1>1, <1>2, <1>3, DiskTypes DEF Disks
<1>5. TypeInv'
  BY <1>1, <1>4 DEF IInv, TypeInv
<1>6. LogsKept' /\ ProfilesKept'
  BY <1>1, <1>2, <1>4
     DEF SwapInv, SwapSteps, LogsKept, ProfilesKept, SameOrigin, UnderWay, Before
<1>7. SwapInv'
  BY <1>1, <1>2, <1>4, <1>6 DEF SwapInv, SwapSteps, Before, Chosen, SameOrigin
<1>8. QED BY <1>1, <1>2, <1>4, <1>5, <1>7, SwapEnd DEF Chosen, Before, SwapSteps

LEMMA MoveNewProfilesStep ==
    ASSUME IInv, MoveNewProfiles, UNCHANGED ghosts
    PROVE  IInv'
<1>1. /\ app = "moveNewProfiles" /\ app' = "moveOldLog"
      /\ UNCHANGED <<restore, cut, written>>
      /\ disk' = [disk EXCEPT !.current = disk.prepared, !.prepared = None]
  BY DEF MoveNewProfiles, Step
<1>2. /\ disk \in Disks /\ Chosen \in Archives /\ InspectBackup(Chosen) /\ SwapInv
      /\ ~cut => disk.registry \ ghosts \subseteq Has(Before.current)
  BY <1>1, Swapping DEF SwapSteps
<1>3. disk.prepared = All(Chosen.databases, "backup") /\ disk.prepared \in MaybeDir
  BY <1>1, <1>2, DirTypes DEF SwapInv, SwapSteps
<1>4. /\ disk' \in Disks /\ disk'.registry = disk.registry /\ disk'.aside = disk.aside
      /\ disk'.logs = disk.logs /\ disk'.asideLogs = disk.asideLogs
      /\ disk'.current = disk.prepared /\ disk'.preparedLogs = disk.preparedLogs
  BY <1>1, <1>2, <1>3, DiskTypes DEF Disks
<1>5. TypeInv'
  BY <1>1, <1>4 DEF IInv, TypeInv
<1>6. LogsKept' /\ ProfilesKept'
  BY <1>1, <1>2, <1>4
     DEF SwapInv, SwapSteps, LogsKept, ProfilesKept, SameOrigin, UnderWay, Before
<1>7. SwapInv'
  BY <1>1, <1>2, <1>3, <1>4, <1>6 DEF SwapInv, SwapSteps, Before, Chosen, SameOrigin
<1>8. QED BY <1>1, <1>2, <1>4, <1>5, <1>7, SwapEnd DEF Chosen, Before, SwapSteps

(* An error before a move begins the rollback. *)
LEMMA SwapFailsStep ==
    ASSUME IInv, SwapFails, UNCHANGED ghosts
    PROVE  IInv'
<1>1. /\ app \in {"moveOldProfiles", "moveNewProfiles", "moveOldLog"} /\ app' = "rollback"
      /\ UNCHANGED <<disk, restore, cut, written>>
  BY DEF SwapFails, Fails
<1>2. /\ Chosen \in Archives /\ InspectBackup(Chosen) /\ SwapInv
      /\ ~cut => disk.registry \ ghosts \subseteq Has(Before.current)
  BY <1>1, Swapping DEF SwapSteps
<1>3. TypeInv'
  BY <1>1 DEF IInv, TypeInv
<1>4. LogsKept' /\ ProfilesKept'
  BY <1>1, <1>2
     DEF SwapInv, SwapSteps, LogsKept, ProfilesKept, SameOrigin, UnderWay, Before
<1>5. SwapInv'
  BY <1>1, <1>2, <1>4 DEF SwapInv, SwapSteps, Before
<1>6. QED BY <1>1, <1>2, <1>3, <1>5, SwapEnd DEF Chosen, Before, SwapSteps

(* The log of the first profile that is left moves aside, unchanged. *)
LEMMA MoveOldLogStep ==
    ASSUME IInv, MoveOldLog, UNCHANGED ghosts
    PROVE  IInv'
<1> DEFINE id == Head(restore.todo)
<1>1. /\ app = "moveOldLog" /\ app' = "moveNewLog" /\ restore.todo # <<>>
      /\ UNCHANGED <<restore, cut, written>>
      /\ disk' = [disk EXCEPT !.asideLogs[id] = disk.logs[id], !.logs[id] = None]
  BY DEF MoveOldLog, Step, ToSwap
<1>2. /\ disk \in Disks /\ restore \in Restores
      /\ Chosen \in Archives /\ InspectBackup(Chosen) /\ SwapInv
      /\ ~cut => disk.registry \ ghosts \subseteq Has(Before.current)
  BY <1>1, Swapping DEF SwapSteps
<1>3. id \in Profiles /\ id \in Elems(restore.todo) /\ id \notin Elems(restore.swapped)
  <2>1. restore.todo \in Seq(Profiles) /\ Distinct(restore.todo)
        /\ Elems(restore.todo) \intersect Elems(restore.swapped) = {}
    BY <1>1, <1>2 DEF SwapInv, SwapSteps, Restores
  <2>2. QED BY <1>1, <2>1, TailElems
<1>4. /\ disk.logs \in MaybeLogs /\ disk.asideLogs \in MaybeLogs
      /\ disk.logs[id] \in Logs \union {None}
  BY <1>2, <1>3 DEF Disks, MaybeLogs
<1>5. /\ disk' \in Disks /\ disk'.registry = disk.registry /\ disk'.aside = disk.aside
      /\ disk'.current = disk.current /\ disk'.preparedLogs = disk.preparedLogs
      /\ disk'.asideLogs = [disk.asideLogs EXCEPT ![id] = disk.logs[id]]
      /\ disk'.logs = [disk.logs EXCEPT ![id] = None]
  <2>1. /\ [disk.asideLogs EXCEPT ![id] = disk.logs[id]] \in MaybeLogs
        /\ [disk.logs EXCEPT ![id] = None] \in MaybeLogs
    BY <1>3, <1>4, OneLog
  <2>2. disk' = [disk EXCEPT !.asideLogs = [disk.asideLogs EXCEPT ![id] = disk.logs[id]],
                             !.logs = [disk.logs EXCEPT ![id] = None]]
    BY <1>1, <1>2 DEF Disks
  <2>3. QED BY <1>2, <2>1, <2>2, DiskTypes DEF Disks
<1>6. /\ disk'.asideLogs[id] = disk.logs[id]
      /\ \A x \in Profiles \ {id} : disk'.logs[x] = disk.logs[x]
                                   /\ disk'.asideLogs[x] = disk.asideLogs[x]
  BY <1>3, <1>4, <1>5 DEF MaybeLogs
<1>7. TypeInv'
  BY <1>1, <1>5 DEF IInv, TypeInv
<1>8. UnderWay' = {id}
  BY <1>1 DEF UnderWay, ToSwap
<1>9. LogsKept'
  <2>1. ASSUME NEW x \in Profiles
        PROVE  IF x \in Elems(restore.swapped) \union {id}
               THEN SameOrigin(disk'.asideLogs[x], Before.logs[x])
               ELSE SameOrigin(disk'.logs[x], Before.logs[x])
    <3>1. IF x \in Elems(restore.swapped) THEN SameOrigin(disk.asideLogs[x], Before.logs[x])
          ELSE SameOrigin(disk.logs[x], Before.logs[x])
      BY <1>1, <1>2 DEF SwapInv, SwapSteps, LogsKept, UnderWay
    <3>2. QED BY <1>3, <1>6, <3>1
  <2>2. QED BY <1>1, <1>8, <2>1 DEF LogsKept, Before
<1>10. ProfilesKept'
  BY <1>1, <1>2, <1>5 DEF SwapInv, SwapSteps, ProfilesKept, Before
<1>11. \A x \in Elems(restore.swapped) : SameOrigin(disk'.logs[x], Log("backup"))
  <2>1. Elems(restore.swapped) \subseteq Profiles \ {id}
    BY <1>2, <1>3, ElementOfSeq DEF Restores, Elems
  <2>2. QED BY <1>1, <1>2, <1>6, <2>1 DEF SwapInv, SwapSteps
<1>12. SwapInv'
  BY <1>1, <1>2, <1>5, <1>9, <1>10, <1>11 DEF SwapInv, SwapSteps, Before, Chosen
<1>13. QED BY <1>1, <1>2, <1>5, <1>7, <1>12, SwapEnd DEF Chosen, Before, SwapSteps

(* The log of the archive takes its place. *)
LEMMA MoveNewLogStep ==
    ASSUME IInv, MoveNewLog, UNCHANGED ghosts
    PROVE  IInv'
<1> DEFINE id == Head(restore.todo)
<1>1. /\ app = "moveNewLog" /\ app' = "moveOldLog" /\ UNCHANGED <<cut, written>>
      /\ disk' = [disk EXCEPT !.logs[id] = disk.preparedLogs[id], !.preparedLogs[id] = None]
      /\ restore' = [restore EXCEPT !.swapped = Append(restore.swapped, id),
                                    !.todo = Tail(restore.todo)]
  BY DEF MoveNewLog, Step, ToSwap
<1>2. /\ disk \in Disks /\ restore \in Restores
      /\ Chosen \in Archives /\ InspectBackup(Chosen) /\ SwapInv
      /\ ~cut => disk.registry \ ghosts \subseteq Has(Before.current)
  BY <1>1, Swapping DEF SwapSteps
<1>3. /\ restore.todo \in Seq(Profiles) /\ Distinct(restore.todo) /\ restore.todo # <<>>
      /\ restore.swapped \in Seq(Profiles) /\ Distinct(restore.swapped)
      /\ Elems(restore.todo) \intersect Elems(restore.swapped) = {}
  BY <1>1, <1>2 DEF SwapInv, SwapSteps, Restores
<1>4. /\ id \in Profiles /\ id \in Elems(restore.todo) /\ id \notin Elems(restore.swapped)
      /\ Tail(restore.todo) \in Seq(Profiles) /\ Distinct(Tail(restore.todo))
      /\ Elems(Tail(restore.todo)) = Elems(restore.todo) \ {id}
  BY <1>3, TailElems
<1>5. /\ Append(restore.swapped, id) \in Seq(Profiles) /\ Distinct(Append(restore.swapped, id))
      /\ Elems(Append(restore.swapped, id)) = Elems(restore.swapped) \union {id}
  BY <1>3, <1>4, AppendElems
<1>6. /\ disk.logs \in MaybeLogs /\ disk.preparedLogs \in MaybeLogs
      /\ disk.preparedLogs[id] \in Logs \union {None}
      /\ disk.preparedLogs[id] = Log("backup")
  BY <1>1, <1>2, <1>4 DEF Disks, MaybeLogs, SwapInv, SwapSteps
<1>7. /\ disk' \in Disks /\ disk'.registry = disk.registry /\ disk'.aside = disk.aside
      /\ disk'.current = disk.current /\ disk'.asideLogs = disk.asideLogs
      /\ disk'.preparedLogs = [disk.preparedLogs EXCEPT ![id] = None]
      /\ disk'.logs = [disk.logs EXCEPT ![id] = disk.preparedLogs[id]]
  <2>1. /\ [disk.preparedLogs EXCEPT ![id] = None] \in MaybeLogs
        /\ [disk.logs EXCEPT ![id] = disk.preparedLogs[id]] \in MaybeLogs
    BY <1>4, <1>6, OneLog
  <2>2. disk' = [disk EXCEPT !.logs = [disk.logs EXCEPT ![id] = disk.preparedLogs[id]],
                             !.preparedLogs = [disk.preparedLogs EXCEPT ![id] = None]]
    BY <1>1, <1>2 DEF Disks
  <2>3. QED BY <1>2, <2>1, <2>2, DiskTypes DEF Disks
<1>8. /\ disk'.logs[id] = Log("backup")
      /\ \A x \in Profiles \ {id} : disk'.logs[x] = disk.logs[x]
                                   /\ disk'.preparedLogs[x] = disk.preparedLogs[x]
  <2>1. /\ [disk.logs EXCEPT ![id] = disk.preparedLogs[id]][id] = disk.preparedLogs[id]
        /\ \A x \in Profiles \ {id} :
              [disk.logs EXCEPT ![id] = disk.preparedLogs[id]][x] = disk.logs[x]
    BY <1>4, <1>6 DEF MaybeLogs
  <2>2. \A x \in Profiles \ {id} :
           [disk.preparedLogs EXCEPT ![id] = None][x] = disk.preparedLogs[x]
    BY <1>4, <1>6 DEF MaybeLogs
  <2> HIDE DEF id
  <2>3. QED BY <1>6, <1>7, <2>1, <2>2
<1>9. /\ restore' \in Restores /\ restore'.swapped = Append(restore.swapped, id)
      /\ restore'.todo = Tail(restore.todo) /\ restore'.archive = restore.archive
      /\ restore'.before = restore.before /\ restore'.committed = restore.committed
      /\ restore'.rollbackFailed = restore.rollbackFailed
  BY <1>1, <1>2, <1>4, <1>5, RestoreTypes DEF Restores
<1>10. TypeInv'
  BY <1>1, <1>7, <1>9 DEF IInv, TypeInv
<1>11. Elems(restore.swapped) \subseteq Profiles \ {id}
       /\ Elems(restore.todo) \subseteq Profiles
  BY <1>3, <1>4, ElementOfSeq DEF Elems
<1>12. UnderWay = {id} /\ UnderWay' = {} /\ Before' = Before /\ Chosen' = Chosen
  BY <1>1, <1>9 DEF UnderWay, ToSwap, Before, Chosen
<1>13. LogsKept'
  <2>1. ASSUME NEW x \in Profiles
        PROVE  IF x \in Elems(restore.swapped) \union {id}
               THEN SameOrigin(disk'.asideLogs[x], Before.logs[x])
               ELSE SameOrigin(disk'.logs[x], Before.logs[x])
    <3>1. IF x \in Elems(restore.swapped) \union {id}
          THEN SameOrigin(disk.asideLogs[x], Before.logs[x])
          ELSE SameOrigin(disk.logs[x], Before.logs[x])
      BY <1>1, <1>2, <1>12 DEF SwapInv, SwapSteps, LogsKept
    <3>2. QED BY <1>7, <1>8, <3>1
  <2>2. QED BY <1>5, <1>9, <1>12, <2>1 DEF LogsKept
<1>14. ProfilesKept'
  BY <1>1, <1>2, <1>7, <1>12 DEF SwapInv, SwapSteps, ProfilesKept
<1>15. \A x \in Elems(restore.swapped) \union {id} : SameOrigin(disk'.logs[x], Log("backup"))
  BY <1>1, <1>2, <1>8, <1>11 DEF SwapInv, SwapSteps, SameOrigin
<1>16. \A x \in Elems(restore.todo) \ {id} : disk'.preparedLogs[x] = Log("backup")
  BY <1>1, <1>2, <1>8, <1>11 DEF SwapInv, SwapSteps
<1>17. /\ Elems(Tail(restore.todo)) \intersect Elems(Append(restore.swapped, id)) = {}
       /\ Elems(Tail(restore.todo)) \union Elems(Append(restore.swapped, id)) = Chosen.listed
  BY <1>1, <1>2, <1>3, <1>4, <1>5 DEF SwapInv, SwapSteps
<1>18. SwapInv'
  BY <1>1, <1>2, <1>4, <1>5, <1>7, <1>9, <1>12, <1>13, <1>14, <1>15, <1>16, <1>17
     DEF SwapInv, SwapSteps
<1>19. QED BY <1>1, <1>2, <1>7, <1>10, <1>12, <1>18, SwapEnd DEF SwapSteps

(* If it cannot, the old log goes back at once. *)
LEMMA LogMovedBack ==
    ASSUME IInv, MoveNewLogFails, UNCHANGED <<restore, ghosts>>,
           disk' = [disk EXCEPT !.logs[ToSwap] = disk.asideLogs[ToSwap],
                                !.asideLogs[ToSwap] = None]
    PROVE  IInv'
<1> DEFINE id == Head(restore.todo)
<1>1. /\ app = "moveNewLog" /\ app' = "rollback" /\ UNCHANGED <<restore, cut, written>>
      /\ disk' = [disk EXCEPT !.logs[id] = disk.asideLogs[id], !.asideLogs[id] = None]
  BY DEF MoveNewLogFails, Fails, ToSwap
<1>2. /\ disk \in Disks /\ restore \in Restores
      /\ Chosen \in Archives /\ InspectBackup(Chosen) /\ SwapInv
      /\ ~cut => disk.registry \ ghosts \subseteq Has(Before.current)
  BY <1>1, Swapping DEF SwapSteps
<1>3. id \in Profiles /\ id \notin Elems(restore.swapped)
  <2>1. /\ restore.todo \in Seq(Profiles) /\ Distinct(restore.todo) /\ restore.todo # <<>>
        /\ Elems(restore.todo) \intersect Elems(restore.swapped) = {}
    BY <1>1, <1>2 DEF SwapInv, SwapSteps, Restores
  <2>2. QED BY <2>1, TailElems
<1>4. /\ disk.logs \in MaybeLogs /\ disk.asideLogs \in MaybeLogs
      /\ disk.asideLogs[id] \in Logs \union {None}
  BY <1>2, <1>3 DEF Disks, MaybeLogs
<1>5. /\ disk' \in Disks /\ disk'.registry = disk.registry /\ disk'.aside = disk.aside
      /\ disk'.current = disk.current
      /\ disk'.asideLogs = [disk.asideLogs EXCEPT ![id] = None]
      /\ disk'.logs = [disk.logs EXCEPT ![id] = disk.asideLogs[id]]
  <2>1. /\ [disk.asideLogs EXCEPT ![id] = None] \in MaybeLogs
        /\ [disk.logs EXCEPT ![id] = disk.asideLogs[id]] \in MaybeLogs
    BY <1>3, <1>4, OneLog
  <2>2. disk' = [disk EXCEPT !.logs = [disk.logs EXCEPT ![id] = disk.asideLogs[id]],
                             !.asideLogs = [disk.asideLogs EXCEPT ![id] = None]]
    BY <1>1, <1>2 DEF Disks
  <2> DEFINE logs == [disk.logs EXCEPT ![id] = disk.asideLogs[id]]
             asideLogs == [disk.asideLogs EXCEPT ![id] = None]
  <2> HIDE DEF logs, asideLogs
  <2>3. logs \in MaybeLogs /\ asideLogs \in MaybeLogs
        /\ disk' = [disk EXCEPT !.logs = logs, !.asideLogs = asideLogs]
    BY <2>1, <2>2 DEF logs, asideLogs
  <2>4. [disk EXCEPT !.logs = logs] \in Disks
    BY <1>2, <2>3, DiskTypes
  <2>5. disk' = [[disk EXCEPT !.logs = logs] EXCEPT !.asideLogs = asideLogs]
    BY <1>2, <2>3 DEF Disks
  <2>6. disk' \in Disks
    BY <2>3, <2>4, <2>5, DiskTypes
  <2>7. disk'.logs = logs /\ disk'.asideLogs = asideLogs
        /\ disk'.registry = disk.registry /\ disk'.aside = disk.aside
        /\ disk'.current = disk.current
    BY <1>2, <2>3, Zenon DEF Disks
  <2>8. QED BY <2>6, <2>7 DEF logs, asideLogs
<1>6. /\ disk'.logs[id] = disk.asideLogs[id]
      /\ \A x \in Profiles \ {id} : disk'.logs[x] = disk.logs[x]
                                   /\ disk'.asideLogs[x] = disk.asideLogs[x]
  BY <1>3, <1>4, <1>5 DEF MaybeLogs
<1>7. TypeInv'
  BY <1>1, <1>5 DEF IInv, TypeInv
<1>8. UnderWay = {id} /\ UnderWay' = {}
  BY <1>1 DEF UnderWay, ToSwap
<1>9. LogsKept'
  <2>1. ASSUME NEW x \in Profiles
        PROVE  IF x \in Elems(restore.swapped)
               THEN SameOrigin(disk'.asideLogs[x], Before.logs[x])
               ELSE SameOrigin(disk'.logs[x], Before.logs[x])
    <3>1. IF x \in Elems(restore.swapped) \union {id}
          THEN SameOrigin(disk.asideLogs[x], Before.logs[x])
          ELSE SameOrigin(disk.logs[x], Before.logs[x])
      BY <1>1, <1>2, <1>8 DEF SwapInv, SwapSteps, LogsKept
    <3>2. QED BY <1>3, <1>6, <3>1
  <2>2. QED BY <1>1, <1>8, <2>1 DEF LogsKept, Before
<1>10. ProfilesKept'
  BY <1>1, <1>2, <1>5 DEF SwapInv, SwapSteps, ProfilesKept, Before
<1>11. SwapInv'
  BY <1>1, <1>2, <1>5, <1>9, <1>10 DEF SwapInv, SwapSteps, Before
<1>12. QED BY <1>1, <1>2, <1>5, <1>7, <1>11, SwapEnd DEF Chosen, Before, SwapSteps

(* A log that cannot be moved back stays aside, and the rollback goes on. *)
LEMMA LogLeftAside ==
    ASSUME IInv, MoveNewLogFails, UNCHANGED <<disk, ghosts>>,
           restore' = [restore EXCEPT !.rollbackFailed = TRUE]
    PROVE  IInv'
<1>1. app = "moveNewLog" /\ app' = "rollback" /\ UNCHANGED <<cut, written>>
  BY DEF MoveNewLogFails, Fails
<1>2. /\ disk \in Disks /\ restore \in Restores
      /\ Chosen \in Archives /\ InspectBackup(Chosen) /\ SwapInv
      /\ ~cut => disk.registry \ ghosts \subseteq Has(Before.current)
  BY <1>1, Swapping DEF SwapSteps
<1>3. /\ restore' \in Restores /\ restore'.swapped = restore.swapped
      /\ restore'.archive = restore.archive /\ restore'.before = restore.before
      /\ restore'.committed = restore.committed /\ restore'.rollbackFailed
  BY <1>2, RestoreTypes DEF Restores
<1>4. TypeInv'
  BY <1>1, <1>3 DEF IInv, TypeInv
<1>5. UnderWay' = {} /\ Before' = Before /\ Chosen' = Chosen
  BY <1>1, <1>3 DEF UnderWay, Before, Chosen
<1>6. LogsKept'
  <2>1. ASSUME NEW x \in Profiles
        PROVE  IF x \in Elems(restore.swapped)
               THEN SameOrigin(disk.asideLogs[x], Before.logs[x])
               ELSE \/ SameOrigin(disk.logs[x], Before.logs[x])
                    \/ SameOrigin(disk.asideLogs[x], Before.logs[x])
    BY <1>1, <1>2 DEF SwapInv, SwapSteps, LogsKept
  <2>2. QED BY <1>3, <1>5, <2>1 DEF LogsKept
<1>7. ProfilesKept'
  BY <1>1, <1>2, <1>5 DEF SwapInv, SwapSteps, ProfilesKept
<1>8. SwapInv'
  BY <1>1, <1>2, <1>3, <1>5, <1>6, <1>7 DEF SwapInv, SwapSteps
<1>9. QED BY <1>1, <1>2, <1>4, <1>5, <1>8, SwapEnd DEF SwapSteps

LEMMA MoveNewLogFailsStep ==
    ASSUME IInv, MoveNewLogFails, UNCHANGED ghosts
    PROVE  IInv'
BY LogMovedBack, LogLeftAside DEF MoveNewLogFails

-----------------------------------------------------------------------------
(* The rollback.                                                           *)

(* The log that was swapped last comes back first. *)
LEMMA RollbackLogStep ==
    ASSUME IInv, RollbackLog, UNCHANGED ghosts
    PROVE  IInv'
<1> DEFINE id == Last(restore.swapped)
<1>1. /\ app = "rollback" /\ app' = "rollback" /\ UNCHANGED <<cut, written>>
      /\ restore.swapped # <<>>
      /\ disk' = [disk EXCEPT !.logs[id] = disk.asideLogs[id], !.asideLogs[id] = None]
      /\ restore' = [restore EXCEPT !.swapped = Front(restore.swapped)]
  BY DEF RollbackLog, Step
<1>2. /\ disk \in Disks /\ restore \in Restores
      /\ Chosen \in Archives /\ InspectBackup(Chosen) /\ SwapInv
      /\ ~cut => disk.registry \ ghosts \subseteq Has(Before.current)
  BY <1>1, Swapping DEF SwapSteps
<1>3. /\ id \in Profiles /\ id \in Elems(restore.swapped)
      /\ Front(restore.swapped) \in Seq(Profiles) /\ Distinct(Front(restore.swapped))
      /\ Elems(Front(restore.swapped)) = Elems(restore.swapped) \ {id}
  <2>1. restore.swapped \in Seq(Profiles) /\ Distinct(restore.swapped)
    BY <1>1, <1>2 DEF SwapInv, SwapSteps, Restores
  <2>2. QED BY <1>1, <2>1, FrontElems
<1>4. /\ disk.logs \in MaybeLogs /\ disk.asideLogs \in MaybeLogs
      /\ disk.asideLogs[id] \in Logs \union {None}
  BY <1>2, <1>3 DEF Disks, MaybeLogs
<1>5. /\ disk' \in Disks /\ disk'.registry = disk.registry /\ disk'.aside = disk.aside
      /\ disk'.current = disk.current
      /\ disk'.asideLogs = [disk.asideLogs EXCEPT ![id] = None]
      /\ disk'.logs = [disk.logs EXCEPT ![id] = disk.asideLogs[id]]
  <2>1. /\ [disk.asideLogs EXCEPT ![id] = None] \in MaybeLogs
        /\ [disk.logs EXCEPT ![id] = disk.asideLogs[id]] \in MaybeLogs
    BY <1>3, <1>4, OneLog
  <2>2. disk' = [disk EXCEPT !.logs = [disk.logs EXCEPT ![id] = disk.asideLogs[id]],
                             !.asideLogs = [disk.asideLogs EXCEPT ![id] = None]]
    BY <1>1, <1>2 DEF Disks
  <2>3. QED BY <1>2, <2>1, <2>2, DiskTypes DEF Disks
<1>6. /\ disk'.logs[id] = disk.asideLogs[id]
      /\ \A x \in Profiles \ {id} : disk'.logs[x] = disk.logs[x]
                                   /\ disk'.asideLogs[x] = disk.asideLogs[x]
  BY <1>3, <1>4, <1>5 DEF MaybeLogs
<1>7. /\ restore' \in Restores /\ restore'.swapped = Front(restore.swapped)
      /\ restore'.archive = restore.archive /\ restore'.before = restore.before
      /\ restore'.committed = restore.committed
      /\ restore'.rollbackFailed = restore.rollbackFailed
  BY <1>1, <1>2, <1>3, RestoreTypes DEF Restores
<1>8. TypeInv'
  BY <1>1, <1>5, <1>7 DEF IInv, TypeInv
<1>9. UnderWay = {} /\ UnderWay' = {} /\ Before' = Before /\ Chosen' = Chosen
  BY <1>1, <1>7 DEF UnderWay, Before, Chosen
<1>10. LogsKept'
  <2>1. ASSUME NEW x \in Profiles
        PROVE  IF x \in Elems(restore.swapped) \ {id}
               THEN SameOrigin(disk'.asideLogs[x], Before.logs[x])
               ELSE \/ SameOrigin(disk'.logs[x], Before.logs[x])
                    \/ /\ restore.rollbackFailed
                       /\ SameOrigin(disk'.asideLogs[x], Before.logs[x])
    <3>1. IF x \in Elems(restore.swapped)
          THEN SameOrigin(disk.asideLogs[x], Before.logs[x])
          ELSE \/ SameOrigin(disk.logs[x], Before.logs[x])
               \/ restore.rollbackFailed /\ SameOrigin(disk.asideLogs[x], Before.logs[x])
      BY <1>1, <1>2, <1>9 DEF SwapInv, SwapSteps, LogsKept
    <3>2. QED BY <1>3, <1>6, <3>1
  <2>2. QED BY <1>3, <1>7, <1>9, <2>1 DEF LogsKept
<1>11. ProfilesKept'
  BY <1>1, <1>2, <1>5, <1>9 DEF SwapInv, SwapSteps, ProfilesKept
<1>12. SwapInv'
  BY <1>1, <1>2, <1>3, <1>5, <1>7, <1>9, <1>10, <1>11 DEF SwapInv, SwapSteps
<1>13. QED BY <1>1, <1>2, <1>5, <1>8, <1>9, <1>12, SwapEnd DEF SwapSteps

(* When the logs are back, so are the profiles: all is as before. *)
LEMMA RollbackProfilesStep ==
    ASSUME IInv, RollbackProfiles, UNCHANGED ghosts
    PROVE  IInv'
<1>1. /\ app = "rollback" /\ app' = "failed" /\ UNCHANGED <<restore, cut, written>>
      /\ restore.swapped = <<>>
      /\ disk' = IF disk.aside = None THEN disk
                 ELSE [disk EXCEPT !.current = disk.aside, !.aside = None]
  BY DEF RollbackProfiles, Step
<1>2. /\ disk \in Disks /\ SwapInv /\ Before.current \in MaybeDir
      /\ ~cut => disk.registry \ ghosts \subseteq Has(Before.current)
  BY <1>1, Swapping DEF SwapSteps, SwapInv
<1>3. Before.current # None
  BY <1>2, NoneAssumption DEF MaybeDir
<1>4. /\ disk' \in Disks /\ disk'.registry = disk.registry /\ disk'.logs = disk.logs
      /\ disk'.current = Before.current
  <2>1. \/ disk.current = Before.current /\ disk.aside = None
        \/ disk.aside = Before.current
    BY <1>1, <1>2 DEF SwapInv, SwapSteps, ProfilesKept
  <2>2. CASE disk.aside = None
    BY <1>1, <1>2, <1>3, <2>1, <2>2
  <2>3. CASE disk.aside # None
    BY <1>1, <1>2, <2>1, <2>3, DiskTypes DEF Disks
  <2>4. QED BY <2>2, <2>3
<1>5. TypeInv'
  BY <1>1, <1>4 DEF IInv, TypeInv
<1>6. Elems(restore.swapped) = {} /\ UnderWay = {} /\ disk.registry = Before.registry
  BY <1>1, <1>2 DEF Elems, UnderWay, SwapInv, SwapSteps
<1>7. \A id \in Profiles :
         \/ SameOrigin(disk'.logs[id], Before.logs[id])
         \/ restore.rollbackFailed /\ SameOrigin(disk'.asideLogs[id], Before.logs[id])
  BY <1>1, <1>2, <1>4, <1>6 DEF SwapInv, SwapSteps, LogsKept
<1>8. FailedRestoreRollsBack'
  BY <1>1, <1>4, <1>6, <1>7 DEF FailedRestoreRollsBack, Before
<1>9. OldStillOnDisk'
  BY <1>1, <1>4, <1>7 DEF OldStillOnDisk, Before
<1>10. Chosen' \in Archives /\ InspectBackup(Chosen)'
  BY <1>1, Swapping DEF SwapSteps, Chosen
<1>11. QED BY <1>1, <1>2, <1>4, <1>5, <1>8, <1>9, <1>10, FailedEnd DEF OldOrNewOnDisk

(* A rollback that fails leaves the old ones somewhere on the disk. *)
LEMMA RollbackFailsStep ==
    ASSUME IInv, RollbackFails, UNCHANGED ghosts
    PROVE  IInv'
<1>1. /\ app = "rollback" /\ app' = "failed" /\ UNCHANGED <<disk, written>> /\ cut' = TRUE
      /\ restore' = [restore EXCEPT !.rollbackFailed = TRUE]
  BY DEF RollbackFails, Fails
<1>2. restore' \in Restores /\ restore'.before = restore.before /\ restore'.rollbackFailed
  BY <1>1, RestoreTypes DEF IInv, TypeInv, Restores
<1>3. TypeInv'
  BY <1>1, <1>2 DEF IInv, TypeInv
<1>4. OldStillOnDisk
  BY <1>1, KeptIsOnDisk DEF SwapSteps
<1>5. OldStillOnDisk'
  BY <1>1, <1>2, <1>4 DEF OldStillOnDisk, Before
<1>6. FailedRestoreRollsBack'
  BY <1>2 DEF FailedRestoreRollsBack
<1>7. Chosen' \in Archives /\ InspectBackup(Chosen)'
  <2>1. restore'.archive = restore.archive
    BY <1>1 DEF IInv, TypeInv, Restores
  <2>2. QED BY <1>1, <2>1, Swapping DEF SwapSteps, Chosen
<1>8. QED BY <1>1, <1>3, <1>5, <1>6, <1>7, FailedEnd DEF OldOrNewOnDisk

-----------------------------------------------------------------------------
(* The end of a restore.                                                   *)

(* When every log is swapped, the old ones are no longer needed. *)
LEMMA RemoveOldStep ==
    ASSUME IInv, RemoveOld, UNCHANGED ghosts
    PROVE  IInv'
<1>1. /\ app = "moveOldLog" /\ app' = "registry" /\ UNCHANGED <<cut, written>>
      /\ restore.todo = <<>> /\ restore' = [restore EXCEPT !.committed = TRUE]
  BY DEF RemoveOld, Step
<1>2. PICK aside \in {None, disk.aside}, kept \in SUBSET Has(disk.asideLogs) :
         disk' = [disk EXCEPT !.aside = aside,
                              !.asideLogs = [id \in Profiles |->
                                  IF id \in kept THEN disk.asideLogs[id] ELSE None]]
  BY DEF RemoveOld
<1>3. /\ disk \in Disks /\ restore \in Restores
      /\ Chosen \in Archives /\ InspectBackup(Chosen) /\ SwapInv
  BY <1>1, Swapping DEF SwapSteps
<1>4. /\ disk' \in Disks /\ disk'.current = disk.current /\ disk'.logs = disk.logs
  <2>1. aside \in MaybeDir \union {None}
    BY <1>2, <1>3 DEF Disks
  <2>2. [id \in Profiles |-> IF id \in kept THEN disk.asideLogs[id] ELSE None] \in MaybeLogs
    BY <1>3 DEF Disks, MaybeLogs
  <2>3. QED BY <1>2, <1>3, <2>1, <2>2, DiskTypes DEF Disks
<1>5. /\ restore' \in Restores /\ restore'.archive = restore.archive /\ restore'.committed
  BY <1>1, <1>3, RestoreTypes DEF Restores
<1>6. TypeInv'
  BY <1>1, <1>4, <1>5 DEF IInv, TypeInv
<1>7. Elems(restore.todo) = {}
  BY <1>1 DEF Elems
<1>8. NewOnDisk'
  BY <1>1, <1>3, <1>4, <1>5, <1>7 DEF SwapInv, SwapSteps, NewOnDisk, Chosen, SameOrigin
<1>9. QED BY <1>1, <1>3, <1>5, <1>6, <1>8, CommittedEnd DEF Chosen

(* What holds after the swap. *)
LEMMA Committed ==
    ASSUME IInv, app \in {"registry", "preferences", "done"}
    PROVE  /\ disk \in Disks /\ restore \in Restores
           /\ Chosen \in Archives /\ InspectBackup(Chosen)
           /\ restore.committed /\ NewOnDisk
           /\ ~cut /\ app # "registry" => disk.registry \ ghosts \subseteq Has(disk.current)
BY DEF IInv, TypeInv, ArchiveInv, CommittedInv, RegistryInv, Databases, SwapSteps

(* The registry of the archive has the databases of the archive. *)
LEMMA ReplaceRegistryStep ==
    ASSUME IInv, ReplaceRegistry, UNCHANGED ghosts
    PROVE  IInv'
<1>1. /\ app = "registry" /\ app' = "preferences" /\ UNCHANGED <<restore, written>>
      /\ cut' = FALSE /\ disk' = [disk EXCEPT !.registry = Chosen.registered]
  BY DEF ReplaceRegistry
<1>2. /\ disk \in Disks /\ Chosen \in Archives /\ InspectBackup(Chosen)
      /\ restore.committed /\ NewOnDisk
  BY <1>1, Committed
<1>3. Chosen.registered \subseteq Chosen.databases /\ Chosen.registered \subseteq Profiles
  BY <1>2, ArchiveTypes
<1>4. /\ disk' \in Disks /\ disk'.registry = Chosen.registered
      /\ disk'.current = disk.current /\ disk'.logs = disk.logs
  BY <1>1, <1>2, <1>3, DiskTypes DEF Disks
<1>5. TypeInv'
  BY <1>1, <1>4 DEF IInv, TypeInv
<1>6. NewOnDisk'
  BY <1>1, <1>2, <1>4 DEF NewOnDisk, Chosen, SameOrigin
<1>7. disk'.registry \ ghosts' \subseteq Has(disk.current)'
  <2>1. "backup" # None
    BY NoneAssumption DEF Origins
  <2>2. disk.current = All(Chosen.databases, "backup")
    BY <1>2 DEF NewOnDisk
  <2>3. QED BY <1>3, <1>4, <2>1, <2>2 DEF Has, All
<1>8. QED BY <1>1, <1>2, <1>5, <1>6, <1>7, CommittedEnd DEF Chosen

LEMMA ReplacePreferencesStep ==
    ASSUME IInv, ReplacePreferences, UNCHANGED ghosts
    PROVE  IInv'
<1>1. /\ app = "preferences" /\ app' = "done" /\ UNCHANGED <<disk, restore, cut, written>>
  BY DEF ReplacePreferences, Step
<1>2. /\ Chosen \in Archives /\ InspectBackup(Chosen) /\ restore.committed /\ NewOnDisk
      /\ ~cut => disk.registry \ ghosts \subseteq Has(disk.current)
  BY <1>1, Committed
<1>3. TypeInv' /\ NewOnDisk'
  BY <1>1, <1>2 DEF IInv, TypeInv, NewOnDisk, Chosen
<1>4. QED BY <1>1, <1>2, <1>3, CommittedEnd DEF Chosen

LEMMA ReplaceFailsStep ==
    ASSUME IInv, ReplaceFails, UNCHANGED ghosts
    PROVE  IInv'
<1>1. /\ app \in {"registry", "preferences"} /\ app' = "failed"
      /\ UNCHANGED <<disk, restore, written>>
      /\ cut' = TRUE \/ (app = "preferences" /\ cut' = cut)
  BY DEF ReplaceFails, Fails
<1>2. restore.committed /\ (~cut /\ app # "registry" => disk.registry \ ghosts \subseteq Has(disk.current))
  BY <1>1, Committed
<1>3. TypeInv'
  BY <1>1 DEF IInv, TypeInv
<1>4. OldOrNewOnDisk' /\ FailedRestoreRollsBack'
  BY <1>1, <1>2, OldOrNew, OldOrNewFrame DEF FailedRestoreRollsBack
<1>5. QED BY <1>1, <1>2, <1>3, <1>4, ChosenKept, FailedEnd

LEMMA RestoreHandledStep ==
    ASSUME IInv, RestoreHandled, UNCHANGED ghosts
    PROVE  IInv'
<1>1. /\ app \in {"refused", "failed", "done"}
      /\ app' = IF app = "refused" THEN "running" ELSE "closed"
      /\ UNCHANGED <<disk, restore, cut, written>>
  BY DEF RestoreHandled
<1>2. TypeInv' /\ OldOrNewOnDisk' /\ (~cut => disk.registry \ ghosts \subseteq Has(disk.current))
  BY <1>1, OldOrNew, OldOrNewFrame DEF IInv, TypeInv, RegistryInv, Databases, SwapSteps
<1>3. CASE app = "refused"
  <2>1. app' = "running" /\ Before = None /\ disk.aside = None
    BY <1>1, <1>3 DEF IInv, OrdinaryInv, Ordinary
  <2>2. QED BY <1>1, <1>2, <2>1, OrdinaryEnd DEF Ordinary, Before
<1>4. CASE app # "refused"
  BY <1>1, <1>2, <1>4, ChosenKept, ClosedEnd
<1>5. QED BY <1>3, <1>4

(* A crash in the middle leaves the disk as it is. *)
LEMMA CrashStep ==
    ASSUME IInv, Crash, UNCHANGED ghosts
    PROVE  IInv'
<1>1. /\ app' = "closed" /\ UNCHANGED <<disk, restore, written>>
      /\ cut' = (cut \/ app \in {"moveNewProfiles", "moveOldLog", "moveNewLog", "rollback",
                               "registry"})
  BY DEF Crash
<1>2. TypeInv' /\ OldOrNewOnDisk'
  BY <1>1, OldOrNew, OldOrNewFrame DEF IInv, TypeInv
<1>3. ~cut' => disk'.registry \ ghosts' \subseteq Has(disk.current)'
  <2>1. SUFFICES ASSUME ~cut'
                 PROVE  disk.registry \ ghosts \subseteq Has(disk.current)
    BY <1>1
  <2>2. app \notin {"moveNewProfiles", "moveOldLog", "moveNewLog", "rollback", "registry"}
        /\ disk.registry \ ghosts \subseteq Has(Databases)
    BY <1>1, <2>1 DEF IInv, RegistryInv
  <2>3. Databases = disk.current
    BY <2>2 DEF IInv, Databases, SwapSteps, SwapInv, ProfilesKept
  <2>4. QED BY <2>2, <2>3
<1>4. Before' # None => Chosen' \in Archives /\ InspectBackup(Chosen)'
  BY <1>1, ChosenKept
<1>5. QED BY <1>1, <1>2, <1>3, <1>4, ClosedEnd

-----------------------------------------------------------------------------
(* The profiles and the logs while the application runs.                   *)

(* What holds outside a restore. *)
LEMMA OutsideRestore ==
    ASSUME IInv, app \in AtWork \union {"running"}
    PROVE  /\ disk \in Disks /\ restore \in Restores /\ Before = None /\ disk.aside = None
           /\ ~cut => disk.registry \ ghosts \subseteq Has(disk.current)
           /\ app \in Ordinary
BY DEF IInv, TypeInv, OrdinaryInv, Ordinary, RegistryInv, Databases, SwapSteps, AtWork

(* A step of the profile manager keeps the invariants when it changes only *)
(* the registry, the databases and the logs, and what is listed has its    *)
(* database.                                                               *)
LEMMA ManagerStep ==
    ASSUME IInv, app \in AtWork \union {"running"}, app' \in AtWork \union {"running"},
           UNCHANGED <<restore, cut, written>>,
           disk' \in Disks, disk'.aside = disk.aside, MemoryInv',
           ~cut => disk'.registry \ ghosts' \subseteq Has(disk'.current)
    PROVE  IInv'
<1>1. Before = None /\ disk.aside = None /\ app' \in Ordinary
      /\ app' \notin {"backup", "prepare"}
  BY OutsideRestore DEF AtWork, Ordinary
<1>2. TypeInv'
  BY DEF IInv, TypeInv
<1>3. QED BY <1>1, <1>2, OrdinaryEnd DEF Before, Has

(* A directory in which one entry is made if it is missing. *)
LEMMA EntryMade ==
    ASSUME NEW id, NEW f \in MaybeDir
    PROVE  /\ [f EXCEPT ![id] = IF f[id] = None THEN "empty" ELSE f[id]] \in MaybeDir
           /\ Has(f) \subseteq Has([f EXCEPT ![id] = IF f[id] = None THEN "empty" ELSE f[id]])
BY NoneAssumption DEF MaybeDir, Has, Origins

LEMMA LogMade ==
    ASSUME NEW id, NEW f \in MaybeLogs
    PROVE  [f EXCEPT ![id] = IF f[id] = None THEN Log("empty") ELSE f[id]] \in MaybeLogs
<1>1. Log("empty") \in Logs
  <2>1. "empty" \in Origins
    BY DEF Origins
  <2>2. QED BY <2>1, DirTypes
<1>2. QED BY <1>1 DEF MaybeLogs

(* An opened profile has a database and a log, and no other one loses its. *)
LEMMA OpenedDisk ==
    ASSUME disk \in Disks, NEW id \in Profiles
    PROVE  /\ Opened(id) \in Disks /\ Opened(id).registry = disk.registry
           /\ Opened(id).aside = disk.aside /\ Opened(id).zip = disk.zip
           /\ Opened(id).asideLogs = disk.asideLogs
           /\ Has(disk.current) \subseteq Has(Opened(id).current)
           /\ \A x \in Profiles : disk.logs[x] # None => Opened(id).logs[x] = disk.logs[x]
<1> DEFINE current == [disk.current EXCEPT
                         ![id] = IF disk.current[id] = None THEN "empty"
                                    ELSE disk.current[id]]
           logs == [disk.logs EXCEPT
                      ![id] = IF disk.logs[id] = None THEN Log("empty")
                                 ELSE disk.logs[id]]
<1>1. Opened(id) = [disk EXCEPT !.current = current, !.logs = logs]
  BY DEF Opened, Disks
<1>2. current \in MaybeDir /\ Has(disk.current) \subseteq Has(current) /\ logs \in MaybeLogs
  BY EntryMade, LogMade DEF Disks
<1>3. \A x \in Profiles : disk.logs[x] # None => logs[x] = disk.logs[x]
  BY DEF Disks, MaybeLogs
<1> HIDE DEF current, logs
<1>4. Opened(id) \in Disks
  <2>1. [disk EXCEPT !.current = current] \in Disks
    BY <1>2, DiskTypes
  <2>2. Opened(id) = [[disk EXCEPT !.current = current] EXCEPT !.logs = logs]
    BY <1>1, <2>1 DEF Disks
  <2>3. QED BY <1>2, <2>1, <2>2, DiskTypes
<1>5. QED BY <1>1, <1>2, <1>3, <1>4 DEF Disks

(* The next start finds what is there, and nothing to go back to. *)
LEMMA StartStep ==
    ASSUME IInv, MemoryInv, NEW id \in Profiles, Start(id)
    PROVE  IInv' /\ MemoryInv'
<1>1. /\ app = "closed" /\ app' = "running" /\ UNCHANGED <<cut, written, ghosts>>
      /\ restore' = NoRestore /\ memory' = disk.registry
      /\ disk' = [Opened(id) EXCEPT !.aside = None, !.asideLogs = Nothing,
                                    !.prepared = None, !.preparedLogs = Nothing]
  BY DEF Start, UserOp
<1>2. disk \in Disks /\ (~cut => disk.registry \ ghosts \subseteq Has(disk.current))
  BY <1>1 DEF IInv, TypeInv, RegistryInv, Databases, SwapSteps
<1>3. /\ Opened(id) \in Disks /\ Opened(id).registry = disk.registry
      /\ Has(disk.current) \subseteq Has(Opened(id).current)
  BY <1>2, OpenedDisk
<1>4. /\ disk' \in Disks
      /\ disk'.registry = disk.registry /\ disk'.current = Opened(id).current
      /\ disk'.aside = None
  BY <1>1, <1>3, DiskTypes, DirTypes DEF Disks
<1>5. TypeInv'
  BY <1>1, <1>4, ChosenRemembered DEF IInv, TypeInv
<1>6. Before' = None
  BY <1>1 DEF Before, NoRestore
<1>7. ~cut => disk'.registry \ ghosts' \subseteq Has(disk'.current)
  BY <1>1, <1>2, <1>3, <1>4
<1>8. IInv'
  BY <1>1, <1>4, <1>5, <1>6, <1>7, OrdinaryEnd DEF Ordinary, Has
<1>9. disk.registry \in SUBSET Profiles
  BY <1>2 DEF Disks
<1>10. MemoryInv'
  BY <1>1, <1>4, <1>7, <1>9 DEF MemoryInv, AtWork, Making, Has
<1>11. QED BY <1>8, <1>10

(* A profile that is opened gets what it lacks. *)
LEMMA OpenProfileStep ==
    ASSUME IInv, MemoryInv, NEW id \in Profiles, OpenProfile(id)
    PROVE  IInv' /\ MemoryInv'
<1>1. /\ app = "running" /\ app' = "running" /\ disk' = Opened(id)
      /\ UNCHANGED <<restore, cut, written, memory, profile, ghosts>>
  BY DEF OpenProfile, Step, manager
<1>2. /\ disk \in Disks
      /\ ~cut => disk.registry \ ghosts \subseteq Has(disk.current)
  BY <1>1, OutsideRestore
<1>3. /\ disk' \in Disks /\ disk'.registry = disk.registry /\ disk'.aside = disk.aside
      /\ Has(disk.current) \subseteq Has(disk'.current)
  BY <1>1, <1>2, OpenedDisk
<1>4. MemoryInv'
  BY <1>1, <1>3 DEF MemoryInv, AtWork, Making, Ordinary, Has
<1>5. QED BY <1>1, <1>2, <1>3, <1>4, ManagerStep

(* What is saved is what is listed, and has its database. *)
LEMMA RegistrySaved ==
    ASSUME IInv, MemoryInv, app \in {"running", "saving", "deleting"}, app' \in {"running", "removing"},
           UNCHANGED <<restore, cut, written, ghosts>>,
           disk' = [disk EXCEPT !.registry = memory'], memory' \subseteq memory,
           app' = "removing" => profile' \in Profiles \ memory'
    PROVE  IInv' /\ MemoryInv'
<1>1. /\ disk \in Disks /\ memory \in SUBSET Profiles
      /\ ~cut => memory \ ghosts \subseteq Has(disk.current)
  BY OutsideRestore DEF MemoryInv, AtWork, Making, Ordinary
<1>2. /\ disk' \in Disks /\ disk'.registry = memory' /\ disk'.aside = disk.aside
      /\ disk'.current = disk.current
  BY <1>1, DiskTypes DEF Disks
<1>3. MemoryInv'
  BY <1>1, <1>2 DEF MemoryInv, AtWork, Making, Has
<1>4. ~cut => disk'.registry \ ghosts' \subseteq Has(disk'.current)
  BY <1>1, <1>2
<1>5. QED BY <1>2, <1>3, <1>4, ManagerStep DEF AtWork

LEMMA SaveRegistryStep ==
    ASSUME IInv, MemoryInv, SaveRegistry
    PROVE  IInv' /\ MemoryInv'
BY RegistrySaved DEF SaveRegistry, Step, manager

(* A new profile is listed, and then gets its database. *)
LEMMA RegisterProfileStep ==
    ASSUME IInv, MemoryInv, NEW id \in NewProfiles, RegisterProfile(id)
    PROVE  IInv' /\ MemoryInv'
<1>1. /\ app = "running" /\ app' = "creating" /\ memory' = memory \union {id} /\ profile' = id
      /\ UNCHANGED <<disk, restore, cut, written, ghosts>>
  BY DEF RegisterProfile, UserOp
<1>2. /\ disk \in Disks
      /\ ~cut => disk.registry \ ghosts \subseteq Has(disk.current)
  BY <1>1, OutsideRestore
<1>3. id \in Profiles
  BY DEF Profiles
<1>4. MemoryInv'
  BY <1>1, <1>3 DEF MemoryInv, AtWork, Making, Ordinary, Has
<1>5. QED BY <1>1, <1>2, <1>4, ManagerStep DEF AtWork

LEMMA CreateDatabaseStep ==
    ASSUME IInv, MemoryInv, CreateDatabase
    PROVE  IInv' /\ MemoryInv'
<1> DEFINE current == [disk.current EXCEPT ![profile] = "empty"]
           logs == [disk.logs EXCEPT ![profile] = IF disk.logs[profile] = None THEN Log("empty")
                                                  ELSE disk.logs[profile]]
<1>1. /\ app = "creating" /\ app' = "saving"
      /\ UNCHANGED <<restore, cut, written, memory, profile, ghosts>>
  BY DEF CreateDatabase, Step, manager
<1>2. /\ disk \in Disks /\ profile \in Profiles
      /\ ~cut => disk.registry \ ghosts \subseteq Has(disk.current)
  BY <1>1, OutsideRestore DEF MemoryInv, AtWork
<1>3. disk' = [disk EXCEPT !.current = current, !.logs = logs]
  BY <1>2 DEF CreateDatabase, Disks
<1>4. current \in MaybeDir /\ Has(disk.current) \union {profile} \subseteq Has(current)
  BY <1>2, NoneAssumption DEF Disks, MaybeDir, Has, Origins
<1>5. logs \in MaybeLogs
  BY <1>2, LogMade DEF Disks
<1> HIDE DEF current, logs
<1>6. /\ disk' \in Disks /\ disk'.registry = disk.registry /\ disk'.aside = disk.aside
      /\ disk'.current = current
  <2>1. disk' \in Disks
    BY <1>2, <1>3, <1>4, <1>5, DiskTypes
  <2>2. QED BY <1>2, <1>3, <2>1 DEF Disks
<1>7. MemoryInv'
  BY <1>1, <1>2, <1>4, <1>6 DEF MemoryInv, AtWork, Making, Ordinary, Has
<1>8. QED BY <1>1, <1>2, <1>4, <1>6, <1>7, ManagerStep DEF AtWork

LEMMA SaveCreatedStep ==
    ASSUME IInv, MemoryInv, SaveCreated
    PROVE  IInv' /\ MemoryInv'
BY RegistrySaved DEF SaveCreated, Step

(* A profile that has no database after an error is a ghost. *)
LEMMA CreateFailsStep ==
    ASSUME IInv, MemoryInv, CreateFails
    PROVE  IInv' /\ MemoryInv'
<1>1. /\ app \in {"creating", "saving"} /\ app' = "running"
      /\ UNCHANGED <<disk, restore, cut, written, memory>>
      /\ ghosts' = IF app = "creating" THEN ghosts \union {profile} ELSE ghosts
  BY DEF CreateFails, Fails
<1>2. /\ disk \in Disks
      /\ ~cut => disk.registry \ ghosts \subseteq Has(disk.current)
  BY <1>1, OutsideRestore DEF AtWork
<1>3. MemoryInv'
  BY <1>1 DEF MemoryInv, AtWork, Making, Ordinary, Has
<1>4. QED BY <1>1, <1>2, <1>3, ManagerStep DEF AtWork

(* A deleted profile has its database until it is in no registry. *)
LEMMA DeleteProfileStep ==
    ASSUME IInv, MemoryInv, NEW id \in Profiles, DeleteProfile(id)
    PROVE  IInv' /\ MemoryInv'
<1> DEFINE logs == [disk.logs EXCEPT ![id] = Log("empty")]
<1>1. /\ app = "running" /\ app' = "deleting" /\ profile' = id
      /\ UNCHANGED <<restore, cut, written, memory, ghosts>>
  BY DEF DeleteProfile, UserOp
<1>2. /\ disk \in Disks
      /\ ~cut => disk.registry \ ghosts \subseteq Has(disk.current)
  BY <1>1, OutsideRestore
<1>3. disk' = disk \/ disk' = [disk EXCEPT !.logs = logs]
  BY <1>2 DEF DeleteProfile, Disks
<1>4. logs \in MaybeLogs
  <2>1. Log("empty") \in Logs
    BY DirTypes DEF Origins
  <2>2. QED BY <1>2, <2>1, OneLog DEF Disks
<1> HIDE DEF logs
<1>5. /\ disk' \in Disks /\ disk'.registry = disk.registry
      /\ disk'.aside = disk.aside /\ disk'.current = disk.current
  BY <1>2, <1>3, <1>4, DiskTypes DEF Disks
<1>6. MemoryInv'
  BY <1>1, <1>5 DEF MemoryInv, AtWork, Making, Ordinary, Has
<1>7. QED BY <1>1, <1>2, <1>5, <1>6, ManagerStep DEF AtWork

LEMMA SaveDeletedStep ==
    ASSUME IInv, MemoryInv, SaveDeleted
    PROVE  IInv' /\ MemoryInv'
BY RegistrySaved DEF SaveDeleted, Unlist, MemoryInv, AtWork

LEMMA RemoveDatabaseStep ==
    ASSUME IInv, MemoryInv, RemoveDatabase
    PROVE  IInv' /\ MemoryInv'
<1> DEFINE current == [disk.current EXCEPT ![profile] = None]
<1>1. /\ app = "removing" /\ app' = "running"
      /\ UNCHANGED <<restore, cut, written, memory, ghosts>>
  BY DEF RemoveDatabase, Step
<1>2. /\ disk \in Disks /\ profile \notin memory \union disk.registry
      /\ ~cut => disk.registry \ ghosts \subseteq Has(disk.current)
  BY <1>1, OutsideRestore DEF MemoryInv, AtWork
<1>3. disk' = [disk EXCEPT !.current = current]
  BY <1>2 DEF RemoveDatabase, Disks
<1>4. current \in MaybeDir /\ Has(disk.current) \ {profile} \subseteq Has(current)
  BY <1>2 DEF Disks, MaybeDir, Has
<1> HIDE DEF current
<1>5. /\ disk' \in Disks /\ disk'.registry = disk.registry
      /\ disk'.aside = disk.aside /\ disk'.current = current
  BY <1>2, <1>3, <1>4, DiskTypes DEF Disks
<1>6. MemoryInv'
  <2>1. (~cut)' => (memory \ ghosts \subseteq Has(current))
    BY <1>1, <1>2, <1>4 DEF MemoryInv, Making, Ordinary
  <2>2. QED BY <1>1, <1>5, <2>1 DEF MemoryInv, AtWork, Making, Ordinary, Has
<1>7. QED BY <1>1, <1>2, <1>4, <1>5, <1>6, ManagerStep DEF AtWork

LEMMA DeleteFailsStep ==
    ASSUME IInv, MemoryInv, DeleteFails
    PROVE  IInv' /\ MemoryInv'
<1>1. /\ app = "deleting" /\ app' = "running" /\ memory' \subseteq memory
      /\ UNCHANGED <<disk, restore, cut, written, ghosts>>
  BY DEF DeleteFails, Unlist
<1>2. /\ disk \in Disks
      /\ ~cut => disk.registry \ ghosts \subseteq Has(disk.current)
  BY <1>1, OutsideRestore DEF AtWork
<1>3. MemoryInv'
  BY <1>1 DEF MemoryInv, AtWork, Making, Ordinary, Has
<1>4. QED BY <1>1, <1>2, <1>3, ManagerStep DEF AtWork

(* A worker that appends to a log, at any moment, changes no origin. *)
LEMMA WorkerWritesStep ==
    ASSUME IInv, NEW own \in Profiles, WorkerWrites(own)
    PROVE  IInv'
<1> DEFINE log == [disk.logs[own] EXCEPT !.qsos = @ \union {written + 1}]
<1>1. /\ UNCHANGED <<app, restore, cut, ghosts>> /\ written' = written + 1
      /\ disk.logs[own] # None /\ written \in Nat /\ disk \in Disks
  BY DEF WorkerWrites, manager, IInv, TypeInv
<1>2. disk' = [disk EXCEPT !.logs = [disk.logs EXCEPT ![own] = log]]
  BY <1>1 DEF WorkerWrites, Disks
<1>3. log \in Logs /\ SameOrigin(log, disk.logs[own])
  <2>1. disk.logs[own] \in Logs
    BY <1>1 DEF Disks, MaybeLogs
  <2>2. log \in Logs /\ log.from = disk.logs[own].from
    BY <1>1, <2>1 DEF Logs
  <2>3. QED BY <1>1, <2>2, NoneAssumption DEF SameOrigin
<1> HIDE DEF log
<1>4. /\ [disk.logs EXCEPT ![own] = log] \in MaybeLogs
      /\ \A id \in Profiles :
            SameOrigin([disk.logs EXCEPT ![own] = log][id], disk.logs[id])
  BY <1>1, <1>3 DEF Disks, MaybeLogs, SameOrigin
<1>5. /\ disk' \in Disks /\ disk'.registry = disk.registry /\ disk'.current = disk.current
      /\ disk'.aside = disk.aside /\ disk'.prepared = disk.prepared
      /\ disk'.preparedLogs = disk.preparedLogs /\ disk'.asideLogs = disk.asideLogs
      /\ \A id \in Profiles : SameOrigin(disk'.logs[id], disk.logs[id])
  <2>1. disk' \in Disks
    BY <1>1, <1>2, <1>4, DiskTypes
  <2>2. QED BY <1>1, <1>2, <1>4, <2>1 DEF Disks
<1>6. TypeInv'
  BY <1>1, <1>5 DEF IInv, TypeInv
<1>7. OrdinaryInv' /\ ArchiveInv' /\ RegistryInv'
  BY <1>1, <1>5 DEF IInv, OrdinaryInv, ArchiveInv, RegistryInv, NothingSwapped, Databases,
                    Before, Chosen
<1>8. \A log1, log2, log3 : SameOrigin(log1, log2) /\ SameOrigin(log2, log3)
                              => SameOrigin(log1, log3)
  BY DEF SameOrigin
<1>9. UnderWay' = UnderWay /\ Before' = Before /\ Chosen' = Chosen
  BY <1>1 DEF UnderWay, ToSwap, Before, Chosen
<1>10. LogsKept => LogsKept'
  BY <1>1, <1>5, <1>8, <1>9 DEF LogsKept
<1>11. ProfilesKept => ProfilesKept'
  BY <1>1, <1>5, <1>9 DEF ProfilesKept
<1>12. SwapInv'
  <2>1. CASE app \in SwapSteps
    <3>1. SwapInv /\ Elems(restore.swapped) \subseteq Profiles
      BY <2>1, ElementOfSeq DEF IInv, TypeInv, Restores, Elems
    <3>2. app # "rollback" =>
             \A id \in Elems(restore.swapped) : SameOrigin(disk'.logs[id], Log("backup"))
      BY <1>5, <1>8, <2>1, <3>1 DEF SwapInv
    <3>3. QED BY <1>1, <1>5, <1>9, <1>10, <1>11, <2>1, <3>1, <3>2 DEF SwapInv
  <2>2. CASE app \notin SwapSteps
    BY <1>1, <2>2 DEF SwapInv
  <2>3. QED BY <2>1, <2>2
<1>13. OldStillOnDisk => OldStillOnDisk'
  BY <1>5, <1>8, <1>9 DEF OldStillOnDisk
<1>14. NewOnDisk /\ (Before # None \/ app \in {"registry", "preferences", "done"})
       => NewOnDisk'
  <2>1. SUFFICES ASSUME NewOnDisk, Chosen \in Archives, InspectBackup(Chosen)
                 PROVE  NewOnDisk'
    BY DEF IInv, ArchiveInv
  <2>2. Chosen.listed \subseteq Profiles
    BY <2>1, ArchiveTypes
  <2>3. disk'.current = All(Chosen.databases, "backup")
    BY <1>5, <2>1 DEF NewOnDisk
  <2>4. \A id \in Chosen.listed : SameOrigin(disk'.logs[id], Log("backup"))
    BY <1>5, <1>8, <2>1, <2>2 DEF NewOnDisk
  <2>5. QED BY <1>9, <2>3, <2>4 DEF NewOnDisk, SameOrigin, Log
<1>15. CommittedInv'
  BY <1>1, <1>14 DEF IInv, CommittedInv
<1>16. FailedRestoreRollsBack'
  BY <1>1, <1>5, <1>8, <1>9 DEF IInv, EndInv, FailedRestoreRollsBack
<1>17. app \in {"failed", "closed"} => OldOrNewOnDisk'
  <2>1. ASSUME app \in {"failed", "closed"}, Before # None
        PROVE  OldStillOnDisk \/ NewOnDisk
    BY <2>1 DEF IInv, EndInv, OldOrNewOnDisk
  <2>2. ASSUME app \in {"failed", "closed"}, Before # None
        PROVE  OldStillOnDisk' \/ NewOnDisk'
    <3>1. CASE OldStillOnDisk
      BY <1>13, <3>1, Zenon
    <3>2. CASE NewOnDisk
      BY <1>14, <2>2, <3>2, Zenon
    <3>3. QED BY <2>1, <2>2, <3>1, <3>2, Zenon
  <2>3. QED BY <1>9, <2>2, Zenon DEF OldOrNewOnDisk
<1>18. QED BY <1>1, <1>6, <1>7, <1>12, <1>15, <1>16, <1>17 DEF IInv, EndInv

-----------------------------------------------------------------------------
(* Every step.                                                             *)

(* A step of nothing that the invariant speaks of keeps it. *)
LEMMA FrameStep ==
    ASSUME IInv, UNCHANGED <<app, disk, restore, ghosts, cut, written>>
    PROVE  IInv'
<1>1. TypeInv' /\ OrdinaryInv' /\ ArchiveInv' /\ app' \in Steps
  BY DEF IInv, TypeInv, OrdinaryInv, ArchiveInv, NothingSwapped, Before, Chosen
<1>2. Before' = Before /\ Chosen' = Chosen /\ UnderWay' = UnderWay /\ Databases' = Databases
  BY DEF Before, Chosen, UnderWay, ToSwap, Databases
<1>3. LogsKept' = LogsKept /\ ProfilesKept' = ProfilesKept /\ NewOnDisk' = NewOnDisk
      /\ OldStillOnDisk' = OldStillOnDisk
  BY <1>2 DEF LogsKept, ProfilesKept, NewOnDisk, OldStillOnDisk
<1>4. SwapInv'
  BY <1>2, <1>3 DEF IInv, SwapInv
<1>5. CommittedInv' /\ RegistryInv'
  BY <1>2, <1>3 DEF IInv, CommittedInv, RegistryInv
<1>6. EndInv'
  BY <1>2, <1>3 DEF IInv, EndInv, FailedRestoreRollsBack, OldOrNewOnDisk
<1>7. QED BY <1>1, <1>4, <1>5, <1>6 DEF IInv

(* The steps of a restore up to the end of the swap. *)
LEMMA RestoreSteps ==
    ASSUME IInv, Restore, UNCHANGED ghosts
    PROVE  IInv'
<1>1. CASE RestoreDataBackup BY <1>1, RestoreDataBackupStep
<1>2. CASE BackUpProfile BY <1>2, BackUpProfileStep
<1>3. CASE WriteZip BY <1>3, WriteZipStep
<1>4. CASE WriteZipFails BY <1>4, WriteZipStep
<1>5. CASE PrepareRestore BY <1>5, PrepareRestoreStep
<1>6. CASE PrepareRestoreFails BY <1>6, PrepareRestoreFailsStep
<1>7. CASE MoveOldProfiles BY <1>7, MoveOldProfilesStep
<1>8. CASE MoveNewProfiles BY <1>8, MoveNewProfilesStep
<1>9. CASE MoveOldLog BY <1>9, MoveOldLogStep
<1>10. CASE MoveNewLog BY <1>10, MoveNewLogStep
<1>11. CASE SwapFails BY <1>11, SwapFailsStep
<1>12. CASE MoveNewLogFails BY <1>12, MoveNewLogFailsStep
<1>13. CASE RollbackLog BY <1>13, RollbackLogStep
<1>14. CASE RollbackProfiles BY <1>14, RollbackProfilesStep
<1>15. CASE RollbackFails BY <1>15, RollbackFailsStep
<1>16. CASE RemoveOld BY <1>16, RemoveOldStep
<1>17. CASE ReplaceRegistry BY <1>17, ReplaceRegistryStep
<1>18. CASE ReplacePreferences BY <1>18, ReplacePreferencesStep
<1>19. CASE ReplaceFails BY <1>19, ReplaceFailsStep
<1>20. CASE RestoreHandled BY <1>20, RestoreHandledStep
<1>21. QED
  BY <1>1, <1>2, <1>3, <1>4, <1>5, <1>6, <1>7, <1>8, <1>9, <1>10, <1>11, <1>12, <1>13, <1>14,
     <1>15, <1>16, <1>17, <1>18, <1>19, <1>20 DEF Restore

(* What is listed keeps its database, or the application closes. *)
LEMMA MemoryKept ==
    ASSUME IInv, MemoryInv, UNCHANGED <<manager, cut>>, app' \notin AtWork,
           app' \in Ordinary => app \in Ordinary \ AtWork /\ disk'.current = disk.current
    PROVE  MemoryInv'
<1>1. app' \in Ordinary => Making' = {} /\ Making = {} /\ Has(disk.current)' = Has(disk.current)
  BY DEF Making, AtWork, Has
<1>2. QED BY <1>1 DEF MemoryInv, AtWork, manager

LEMMA RestoreMemory ==
    ASSUME IInv, MemoryInv, Restore, UNCHANGED manager
    PROVE  MemoryInv'
<1>1. app' \notin AtWork
  BY DEF Restore, RestoreDataBackup, BackUpProfile, WriteZip, WriteZipFails, PrepareRestore,
         PrepareRestoreFails, MoveOldProfiles, MoveNewProfiles, MoveOldLog, MoveNewLog, SwapFails,
         MoveNewLogFails, RollbackLog, RollbackProfiles, RollbackFails, RemoveOld,
         ReplaceRegistry, ReplacePreferences, ReplaceFails, RestoreHandled, Step, Fails, AtWork
<1>2. ASSUME app' \in Ordinary
      PROVE  RestoreDataBackup \/ BackUpProfile \/ WriteZip \/ WriteZipFails
             \/ (RestoreHandled /\ app = "refused")
  BY <1>2 DEF Restore, PrepareRestore, Ordinary,
         PrepareRestoreFails, MoveOldProfiles, MoveNewProfiles, MoveOldLog, MoveNewLog, SwapFails,
         MoveNewLogFails, RollbackLog, RollbackProfiles, RollbackFails, RemoveOld,
         ReplaceRegistry, ReplacePreferences, ReplaceFails, RestoreHandled, Step, Fails
<1>3. ASSUME app' \in Ordinary
      PROVE  app \in Ordinary \ AtWork /\ disk'.current = disk.current /\ UNCHANGED cut
  <2>1. disk \in Disks
    BY DEF IInv, TypeInv
  <2>2. QED BY <1>2, <1>3, <2>1 DEF RestoreDataBackup, BackUpProfile, WriteZip, WriteZipFails,
                RestoreHandled, Step, Fails, UserOp, Ordinary, AtWork, Disks
<1>4. CASE app' \in Ordinary
  BY <1>1, <1>3, <1>4, MemoryKept
<1>5. CASE app' \notin Ordinary
  BY <1>1, <1>5 DEF MemoryInv, AtWork, manager
<1>6. QED BY <1>4, <1>5

LEMMA NextInvariant == IInv /\ MemoryInv /\ [Next]_vars => IInv' /\ MemoryInv'
<1> SUFFICES ASSUME IInv, MemoryInv, [Next]_vars PROVE IInv' /\ MemoryInv'
  OBVIOUS
<1> DEFINE Kept == IInv' /\ MemoryInv'
<1>1. CASE Restore /\ UNCHANGED manager
  <2>1. UNCHANGED ghosts
    BY <1>1 DEF manager
  <2>2. QED BY <1>1, <2>1, RestoreSteps, RestoreMemory
<1>2. ASSUME NEW id \in Profiles, Start(id) PROVE Kept
  BY <1>2, StartStep
<1>3. CASE Crash
  <2>1. UNCHANGED <<ghosts, memory>> /\ app' = "closed"
    BY <1>3 DEF Crash, manager
  <2>2. MemoryInv'
    BY <2>1 DEF MemoryInv, AtWork, Ordinary
  <2>3. QED BY <1>3, <2>1, <2>2, CrashStep
<1>4. ASSUME NEW id \in NewProfiles, RegisterProfile(id) PROVE Kept
  BY <1>4, RegisterProfileStep
<1>5. CASE CreateDatabase BY <1>5, CreateDatabaseStep
<1>6. CASE SaveCreated BY <1>6, SaveCreatedStep
<1>7. CASE CreateFails BY <1>7, CreateFailsStep
<1>8. ASSUME NEW id \in Profiles, OpenProfile(id) PROVE Kept
  BY <1>8, OpenProfileStep
<1>9. ASSUME NEW id \in Profiles, DeleteProfile(id) PROVE Kept
  BY <1>9, DeleteProfileStep
<1>10. CASE SaveDeleted BY <1>10, SaveDeletedStep
<1>11. CASE RemoveDatabase BY <1>11, RemoveDatabaseStep
<1>12. CASE DeleteFails BY <1>12, DeleteFailsStep
<1>13. CASE SaveRegistry BY <1>13, SaveRegistryStep
<1>14. ASSUME NEW id \in Profiles, WorkerWrites(id) PROVE Kept
  <2>1. disk'.current = disk.current /\ disk'.registry = disk.registry
        /\ UNCHANGED <<app, cut, memory, profile, ghosts>>
    BY <1>14 DEF WorkerWrites, IInv, TypeInv, Disks, manager
  <2>2. MemoryInv'
    BY <2>1 DEF MemoryInv, Making, Has
  <2>3. QED BY <1>14, <2>2, WorkerWritesStep
<1>15. CASE WorkerStarts \/ WorkerEnds \/ UNCHANGED vars
  <2>1. UNCHANGED <<app, disk, restore, cut, written, memory, profile, ghosts>>
    BY <1>15 DEF WorkerStarts, WorkerEnds, vars, manager
  <2>2. MemoryInv'
    BY <2>1 DEF MemoryInv, Making, Has
  <2>3. QED BY <2>1, <2>2, FrameStep
<1>16. QED BY <1>1, <1>2, <1>3, <1>4, <1>5, <1>6, <1>7, <1>8, <1>9, <1>10, <1>11, <1>12, <1>13,
              <1>14, <1>15 DEF Next

LEMMA InitMemory == Init => MemoryInv
<1>1. OldProfiles \in SUBSET Profiles
  BY DEF Profiles
<1>2. Init => OldProfiles \subseteq Has(disk.current)
  BY <1>1, NoneAssumption DEF Init, Has, All, Origins
<1>3. QED BY <1>1, <1>2 DEF Init, MemoryInv, AtWork, Making

LEMMA Invariant == Spec => [](IInv /\ MemoryInv)
BY InitInvariant, InitMemory, NextInvariant, PTL DEF Spec

-----------------------------------------------------------------------------
(* The theorems.                                                           *)

(* Wherever a restore stops, by an error, a failed rollback or a crash,    *)
(* the disk holds everything it had before or everything of the backup     *)
(* (data_backup.py:764).                                                   *)
THEOREM OldOrNewStays == Spec => []OldOrNewOnDisk
<1>1. IInv => OldOrNewOnDisk
  BY OldOrNew
<1>2. QED BY <1>1, Invariant, PTL

(* A restore that fails before the swap is complete, and whose rollback    *)
(* does not fail, leaves profiles, logs and registry as they were          *)
(* (data_backup.py:782).                                                   *)
THEOREM FailureRollsBack == Spec => []FailedRestoreRollsBack
<1>1. IInv => FailedRestoreRollsBack
  BY DEF IInv, EndInv
<1>2. QED BY <1>1, Invariant, PTL

(* Unless a restore was cut short or its creation failed halfway, every    *)
(* profile of the registry of a running application has its database: what *)
(* is saved was created before and is removed after                        *)
(* (data_backup.py:193, 516; logger_core.py:318, 418).                     *)
THEOREM RegistryStaysComplete == Spec => []RegistryHasDatabases
<1>1. IInv => RegistryHasDatabases
  BY DEF IInv, RegistryInv, Databases, SwapSteps, RegistryHasDatabases
<1>2. QED BY <1>1, Invariant, PTL

-----------------------------------------------------------------------------
(* The QSOs that were acknowledged.                                        *)

LEMMA InitSaved == Init => SavedInv
  BY DEF Init, SavedInv, Due

(* Every due QSO is saved, or in a log of the registry. *)
LEMMA SavedOrRegistered ==
    ASSUME SavedInv
    PROVE  Due \subseteq Saved \union RegisteredQsos
  BY DEF SavedInv, BackingUp, Saved, RegisteredQsos

(* Once the safety backup is written and none of it is lost, nothing is. *)
LEMMA StaySaved ==
    ASSUME Due \subseteq Saved, Saved \subseteq Saved', Due' \subseteq Due, app' # "backup"
    PROVE  SavedInv'
  BY DEF SavedInv

(* At work and in between it is enough that the logs stay. *)
LEMMA StayKept ==
    ASSUME SavedInv, app' \in Between,
           Saved \subseteq Saved', RegisteredQsos \subseteq RegisteredQsos',
           Due' \subseteq Due
    PROVE  SavedInv'
<1>1. Due \subseteq Saved \union RegisteredQsos
  BY SavedOrRegistered
<1>2. Due' \subseteq (Saved \union RegisteredQsos)'
  BY <1>1
<1>3. QED BY <1>2 DEF SavedInv

(* No step of the swap needs more than that the safety backup is there. *)
LEMMA SwapKeeps ==
    ASSUME SavedInv, app \notin Between \union {"backup"},
           disk.zip' = disk.zip, UNCHANGED <<leftover, acked, orphaned>>, app' # "backup"
    PROVE  SavedInv'
<1>1. Due \subseteq Saved
  BY DEF SavedInv
<1>2. Saved' = Saved /\ Due' = Due
  BY DEF Saved, ZipQsos, Due
<1>3. QED BY <1>1, <1>2, StaySaved

LEMMA SwapSaved ==
    ASSUME IInv, SavedInv,
           \/ PrepareRestore \/ PrepareRestoreFails \/ MoveOldProfiles \/ MoveNewProfiles
           \/ MoveOldLog \/ MoveNewLog \/ SwapFails \/ MoveNewLogFails \/ RollbackLog
           \/ RollbackProfiles \/ RollbackFails \/ RemoveOld \/ ReplaceRegistry
           \/ ReplacePreferences \/ ReplaceFails
    PROVE  SavedInv'
<1>1. disk \in Disks
  BY DEF IInv, TypeInv
<1>2. UNCHANGED <<leftover, acked, orphaned>> /\ app' # "backup"
      /\ app \notin Between \union {"backup"}
  BY DEF PrepareRestore, PrepareRestoreFails, MoveOldProfiles, MoveNewProfiles, MoveOldLog,
         MoveNewLog, SwapFails, MoveNewLogFails, RollbackLog, RollbackProfiles, RollbackFails,
         RemoveOld, ReplaceRegistry, ReplacePreferences, ReplaceFails, Step, Fails, Between, AtWork
<1>3. disk'.zip = disk.zip
  BY <1>1 DEF PrepareRestore, PrepareRestoreFails, MoveOldProfiles, MoveNewProfiles, MoveOldLog,
         MoveNewLog, SwapFails, MoveNewLogFails, RollbackLog, RollbackProfiles, RollbackFails,
         RemoveOld, ReplaceRegistry, ReplacePreferences, ReplaceFails, Disks
<1>4. QED BY <1>2, <1>3, SwapKeeps

(* What the last safety backup holds is counted as left before it is       *)
(* written over.                                                           *)
LEMMA BeginSaved ==
    ASSUME IInv, SavedInv, RestoreDataBackup, UNCHANGED memory
    PROVE  SavedInv'
<1>1. /\ app = "running" /\ app' = "backup" /\ leftover' = leftover \union ZipQsos
      /\ UNCHANGED <<disk, acked, orphaned>>
  BY DEF RestoreDataBackup
<1>2. restore'.staged = {}
  BY DEF RestoreDataBackup, NoRestore
<1>3. Due' = Due /\ ZipQsos' = ZipQsos /\ \A id : QsosOf(id)' = QsosOf(id)
  BY <1>1 DEF Due, ZipQsos, QsosOf
<1>4. Due \subseteq Saved \union RegisteredQsos
  BY SavedOrRegistered
<1>5. BackingUp'
  BY <1>1, <1>2, <1>3, <1>4 DEF BackingUp, Saved, RegisteredQsos, Listed
<1>6. QED BY <1>1, <1>5 DEF SavedInv, Between, AtWork

(* A profile is copied with all that is in its log. *)
LEMMA BackUpSaved ==
    ASSUME IInv, SavedInv, BackUpProfile, UNCHANGED memory
    PROVE  SavedInv'
<1>1. PICK id \in ToBackUp :
        IF disk.current[id] = None
        THEN Step("backup", "refused") /\ UNCHANGED <<disk, restore>>
        ELSE /\ Step("backup", "backup")
             /\ restore' = [restore EXCEPT !.staged =
                  @ \union {[id |-> id, db |-> disk.current[id], log |-> disk.logs[id]]}]
             /\ UNCHANGED disk
  BY DEF BackUpProfile
<1>2. app = "backup" /\ UNCHANGED <<disk, leftover, acked, orphaned>>
  BY <1>1 DEF Step
<1>3. Due' = Due /\ ZipQsos' = ZipQsos /\ \A x : QsosOf(x)' = QsosOf(x)
  BY <1>2 DEF Due, ZipQsos, QsosOf
<1>4. CASE disk.current[id] = None
  <2>1. app' = "refused"
    BY <1>1, <1>4 DEF Step
  <2>2. QED BY <1>2, <1>3, <2>1, StayKept DEF Saved, RegisteredQsos, Listed, Between
<1>5. CASE disk.current[id] # None
  <2> DEFINE copy == [id |-> id, db |-> disk.current[id], log |-> disk.logs[id]]
  <2>1. app' = "backup" /\ restore'.staged = restore.staged \union {copy}
    BY <1>1, <1>5 DEF Step, IInv, TypeInv, Restores
  <2>2. copy.id = id /\ CopyQsos(copy) = QsosOf(id)
    BY DEF CopyQsos, QsosOf
  <2> HIDE DEF copy
  <2>3. BackingUp
    BY <1>2 DEF SavedInv, Between, AtWork
  <2>4. ASSUME NEW qso \in Due, qso \notin leftover
        PROVE  \E x \in Listed :
                 /\ qso \in QsosOf(x)
                 /\ \A c \in restore'.staged : c.id = x => qso \in CopyQsos(c)
    <3>1. PICK x \in Listed :
            /\ qso \in QsosOf(x)
            /\ \A c \in restore.staged : c.id = x => qso \in CopyQsos(c)
      BY <2>3, <2>4 DEF BackingUp
    <3>2. QED BY <2>1, <2>2, <3>1
  <2>5. BackingUp'
    BY <1>2, <1>3, <2>3, <2>4 DEF BackingUp, Listed
  <2>6. QED BY <2>1, <2>5 DEF SavedInv, Between, AtWork
<1>6. QED BY <1>4, <1>5

(* When every profile of the registry was copied, all of them are in it. *)
LEMMA WriteZipSaved ==
    ASSUME IInv, SavedInv, WriteZip
    PROVE  SavedInv'
<1>1. /\ app = "backup" /\ app' = "prepare" /\ ToBackUp = {}
      /\ disk' = [disk EXCEPT !.zip = restore.staged]
      /\ UNCHANGED <<leftover, acked, orphaned>>
  BY DEF WriteZip, Step
<1>2. disk'.zip = restore.staged /\ \A id : QsosOf(id)' = QsosOf(id)
      /\ disk'.registry = disk.registry
  BY <1>1 DEF IInv, TypeInv, Disks, QsosOf
<1>3. \A copy \in restore.staged : CopyQsos(copy) \subseteq ZipQsos'
  BY <1>2 DEF CopyQsos, ZipQsos
<1>4. BackingUp
  BY <1>1 DEF SavedInv, Between, AtWork
<1>5. ASSUME NEW qso \in Due
      PROVE  qso \in leftover \union ZipQsos'
  <2>1. SUFFICES ASSUME NEW id \in Listed,
                        \A copy \in restore.staged : copy.id = id => qso \in CopyQsos(copy)
                 PROVE  qso \in ZipQsos'
    BY <1>4 DEF BackingUp
  <2>2. PICK copy \in restore.staged : copy.id = id
    BY <1>1 DEF ToBackUp, Listed
  <2>3. QED BY <1>3, <2>1, <2>2
<1>6. Due' \subseteq Saved'
  BY <1>1, <1>5 DEF Due, Saved
<1>7. QED BY <1>1, <1>6 DEF SavedInv

(* A refused safety backup leaves everything where it is. *)
LEMMA WriteZipFailsSaved ==
    ASSUME IInv, SavedInv, WriteZipFails, UNCHANGED memory
    PROVE  SavedInv'
<1>1. app' = "refused" /\ UNCHANGED <<disk, leftover, acked, orphaned>>
  BY DEF WriteZipFails, Fails
<1>2. Saved' = Saved /\ RegisteredQsos' = RegisteredQsos /\ Due' = Due
  BY <1>1 DEF Saved, ZipQsos, RegisteredQsos, Listed, QsosOf, Due
<1>3. QED BY <1>1, <1>2, StayKept DEF Between

(* The end of a restore and a crash change no place of a QSO. *)
LEMMA EndSaved ==
    ASSUME IInv, SavedInv, RestoreHandled \/ Crash, UNCHANGED memory
    PROVE  SavedInv'
<1>1. /\ app' \in {"running", "closed"}
      /\ UNCHANGED <<disk, leftover, acked, orphaned>>
  BY DEF RestoreHandled, Crash
<1>2. Saved' = Saved /\ RegisteredQsos' = RegisteredQsos /\ Due' = Due
  BY <1>1 DEF Saved, ZipQsos, RegisteredQsos, Listed, QsosOf, Due
<1>3. QED BY <1>1, <1>2, StayKept DEF Between

-----------------------------------------------------------------------------
(* The QSOs while the application runs.                                    *)

(* No log loses a QSO when an empty one takes the place of none. *)
LEMMA KeepLogs ==
    ASSUME IInv, SavedInv, app' \in Between, leftover \subseteq leftover',
           UNCHANGED <<acked, orphaned>>, disk'.zip = disk.zip, Listed \subseteq Listed',
           \A x \in Profiles : disk.logs[x] # None => disk'.logs[x] = disk.logs[x]
    PROVE  SavedInv'
<1>1. Listed \subseteq Profiles
  BY DEF Listed, IInv, TypeInv, Disks
<1>2. \A x \in Profiles : QsosOf(x) \subseteq QsosOf(x)'
  BY DEF QsosOf
<1>3. RegisteredQsos \subseteq RegisteredQsos'
  BY <1>1, <1>2 DEF RegisteredQsos
<1>4. QED BY <1>3, StayKept DEF Saved, ZipQsos, Due

LEMMA OpeningSaved ==
    ASSUME IInv, SavedInv, NEW id \in Profiles, Start(id) \/ OpenProfile(id)
    PROVE  SavedInv'
<1>1. /\ app' = "running" /\ leftover \subseteq leftover'
      /\ UNCHANGED <<acked, orphaned>> /\ disk \in Disks
      /\ memory' = memory \/ memory' = disk.registry
  BY DEF Start, OpenProfile, Step, manager, IInv, TypeInv
<1>2. /\ Opened(id) \in Disks /\ Opened(id).registry = disk.registry
      /\ Opened(id).zip = disk.zip
      /\ \A x \in Profiles : disk.logs[x] # None => Opened(id).logs[x] = disk.logs[x]
  BY <1>1, OpenedDisk
<1>3. /\ disk'.zip = Opened(id).zip /\ disk'.registry = Opened(id).registry
      /\ disk'.logs = Opened(id).logs
  BY <1>2 DEF Start, OpenProfile, Disks
<1>4. Listed \subseteq Listed'
  BY <1>1, <1>2, <1>3 DEF Listed
<1>5. QED BY <1>1, <1>2, <1>3, <1>4, KeepLogs DEF Between

(* What is saved is all that is listed. *)
LEMMA RegistrySavedSaved ==
    ASSUME IInv, SavedInv,
           SaveRegistry \/ SaveCreated \/ CreateFails
           \/ \E id \in NewProfiles : RegisterProfile(id)
    PROVE  SavedInv'
<1>1. /\ app' \in {"running", "creating"} /\ UNCHANGED <<leftover, acked, orphaned>>
      /\ disk \in Disks /\ memory \subseteq memory'
      /\ disk' = disk \/ disk' = [disk EXCEPT !.registry = memory]
  BY DEF SaveRegistry, SaveCreated, CreateFails, RegisterProfile, Step, Fails, manager,
         IInv, TypeInv
<1>2. disk'.zip = disk.zip /\ Listed \subseteq Listed' /\ disk'.logs = disk.logs
  BY <1>1 DEF Disks, Listed
<1>3. QED BY <1>1, <1>2, KeepLogs DEF Between, AtWork

LEMMA CreateDatabaseSaved ==
    ASSUME IInv, SavedInv, CreateDatabase
    PROVE  SavedInv'
<1>1. /\ app' = "saving" /\ UNCHANGED <<leftover, acked, orphaned, memory>> /\ disk \in Disks
  BY DEF CreateDatabase, Step, manager, IInv, TypeInv
<1>2. /\ disk'.zip = disk.zip /\ disk'.registry = disk.registry
      /\ \A x \in Profiles : disk.logs[x] # None => disk'.logs[x] = disk.logs[x]
  BY <1>1 DEF CreateDatabase, Disks, MaybeLogs
<1>3. QED BY <1>1, <1>2, KeepLogs DEF Between, AtWork, Listed

(* The QSOs of a deleted log are not acknowledged any more. *)
LEMMA DeleteProfileSaved ==
    ASSUME IInv, SavedInv, NEW id \in Profiles, DeleteProfile(id)
    PROVE  SavedInv'
<1>1. /\ app = "running" /\ app' = "deleting" /\ UNCHANGED <<leftover, orphaned, memory>>
      /\ disk \in Disks /\ disk.registry \subseteq Profiles
  BY DEF DeleteProfile, IInv, TypeInv, Disks
<1>2. CASE UNCHANGED <<disk, acked>>
  BY <1>1, <1>2, KeepLogs DEF Between, AtWork, Listed
<1>3. CASE ~UNCHANGED <<disk, acked>>
  <2>1. /\ disk'.zip = disk.zip /\ disk'.registry = disk.registry
        /\ \A x \in Profiles \ {id} : disk'.logs[x] = disk.logs[x]
        /\ acked' = acked \ QsosOf(id)
    BY <1>1, <1>3 DEF DeleteProfile, Disks, MaybeLogs
  <2>2. Due' \subseteq Due \ QsosOf(id)
    BY <1>1, <2>1 DEF Due
  <2>3. RegisteredQsos \subseteq RegisteredQsos' \union QsosOf(id)
    BY <1>1, <2>1 DEF RegisteredQsos, QsosOf, Listed
  <2>4. Due' \subseteq Saved' \union RegisteredQsos'
    BY <1>1, <2>1, <2>2, <2>3, SavedOrRegistered DEF Saved, ZipQsos
  <2>5. QED BY <1>1, <2>4 DEF SavedInv, Between, AtWork
<1>4. QED BY <1>2, <1>3

(* Neither are those of a profile that is listed no longer due. *)
LEMMA UnlistSaved ==
    ASSUME IInv, SavedInv, SaveDeleted \/ DeleteFails
    PROVE  SavedInv'
<1>1. /\ app' \in {"removing", "running"} /\ UNCHANGED <<leftover, acked>> /\ disk \in Disks
      /\ Unlist \/ UNCHANGED <<memory, orphaned>>
      /\ disk' = disk \/ disk' = [disk EXCEPT !.registry = memory']
  BY DEF SaveDeleted, DeleteFails, IInv, TypeInv
<1>2. disk'.zip = disk.zip /\ disk'.logs = disk.logs
      /\ disk'.registry \in {disk.registry, memory'}
  BY <1>1 DEF Disks
<1>3. CASE UNCHANGED <<memory, orphaned>>
  BY <1>1, <1>2, <1>3, KeepLogs DEF Between, AtWork, Listed
<1>4. CASE Unlist
  <2>1. Listed \ {profile} \subseteq Listed' /\ Due' = Due \ QsosOf(profile)
    BY <1>1, <1>2, <1>4 DEF Unlist, Listed, Due
  <2>2. \A x : QsosOf(x)' = QsosOf(x)
    BY <1>2 DEF QsosOf
  <2>3. RegisteredQsos \subseteq RegisteredQsos' \union QsosOf(profile)
    BY <2>1, <2>2 DEF RegisteredQsos
  <2>4. Due' \subseteq Saved' \union RegisteredQsos'
    BY <1>1, <1>2, <2>1, <2>3, SavedOrRegistered DEF Saved, ZipQsos
  <2>5. QED BY <1>1, <2>4 DEF SavedInv, Between, AtWork
<1>5. QED BY <1>1, <1>3, <1>4

LEMMA RemoveDatabaseSaved ==
    ASSUME IInv, SavedInv, RemoveDatabase
    PROVE  SavedInv'
<1>1. /\ app' = "running" /\ UNCHANGED <<leftover, acked, orphaned, memory>>
      /\ disk'.zip = disk.zip /\ disk'.registry = disk.registry /\ disk'.logs = disk.logs
  BY DEF RemoveDatabase, Step, IInv, TypeInv, Disks
<1>2. QED BY <1>1, KeepLogs DEF Between, Listed

(* A worker only adds to a log; what it adds is due when nothing restores. *)
LEMMA WorkerWritesSaved ==
    ASSUME IInv, SavedInv, NEW own \in Profiles, WorkerWrites(own)
    PROVE  SavedInv'
<1>1. /\ UNCHANGED <<app, restore, leftover, orphaned>> /\ disk \in Disks
      /\ own \in Listed /\ memory' = memory /\ disk.logs[own] # None /\ disk.registry \subseteq Profiles
      /\ acked' = IF app = "running" THEN acked \union {written'} ELSE acked
  BY DEF WorkerWrites, InUse, Listed, manager, IInv, TypeInv, Disks
<1>2. /\ disk'.zip = disk.zip /\ disk'.registry = disk.registry
      /\ \A x \in Profiles \ {own} : disk'.logs[x] = disk.logs[x]
      /\ disk'.logs[own] = [disk.logs[own] EXCEPT !.qsos = @ \union {written'}]
  BY <1>1 DEF WorkerWrites, Disks, MaybeLogs
<1>3. /\ disk'.logs[own] # None
      /\ disk'.logs[own].qsos = disk.logs[own].qsos \union {written'}
  <2>1. disk.logs[own] \in Logs
    BY <1>1 DEF Disks, MaybeLogs
  <2>2. written' \in Nat
    BY DEF WorkerWrites, IInv, TypeInv
  <2>3. disk'.logs[own] \in Logs
           /\ disk'.logs[own].qsos = disk.logs[own].qsos \union {written'}
    BY <1>2, <2>1, <2>2 DEF Logs
  <2>4. QED BY <2>3, NoneAssumption
<1>4. /\ \A x \in Profiles : QsosOf(x) \subseteq QsosOf(x)'
      /\ written' \in QsosOf(own)'
  BY <1>1, <1>2, <1>3 DEF QsosOf
<1>5. RegisteredQsos \union {written'} \subseteq RegisteredQsos'
  BY <1>1, <1>2, <1>4 DEF RegisteredQsos, Listed
<1>6. ZipQsos' = ZipQsos /\ Saved' = Saved
  BY <1>1, <1>2 DEF Saved, ZipQsos
<1>7. CASE app = "running"
  <2>1. Due' \subseteq Due \union {written'}
    BY <1>1 DEF Due
  <2>2. Due' \subseteq Saved' \union RegisteredQsos'
    BY <1>5, <1>6, <2>1, SavedOrRegistered
  <2>3. QED BY <1>1, <1>7, <2>2 DEF SavedInv, Between
<1>8. CASE app = "backup"
  <2>1. BackingUp /\ Due' = Due
    BY <1>1, <1>8 DEF SavedInv, Between, AtWork, Due
  <2>2. BackingUp'
    BY <1>1, <1>2, <1>4, <1>6, <2>1 DEF BackingUp, Listed
  <2>3. QED BY <1>1, <1>8, <2>2 DEF SavedInv, Between, AtWork
<1>9. CASE app \notin {"running", "backup"}
  <2>1. Due' = Due
    BY <1>1, <1>9 DEF Due
  <2>2. CASE app \in Between
    BY <1>1, <1>5, <1>6, <2>1, <2>2, StayKept
  <2>3. CASE app \notin Between
    BY <1>1, <1>2, <1>9, <2>3, SwapKeeps DEF WorkerWrites
  <2>4. QED BY <2>2, <2>3
<1>10. QED BY <1>7, <1>8, <1>9

LEMMA NextSaved == IInv /\ SavedInv /\ [Next]_vars => SavedInv'
<1> SUFFICES ASSUME IInv, SavedInv, [Next]_vars
             PROVE  SavedInv'
  OBVIOUS
<1>1. CASE Restore /\ UNCHANGED manager
  <2>1. UNCHANGED memory
    BY <1>1 DEF manager
  <2>2. QED BY <1>1, <2>1, BeginSaved, BackUpSaved, WriteZipSaved, WriteZipFailsSaved, SwapSaved,
               EndSaved DEF Restore
<1>2. CASE Crash
  BY <1>2, EndSaved DEF Crash, manager
<1>3. CASE SaveRegistry \/ SaveCreated \/ CreateFails
           \/ \E id \in NewProfiles : RegisterProfile(id)
  BY <1>3, RegistrySavedSaved
<1>4. ASSUME NEW id \in Profiles,
             Start(id) \/ OpenProfile(id) \/ DeleteProfile(id) \/ WorkerWrites(id)
      PROVE  SavedInv'
  BY <1>4, OpeningSaved, DeleteProfileSaved, WorkerWritesSaved
<1>5. CASE CreateDatabase \/ SaveDeleted \/ RemoveDatabase \/ DeleteFails
  BY <1>5, CreateDatabaseSaved, UnlistSaved, RemoveDatabaseSaved
<1>6. CASE WorkerStarts \/ WorkerEnds \/ UNCHANGED vars
  <2>1. UNCHANGED <<app, disk, restore, memory, acked, orphaned, leftover>>
    BY <1>6 DEF WorkerStarts, WorkerEnds, vars, manager
  <2>2. QED BY <2>1 DEF SavedInv, BackingUp, Due, Saved, ZipQsos, RegisteredQsos, Listed, QsosOf,
                        CopyQsos, Between
<1>7. QED BY <1>1, <1>2, <1>3, <1>4, <1>5, <1>6 DEF Next

(* A QSO acknowledged before a restore is in a log, in a directory set     *)
(* aside, in a safety backup or in what an earlier restore left, whatever  *)
(* restores follow and wherever they stop: the safety backup is complete   *)
(* before the first directory moves, and a failure to write it ends the    *)
(* restore (feature_backup.py:86; docs/en/USER_GUIDE.md:136).              *)
THEOREM AcknowledgedStays == Spec => []AcknowledgedIsKept
<1>1. IInv /\ SavedInv => AcknowledgedIsKept
  <2>1. SUFFICES ASSUME IInv, SavedInv
                 PROVE  Due \subseteq OnDisk
    BY DEF AcknowledgedIsKept, Due
  <2>2. disk.registry \subseteq Profiles
    BY <2>1 DEF IInv, TypeInv, Disks
  <2>3. RegisteredQsos \subseteq QsosIn(disk.logs)
    BY <2>2 DEF RegisteredQsos, Listed, QsosOf, QsosIn, Has
  <2>4. QED BY <2>1, <2>3, SavedOrRegistered DEF OnDisk, Saved
<1>2. Spec => []SavedInv
  BY Invariant, InitSaved, NextSaved, PTL DEF Spec
<1>3. QED BY <1>1, <1>2, Invariant, PTL

=============================================================================
