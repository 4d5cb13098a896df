------------------------------ MODULE WsjtxSync ------------------------------
(***************************************************************************)
(* The two-way merge of the local log and the log file of WSJT-X, step by  *)
(* step, while WSJT-X writes to its file and QSOs arrive by UDP or from    *)
(* the form.  Simplifications:                                             *)
(*  - a QSO is what QsoDuplicates distinguishes, and whether it is valid;  *)
(*  - the local log is a sequence of [id, qso] that LogStore appends to    *)
(*    atomically; indexed are the ids that have a metadata row, which the  *)
(*    form and the listener give a record in the step that adds it;        *)
(*  - the WSJT-X file is a sequence of readable records; torn says that it *)
(*    ends in half a record, which may spoil the record after it.          *)
(***************************************************************************)
EXTENDS QsoDuplicates, FiniteSets, SequencesExt

CONSTANTS Contacts,          \* QSOs that WSJT-X or the user may log
          ActiveStation,     \* station call of the profile
          MaxEvents,         \* bound: QSOs logged by WSJT-X and by the user
          MaxCrashes         \* bound: crashes

VARIABLES
    local, indexed,          \* the log of this program and its rows
    file, torn,              \* wsjtx_log.adi
    datagrams,               \* QSOs WSJT-X has announced by UDP
    accepting,               \* the one that was found new and is not added yet
    pc,                      \* next step of sync_wsjtx_with_local
    view,                    \* local log as last scanned
    latest,                  \* WSJT-X file as last read
    pending,                 \* QSOs to import, later those to append
    late,                    \* history: ids logged since the first scan
    raced,                   \* history: length WSJT-X added since the last read
    quiet,                   \* history: "yes" after a sync nobody disturbed
    events, crashes

(* The QSOs there may be. *)
Qso == [bucket : {q.bucket : q \in Contacts}, time : Int, freq : Int,
        station : {q.station : q \in Contacts} \union {ActiveStation}, valid : BOOLEAN]

ASSUME ContactsAssumption == Contacts \subseteq Qso

vars == <<local, indexed, file, torn, datagrams, accepting, pc, view, latest,
          pending, late, raced, quiet, events, crashes>>
syncVars == <<pc, view, latest, pending>>
worldVars == <<datagrams, accepting, events, crashes>>

Qsos(log) == [i \in DOMAIN log |-> log[i].qso]
Ids(log) == {log[i].id : i \in DOMAIN log}
NewId(log) == Len(log) + 1

Init ==
    /\ local = <<>> /\ indexed = {}
    /\ file = <<>> /\ torn = FALSE
    /\ datagrams = {} /\ accepting = {}
    /\ pc = "idle" /\ view = <<>> /\ latest = <<>> /\ pending = <<>>
    /\ late = {} /\ raced = 0 /\ quiet = "no"
    /\ events = 0 /\ crashes = 0

-----------------------------------------------------------------------------
(* What the records mean to the profile.                                   *)

BelongsToActiveStation(qso) == qso.station \in {NoStation, ActiveStation}

(* Missing station data come from the settings of the profile.             *)
NormalizeQso(qso) ==
    IF qso.station = NoStation THEN [qso EXCEPT !.station = ActiveStation] ELSE qso

ValidQso(qso) == qso.valid

Normalized(qsos) == [i \in DOMAIN qsos |-> NormalizeQso(qsos[i])]

(* The loops of the merge: those of the wanted QSOs that are not known yet,*)
(* in order, each QSO that is taken being known to the ones after it.      *)
NotYetKnownOnce(known, qsos, wanted) ==
    FoldLeft(LAMBDA taken, q :
                IF q \in wanted /\ ~Known(known, q) THEN Append(taken, q) ELSE taken,
             <<>>, qsos)

NotYetKnown(known, qsos, wanted) ==
    FoldLeft(LAMBDA taken, q :
                IF q \in wanted /\ ~Known(known \union Range(taken), q)
                THEN Append(taken, q) ELSE taken,
             <<>>, qsos)

(* A QSO belongs to the station before it is normalised iff it does after. *)
PendingImport(log, read) ==
    LET incoming == Normalized(read)
    IN  NotYetKnown(Range(Normalized(Qsos(log))), incoming,
                    {q \in Range(incoming) : BelongsToActiveStation(q) /\ ValidQso(q)})

MissingForWsjtx(log, read) ==
    LET merged == Normalized(Qsos(log))
        now    == {NormalizeQso(q) : q \in {r \in Range(read) : BelongsToActiveStation(r)}}
    IN  NotYetKnown(now, merged, {q \in Range(merged) : ValidQso(q)})

(* Appending after half a record: its declared lengths may swallow part of *)
(* the first new one, which is then not found under its own data.          *)
FilesAfterAppend(qsos) ==
    {file \o qsos} \union IF torn /\ qsos # <<>> THEN {file \o Tail(qsos)} ELSE {}

-----------------------------------------------------------------------------
(* sync_wsjtx_with_local.                                                  *)

ScanLocal ==
    /\ pc = "idle"
    /\ view' = local /\ late' = {}
    /\ quiet' = IF quiet = "yes" THEN "yes" ELSE "running"
    /\ pc' = "read"
    /\ UNCHANGED <<local, indexed, file, torn, latest, pending, raced, worldVars>>

ReadWsjtx ==
    /\ pc = "read"
    /\ latest' = file
    /\ pending' = PendingImport(view, file)
    /\ pc' = IF pending' = <<>> THEN "rescan" ELSE "add_many"
    /\ UNCHANGED <<local, indexed, file, torn, view, late, raced, quiet, worldVars>>

AddMany ==
    /\ pc = "add_many"
    /\ local' = local \o [i \in DOMAIN pending |->
                            [id |-> Len(local) + i, qso |-> pending[i],
                             by |-> "sync", besides |-> late]]
    /\ pc' = "ensure_local"
    /\ UNCHANGED <<indexed, file, torn, view, latest, pending, late, raced, quiet, worldVars>>

EnsureLocal ==
    /\ pc = "ensure_local"
    /\ indexed' = indexed \union Ids(local)
    /\ pc' = "rescan"
    /\ UNCHANGED <<local, file, torn, view, latest, pending, late, raced, quiet, worldVars>>

RescanLocal ==
    /\ pc = "rescan"
    /\ view' = local
    /\ pc' = "reread"
    /\ UNCHANGED <<local, indexed, file, torn, latest, pending, late, raced, quiet, worldVars>>

RereadWsjtx ==
    /\ pc = "reread"
    /\ latest' = file
    /\ pending' = MissingForWsjtx(view, file)
    /\ pc' = IF pending' = <<>> THEN "done" ELSE "append_records"
    /\ UNCHANGED <<local, indexed, file, torn, view, late, raced, quiet, worldVars>>

(* _append_records reads the file once more; records are not normalised.   *)
StillMissing(read, qsos) == NotYetKnown(Range(read), qsos, Range(qsos))

ReadBeforeAppend ==
    /\ pc = "append_records"
    /\ latest' = file /\ raced' = 0
    /\ pending' = StillMissing(file, pending)
    /\ pc' = IF pending' = <<>> THEN "done" ELSE "backup"
    /\ UNCHANGED <<local, indexed, file, torn, view, late, quiet, worldVars>>

(* A copy of the file that no step of the program reads again.             *)
BackupWsjtxLog ==
    /\ pc = "backup"
    /\ pc' = "append"
    /\ UNCHANGED <<local, indexed, file, torn, view, latest, pending, late, raced, quiet, worldVars>>

AppendRecords ==
    /\ pc = "append"
    /\ file' \in FilesAfterAppend(pending)
    /\ torn' = FALSE
    /\ pc' = "verify"
    /\ UNCHANGED <<local, indexed, view, latest, pending, late, raced, quiet, worldVars>>

VerifyNothing ==
    /\ pc = "verify"
    /\ pc' = "done"
    /\ UNCHANGED <<local, indexed, file, torn, view, latest, pending, late, raced, quiet, worldVars>>

VerifyAppend ==
    /\ pc = "verify"
    /\ latest' = file
    /\ pc' = IF \A i \in DOMAIN pending : Known(Range(file), pending[i]) THEN "done" ELSE "failed"
    /\ UNCHANGED <<local, indexed, file, torn, view, pending, late, raced, quiet, worldVars>>

Finish ==
    /\ pc \in {"done", "failed"}
    /\ quiet' = IF pc = "done" /\ quiet # "no" THEN "yes" ELSE "no"
    /\ pc' = "idle" /\ view' = <<>> /\ latest' = <<>> /\ pending' = <<>>
    /\ late' = {} /\ raced' = 0
    /\ UNCHANGED <<local, indexed, file, torn, worldVars>>

-----------------------------------------------------------------------------
(* The others.                                                             *)

(* besides: history, what was added behind the back of the one who logs.   *)
LogLocally(qso, who, besides) ==
    /\ local' = Append(local, [id |-> NewId(local), qso |-> qso,
                                by |-> who, besides |-> besides])
    /\ indexed' = indexed \union {NewId(local)}
    /\ late' = late \union {NewId(local)}
    /\ quiet' = "no"

(* WSJT-X appends the QSO to its file and announces it by UDP.             *)
WsjtxLogs(qso) ==
    /\ events < MaxEvents /\ events' = events + 1
    /\ file' \in FilesAfterAppend(<<qso>>) /\ torn' = FALSE
    /\ raced' = raced + Len(file') - Len(file)
    /\ datagrams' \in {datagrams, datagrams \union {qso}}
    /\ quiet' = "no"
    /\ UNCHANGED <<local, indexed, accepting, syncVars, late, crashes>>

(* _accept_udp_log_event: a QSO that is already in the log is ignored.     *)
(* Looking for it and adding it are two accesses to the log: the thread of *)
(* the merge may write between them, but no other handler runs.            *)
AcceptUdpQso(qso) ==
    /\ accepting = {}
    /\ datagrams' = datagrams \ {qso}
    /\ accepting' = IF Known(Range(Qsos(local)), NormalizeQso(qso)) THEN {}
                    ELSE {[qso |-> NormalizeQso(qso), seen |-> Ids(local)]}
    /\ UNCHANGED <<local, indexed, file, torn, syncVars, late, raced, quiet, events, crashes>>

AddUdpQso(found) ==
    /\ accepting' = {}
    /\ LogLocally(found.qso, "udp", Ids(local) \ found.seen)
    /\ UNCHANGED <<file, torn, datagrams, syncVars, raced, events, crashes>>

(* The form logs what the user enters, whether it is known or not.         *)
UserLogs(qso) ==
    /\ accepting = {}
    /\ events < MaxEvents /\ events' = events + 1
    /\ LogLocally(NormalizeQso(qso), "user", {})
    /\ UNCHANGED <<file, torn, datagrams, accepting, syncVars, raced, crashes>>

(* The process dies in a sync; while it appends, it may leave half a       *)
(* record behind the ones it has written.  After the restart the profile   *)
(* index gives every record of the log its row.                            *)
Crash ==
    /\ pc # "idle"
    /\ crashes < MaxCrashes /\ crashes' = crashes + 1
    /\ IF pc = "append"
       THEN \E n \in 0..(Len(pending) - 1), half \in BOOLEAN :
              /\ file' \in FilesAfterAppend(SubSeq(pending, 1, n))
              /\ torn' = (half \/ (torn /\ n = 0))
       ELSE UNCHANGED <<file, torn>>
    /\ pc' = "idle" /\ view' = <<>> /\ latest' = <<>> /\ pending' = <<>>
    /\ datagrams' = {} /\ accepting' = {} /\ late' = {} /\ raced' = 0 /\ quiet' = "no"
    /\ indexed' = Ids(local)
    /\ UNCHANGED <<local, events>>

-----------------------------------------------------------------------------
SyncStep ==
    \/ ScanLocal \/ ReadWsjtx \/ AddMany \/ EnsureLocal \/ RescanLocal
    \/ RereadWsjtx \/ ReadBeforeAppend \/ BackupWsjtxLog \/ AppendRecords
    \/ VerifyAppend \/ Finish

Next ==
    \/ SyncStep
    \/ \E qso \in Contacts : WsjtxLogs(qso) \/ UserLogs(qso)
    \/ \E qso \in datagrams : AcceptUdpQso(qso)
    \/ \E found \in accepting : AddUdpQso(found)
    \/ Crash

Spec == Init /\ [][Next]_vars

-----------------------------------------------------------------------------
(* Properties.                                                             *)

(* A sync that reports success has brought every valid local QSO it saw to *)
(* WSJT-X, itself or as the contact it is taken for; if nobody disturbed   *)
(* it, every QSO of this station in the WSJT-X file is in the local log;   *)
(* and every record has its metadata row (wsjtx_sync.py:482).              *)
SyncedBothWays ==
    pc = "done" =>
        /\ \A i \in DOMAIN view :
             LET q == NormalizeQso(view[i].qso)
             IN  ValidQso(q) =>
                   \E j \in DOMAIN view :
                      /\ i = j \/ SameContact(q, NormalizeQso(view[j].qso))
                      /\ Known(Range(file), NormalizeQso(view[j].qso))
        /\ quiet # "no" =>
             \A i \in DOMAIN file :
                BelongsToActiveStation(file[i]) /\ ValidQso(file[i])
                  => Known(Range(Qsos(local)), NormalizeQso(file[i]))
        /\ Ids(local) \subseteq indexed

(* Neither the sync nor the UDP listener adds a duplicate to a log, except *)
(* of a QSO that is logged between its reading and its writing             *)
(* (wsjtx_sync.py:421,516; feature_udp.py:390).                            *)
NoNewDuplicates ==
    /\ \A i, j \in DOMAIN local :
         i < j /\ SameContact(local[i].qso, local[j].qso)
           => local[j].by = "user" \/ local[i].id \in local[j].besides
    /\ pc = "append" =>
         \A i \in DOMAIN pending :
            ~Known(Range(SubSeq(file, 1, Len(file) - raced)), pending[i])

=============================================================================
