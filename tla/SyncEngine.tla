----------------------------- MODULE SyncEngine -----------------------------
(***************************************************************************)
(* Synchronisation of one profile with Wavelog: the full sync and the      *)
(* push of new QSOs (class SyncEngine of logger_core.py), the buffered     *)
(* writes of the full sync (sync_write_buffer.py), and what runs beside    *)
(* them: the worker that saves edits and deletions, the refresh of the     *)
(* logbook view, conflict resolution, and other users of Wavelog.          *)
(*                                                                         *)
(* The log is the one LogStore implements: its operations are atomic and   *)
(* durable, and a crash loses nothing of it.  So are the transactions of   *)
(* MetadataDB.  Every other step is an action of its own.  Simplifications:*)
(*  - the download is one request; rows all belong to the profile's        *)
(*    station, and the token sees all of them;                             *)
(*  - a request reaches Wavelog at most once: _request repeats it only     *)
(*    when it could not be sent, or was refused for coming too early;      *)
(*  - baselines of old versions, QSL status, xOTA and contest links and    *)
(*    the change journal are left out: they decide nothing here;           *)
(*  - an edit keeps call, date, time and band, so the contact stays.       *)
(* Operators called Faulty... are wrong on purpose, see LogStore.          *)
(***************************************************************************)
EXTENDS MetadataDB

CONSTANTS
    Starts,      \* the situations the profile may be found in
    Bounds,      \* bounds: how many steps of each kind the world takes, to choose from
    BatchSize,   \* size at which a write buffer is flushed
    Overlap      \* whether writes of the user may overlap a sync

(* What is bounded: changes by the user and by others on Wavelog, records  *)
(* lost from the log, failing requests of syncs and of the user who        *)
(* resolves a conflict, failing writes, crashes, syncs and refreshes of    *)
(* the view.                                                               *)
Kinds == {"user", "remote", "loss", "net", "resolve", "disk", "crash", "push",
          "full", "refresh", "cancel"}

ASSUME BoundAssumption ==
    /\ Bounds \subseteq [Kinds -> Nat]
    /\ BatchSize \in Nat \ {0}
    /\ Overlap \in BOOLEAN

(* A profile is found as a full sync without conflicts leaves it: what is  *)
(* linked is in the log and on Wavelog and has its baseline, and no        *)
(* deletion waits to be carried out.                                       *)
ASSUME StartsAssumption ==
    \A start \in Starts :
        /\ start.adi \in [LocalIds -> Content \cup {None}]
        /\ start.meta \in [LocalIds -> Row \cup {None}]
        /\ start.remote \in [WavelogIds -> Content \cup {None}]
        /\ \A l \in LocalIds :
              (start.meta[l] # None /\ start.meta[l].wid # None) =>
                 LET w == start.meta[l].wid IN
                 /\ start.meta[l].status # "pending_delete"
                 /\ start.meta[l].base # None
                 /\ start.adi[l] # None /\ start.remote[w] # None
                 /\ start.adi[l].contact = start.remote[w].contact

VARIABLES
    adi,       \* record of each local id in the log
    meta,      \* sync_meta
    staged,    \* sync_pending_apply
    remote,    \* QSOs on Wavelog; ids are never used twice
    writer,    \* the background write of the user, between its two steps
    indexed,   \* whether the index was reconciled since the profile was opened
    refresh,   \* the log a refresh has scanned and not yet reconciled
    job,       \* the running sync
    at,        \* where it stands
    todo,      \* what its current loop has still to look at
    locals,    \* the log as it has scanned it
    metas,     \* sync_meta as it has read it
    versions,  \* row versions before the download
    view,      \* Wavelog as it was downloaded
    buffer,    \* writes not yet flushed
    item,      \* a request that has been answered but not recorded
    left,      \* what remains of the chosen bound
    dropped,   \* history: contacts of linked records the user has deleted
    since,     \* history: the log when the running sync read the versions
    quiet      \* history: nobody interfered with the running full sync

profile == <<adi, meta, staged>>
snapshot == <<versions, since>>
reads   == <<todo, locals, metas, snapshot, view>>
running == <<job, at, reads, buffer, item>>
index   == <<indexed, refresh>>
vars    == <<profile, remote, writer, index, running, left, dropped, quiet>>

-----------------------------------------------------------------------------
Gone == [contact |-> None, text |-> None]   \* a QSO deleted on Wavelog

Live(w) == remote[w] \notin {None, Gone}

(* An id that has never been used, of ids that are given out in order. *)
NextWavelogId ==
    {w \in WavelogIds : remote[w] = None /\ \A v \in WavelogIds :
                            remote[v] = None => w <= v}

(* New ids are UUIDs: they occur nowhere. *)
FreshIds ==
    {l \in LocalIds :
        /\ adi[l] = None /\ meta[l] = None /\ staged[l] = None
        /\ locals[l] = None /\ metas[l] = None
        /\ l \notin {e.id : e \in buffer.upserts \cup buffer.deletes \cup
                                  buffer.statuses}
        /\ (writer # None => writer.id # l)
        /\ (item # None => item.id # l)
        /\ (refresh # None => refresh[l] = None)}

NoLog      == [l \in LocalIds |-> None]
NoView     == [w \in WavelogIds |-> None]
NoVersions == [l \in LocalIds |-> None]
NoBuffer   == [phase |-> "linked", upserts |-> {}, deletes |-> {},
               statuses |-> {}]

Upsert == [id : LocalIds, content : Content, wid : WavelogIds,
           checked : BOOLEAN]
Delete == [id : LocalIds, wid : WavelogIds]
Baseline == [id : LocalIds, wid : WavelogIds, base : Content,
             remoteBase : Content]
(* What is recorded of an answer. *)
Answer == [kind : {"created", "deleted", "patched"}, id : LocalIds,
           wid : WavelogIds, base : Content \cup {None},
           remoteBase : Content \cup {None}]

(* A write of the user.                                                    *)
Writer == [kind : {"edit", "delete"}, id : LocalIds, saved : BOOLEAN,
           content : Content]

(* What stands for no record, no row, no answer and no write is none.      *)
ASSUME AbsenceAssumption ==
    /\ None \notin Contacts \cup Content \cup {Gone} \cup Answer \cup Writer
    /\ None \notin Row

Places == {"idle", "scan", "reconcile", "snapshot", "fetch", "list", "linked",
           "answered", "flush", "drop", "forget", "check", "stage", "write",
           "commit", "baselines", "rescan", "relist", "unlinked", "lastscan",
           "candidates", "upload", "uploaded", "finish"}

Init ==
    /\ \E start \in Starts :
          /\ adi = start.adi
          /\ meta = start.meta
          /\ remote = start.remote
    /\ staged = NothingStaged
    /\ writer = None
    /\ indexed = FALSE /\ refresh = None
    /\ job = "none" /\ at = "idle" /\ todo = {}
    /\ locals = NoLog /\ metas = NoLog /\ versions = NoVersions
    /\ view = NoView /\ buffer = NoBuffer /\ item = None /\ since = NoLog
    /\ left \in Bounds
    /\ dropped = {}
    /\ quiet = FALSE

Spend(kind) == left[kind] > 0 /\ left' = [left EXCEPT ![kind] = @ - 1]

(* The scans whose reconciliation is still to come. *)
Scanning ==
    (IF refresh # None THEN {"refresh"} ELSE {}) \cup
    (IF at = "reconcile" THEN {"sync"} ELSE {})

(* The progress window of a full or delta sync keeps the user out. *)
Modal == job \in {"full", "delta"}

-----------------------------------------------------------------------------
(* The user. *)

(* A contact is not logged again that is in a log, or that a sync is at.   *)
Logged(contact) ==
    \/ \E l \in LocalIds, log \in {adi, locals} :
          log[l] # None /\ log[l].contact = contact
    \/ \E w \in WavelogIds, side \in {remote, view} :
          side[w] # None /\ side[w].contact = contact
    \/ writer # None /\ writer.content.contact = contact

(* New QSOs are added also by the UDP receiver, during any sync. *)
AddQso ==
    /\ Spend("user")
    /\ quiet' = FALSE
    /\ \E l \in FreshIds, c \in Content :
          /\ ~Logged(c.contact)
          /\ adi' = [adi EXCEPT ![l] = c]
          /\ meta' = [meta EXCEPT ![l] = EnsureLocal(@, c, Scanning)]
          /\ dropped' = dropped \ {c.contact}
    /\ UNCHANGED <<staged, remote, writer, index, running>>

StartWrite ==
    /\ Spend("user")
    /\ indexed
    /\ writer = None
    /\ ~Modal
    /\ Overlap \/ job = "none"
    /\ \E l \in LocalIds :
          /\ adi[l] # None
          /\ \/ \E t \in Texts \ {adi[l].text} :
                   writer' = [kind |-> "edit", id |-> l, saved |-> FALSE,
                              content |-> [adi[l] EXCEPT !.text = t]]
             \/ writer' = [kind |-> "delete", id |-> l, saved |-> FALSE,
                           content |-> adi[l]]
    /\ UNCHANGED <<profile, remote, index, running, dropped, quiet>>

(* First the log is written; store.update raises if the record is gone. *)
WriteLog ==
    /\ writer # None
    /\ ~writer.saved
    /\ quiet' = FALSE
    /\ IF adi[writer.id] = None
       THEN writer' = None /\ UNCHANGED adi
       ELSE /\ adi' = [adi EXCEPT ![writer.id] =
                          IF writer.kind = "delete" THEN None
                          ELSE writer.content]
            /\ writer' = [writer EXCEPT !.saved = TRUE]
    /\ UNCHANGED <<meta, staged, remote, index, running, left, dropped>>

IsLinked(row) == row # None /\ row.wid # None

(* Then the metadata. *)
WriteMeta ==
    /\ writer # None
    /\ writer.saved
    /\ quiet' = FALSE
    /\ meta' = [meta EXCEPT ![writer.id] =
                   IF writer.kind = "delete" THEN MarkPendingDelete(@)
                   ELSE EnsureLocal(@, writer.content, Scanning)]
    /\ writer' = None
    /\ dropped' = IF writer.kind = "delete" /\ IsLinked(meta[writer.id])
                  THEN dropped \cup {writer.content.contact} ELSE dropped
    /\ UNCHANGED <<adi, staged, remote, index, running, left>>

(* A field left empty is not sent, so Wavelog keeps its value. *)
Patched(old, new) == IF new.text = Blank THEN old ELSE new

(* resolve_conflict, in favour of the local record: it is created again if *)
(* Wavelog had deleted it, and sent to Wavelog otherwise.                  *)
KeepLocal(l) ==
    IF meta[l].reason = "remote_deleted"
    THEN \E w \in NextWavelogId :
            /\ remote' = [remote EXCEPT ![w] = adi[l]]
            /\ meta' = [meta EXCEPT ![l] =
                           SetSynced(@, w, adi[l], adi[l], Scanning)]
            /\ UNCHANGED adi
    ELSE LET w == meta[l].wid
             patched == Patched(remote[w], adi[l])
         IN  /\ Live(w)
             /\ remote' = [remote EXCEPT ![w] = patched]
             /\ meta' = [meta EXCEPT ![l] =
                            SetSynced(@, None, adi[l], patched, Scanning)]
             /\ UNCHANGED adi

(* In favour of Wavelog: the local record is deleted, or overwritten. *)
TakeWavelog(l) ==
    IF meta[l].reason = "remote_deleted"
    THEN /\ adi' = [adi EXCEPT ![l] = None]
         /\ meta' = [meta EXCEPT ![l] = None]
         /\ dropped' = dropped \cup {adi[l].contact}
         /\ UNCHANGED remote
    ELSE LET w == meta[l].wid
         IN  /\ Live(w)
             /\ adi' = [adi EXCEPT ![l] = remote[w]]
             /\ meta' = [meta EXCEPT ![l] =
                            SetSynced(@, None, remote[w], remote[w], Scanning)]
             /\ UNCHANGED <<remote, dropped>>

CanResolve(l) ==
    /\ IsLinked(meta[l]) /\ meta[l].status = "conflict"
    /\ adi[l] # None

ResolveConflict ==
    /\ indexed
    /\ ~Modal
    /\ quiet' = FALSE
    /\ \E l \in LocalIds :
          /\ CanResolve(l)
          /\ \/ KeepLocal(l) /\ UNCHANGED dropped
             \/ TakeWavelog(l)
    /\ UNCHANGED <<staged, writer, index, running, left>>

(* What KeepLocal does to Wavelog. *)
Resend(l) ==
    IF meta[l].reason = "remote_deleted"
    THEN \E w \in NextWavelogId : remote' = [remote EXCEPT ![w] = adi[l]]
    ELSE LET w == meta[l].wid
         IN  /\ Live(w)
             /\ remote' = [remote EXCEPT ![w] = Patched(remote[w], adi[l])]

(* The answer is lost, or cannot be recorded: an error is shown, the row   *)
(* stays a conflict, and nothing keeps the user from resolving it again.   *)
ResolveFails ==
    /\ indexed
    /\ ~Modal
    /\ Spend("resolve")
    /\ quiet' = FALSE
    /\ \E l \in LocalIds : CanResolve(l) /\ Resend(l)
    /\ UNCHANGED <<profile, writer, index, running, dropped>>

(* A record disappears from the log outside the application. *)
LoseRecord ==
    /\ Spend("loss")
    /\ quiet' = FALSE
    /\ \E l \in LocalIds :
          /\ adi[l] # None
          /\ adi' = [adi EXCEPT ![l] = None]
    /\ UNCHANGED <<meta, staged, remote, writer, index, running, dropped>>

(* Others change Wavelog. *)
RemoteChange ==
    /\ Spend("remote")
    /\ quiet' = FALSE
    /\ \/ \E w \in WavelogIds, t \in Texts :
             /\ Live(w)
             /\ remote[w].text # t
             /\ remote' = [remote EXCEPT ![w].text = t]
             /\ UNCHANGED dropped
       \/ \E w \in WavelogIds :
             /\ Live(w)
             /\ remote' = [remote EXCEPT ![w] = Gone]
             /\ UNCHANGED dropped
       \/ \E w \in NextWavelogId, c \in Content :
             /\ ~Logged(c.contact)
             /\ remote' = [remote EXCEPT ![w] = c]
             /\ dropped' = dropped \ {c.contact}
    /\ UNCHANGED <<profile, writer, index, running>>

-----------------------------------------------------------------------------
(* The index is reconciled when the profile is opened, before records are  *)
(* shown and before any sync, and then with each refresh of the view.      *)
(* Each time with a scan of its own.                                       *)

IndexScan ==
    /\ ~indexed
    /\ refresh = None
    /\ refresh' = adi
    /\ UNCHANGED <<profile, remote, writer, indexed, running, left, dropped,
                   quiet>>

RefreshScan ==
    /\ indexed
    /\ Spend("refresh")
    /\ refresh = None
    /\ refresh' = adi
    /\ UNCHANGED <<profile, remote, writer, indexed, running, dropped, quiet>>

RefreshReconcile ==
    /\ refresh # None
    /\ meta' = Reconciled(meta, staged, refresh, "refresh", Scanning)
    /\ staged' = NothingStaged
    /\ refresh' = None
    /\ indexed' = TRUE
    /\ UNCHANGED <<adi, remote, writer, running, left, dropped, quiet>>
-----------------------------------------------------------------------------
(* Syncs: one at a time (sync_busy), and not before the index is ready.    *)

Environment == <<writer, index, dropped>>

(* The sync goes on at a place, with what it has read and buffered. *)
Goto(place) == at' = place /\ UNCHANGED job

Stop ==
    /\ job' = "none" /\ at' = "idle" /\ todo' = {}
    /\ locals' = NoLog /\ metas' = NoLog /\ versions' = NoVersions
    /\ view' = NoView /\ buffer' = NoBuffer /\ item' = None /\ since' = NoLog

Start(kind) ==
    /\ indexed
    /\ job = "none"
    /\ Overlap \/ writer = None
    /\ job' = kind
    /\ at' = "scan"
    /\ quiet' = (kind = "full" /\ writer = None)
    /\ UNCHANGED <<profile, remote, Environment, reads, buffer, item>>

(* The timer of the online mode fires only if there is something to push. *)
StartPush == Spend("push") /\ UploadCandidates(meta) # {} /\ Start("push")

(* The pushes at startup and shutdown. *)
StartDelta == Spend("push") /\ Start("delta")

StartFull == Spend("full") /\ Start("full")

Scan(from, to) ==
    /\ at = from
    /\ locals' = adi
    /\ Goto(to)
    /\ UNCHANGED <<profile, remote, Environment, todo, metas, snapshot, view,
                   buffer, item, left, quiet>>

(* Cancellation is looked at before every item. *)
Cancel ==
    /\ job \in {"delta", "full"}
    /\ at \in {"scan", "fetch", "linked", "unlinked", "upload", "finish"}
    /\ Spend("cancel")
    /\ Stop
    /\ quiet' = FALSE
    /\ UNCHANGED <<profile, remote, Environment>>

-----------------------------------------------------------------------------
(* Uploading: push_new_only and the last loop of the full sync.            *)

(* Retries also uploads whose answer was lost. *)
FaultyPushList ==
    /\ at = "candidates"
    /\ job \in {"push", "delta"}
    /\ todo' = {l \in LocalIds : meta[l] # None /\ meta[l].wid = None
                      /\ meta[l].status \in {"local_only", "error"}}
    /\ Goto("upload")
    /\ UNCHANGED <<profile, remote, Environment, locals, metas, snapshot, view,
                   buffer, item, left, quiet>>

PushList ==
    /\ at = "candidates"
    /\ job \in {"push", "delta"}
    /\ todo' = UploadCandidates(meta)
    /\ Goto("upload")
    /\ UNCHANGED <<profile, remote, Environment, locals, metas, snapshot, view,
                   buffer, item, left, quiet>>

(* The full sync uploads all that is not linked, failed uploads included.  *)
FullList ==
    /\ at = "candidates"
    /\ job = "full"
    /\ todo' = {l \in LocalIds : meta[l] # None /\ meta[l].wid = None
                      /\ meta[l].status \in {"local_only", "error"}}
    /\ Goto("upload")
    /\ UNCHANGED <<profile, remote, Environment, locals, metas, snapshot, view,
                   buffer, item, left, quiet>>

Take(place, x) ==
    /\ at = place
    /\ x \in todo
    /\ todo' = todo \ {x}
    /\ UNCHANGED <<job, locals, metas, snapshot, view>>

UploadMissing(l) ==
    /\ Take("upload", l)
    /\ locals[l] = None
    /\ meta' = [meta EXCEPT ![l] = None]
    /\ UNCHANGED <<adi, staged, remote, Environment, at, buffer, item, left,
                   quiet>>

(* create_qso has been answered with the new id. *)
UploadCreated(l) ==
    /\ Take("upload", l)
    /\ locals[l] # None
    /\ \E w \in NextWavelogId :
          /\ remote' = [remote EXCEPT ![w] = locals[l]]
          /\ item' = [kind |-> "created", id |-> l, wid |-> w,
                      base |-> locals[l], remoteBase |-> locals[l]]
    /\ at' = "uploaded"
    /\ UNCHANGED <<profile, Environment, buffer, left, quiet>>

UploadRecorded ==
    /\ at = "uploaded"
    /\ meta' = [meta EXCEPT ![item.id] =
                   SetSynced(@, item.wid, item.base, item.remoteBase, Scanning)]
    /\ item' = None
    /\ Goto("upload")
    /\ UNCHANGED <<adi, staged, remote, Environment, reads, buffer, left,
                   quiet>>

(* The request failed, or Wavelog carried it out and the answer was lost. *)
UploadFailed(l) ==
    /\ Take("upload", l)
    /\ locals[l] # None
    /\ Spend("net")
    /\ \/ UNCHANGED remote
       \/ \E w \in NextWavelogId : remote' = [remote EXCEPT ![w] = locals[l]]
    /\ meta' = [meta EXCEPT ![l] = SetError(@, None, Scanning)]
    /\ quiet' = FALSE
    /\ UNCHANGED <<adi, staged, Environment, at, buffer, item>>

Upload ==
    \/ PushList \/ FullList \/ UploadRecorded
    \/ \E l \in LocalIds :
          UploadMissing(l) \/ UploadCreated(l) \/ UploadFailed(l)

UploadsDone ==
    /\ at = "upload"
    /\ todo = {}
    /\ IF job = "full"
       THEN Goto("finish") /\ UNCHANGED <<reads, buffer, item>>
       ELSE Stop
    /\ UNCHANGED <<profile, remote, Environment, left, quiet>>

-----------------------------------------------------------------------------
(* The full sync: what is linked already.                                  *)

SyncReconcile ==
    /\ at = "reconcile"
    /\ meta' = Reconciled(meta, staged, locals, "sync", Scanning)
    /\ staged' = NothingStaged
    /\ Goto("snapshot")
    /\ UNCHANGED <<adi, remote, Environment, reads, buffer, item, left, quiet>>

Snapshot ==
    /\ at = "snapshot"
    /\ versions' = [l \in LocalIds |->
                       IF locals[l] = None \/ meta[l] = None THEN None
                       ELSE meta[l].version]
    /\ since' = adi
    /\ Goto("fetch")
    /\ UNCHANGED <<profile, remote, Environment, todo, locals, metas, view,
                   buffer, item, left, quiet>>

Fetch ==
    /\ at = "fetch"
    /\ view' = [w \in WavelogIds |-> IF Live(w) THEN remote[w] ELSE None]
    /\ Goto("list")
    /\ UNCHANGED <<profile, remote, Environment, todo, locals, metas, snapshot,
                   buffer, item, left, quiet>>

FetchFailed ==
    /\ at = "fetch"
    /\ Spend("net")
    /\ Stop
    /\ quiet' = FALSE
    /\ UNCHANGED <<profile, remote, Environment>>

ListLinked ==
    /\ at = "list"
    /\ metas' = meta
    /\ todo' = {l \in LocalIds : IsLinked(meta[l])}
    /\ Goto("linked")
    /\ UNCHANGED <<profile, remote, Environment, locals, snapshot, view, buffer,
                   item, left, quiet>>

Pending(b) ==
    Cardinality(b.upserts) + Cardinality(b.deletes) + Cardinality(b.statuses)

(* Adds to the buffer, and flushes it when it is full. *)
Buffer(b) ==
    /\ buffer' = b
    /\ at' = IF Pending(b) >= BatchSize THEN "flush" ELSE at

LocalChanged(l) ==
    LET m == metas[l] IN
    \/ m.base \notin {None, locals[l]}
    \/ m.base = None /\ m.status \in {"modified", "error"}

RemoteChanged(l) ==
    metas[l].remoteBase \notin {None, view[metas[l].wid]}

(* Takes up the next linked row: none of these branches writes to Wavelog. *)
Linked(l) ==
    /\ Take("linked", l)
    /\ UNCHANGED <<adi, staged, remote, Environment, item, left, quiet>>

LinkedDeletedBoth(l) ==
    /\ Linked(l)
    /\ metas[l].status = "pending_delete"
    /\ view[metas[l].wid] = None
    /\ meta' = [meta EXCEPT ![l] = None]
    /\ UNCHANGED <<at, buffer>>

(* Takes the missing record for a deleted one, and forgets the row. *)
FaultyLinkedVanished(l) ==
    /\ Linked(l)
    /\ metas[l].status # "pending_delete"
    /\ locals[l] = None
    /\ meta' = [meta EXCEPT ![l] = None]
    /\ UNCHANGED <<at, buffer>>

(* The record vanished from the log: Wavelog's is restored, if there is one. *)
LinkedVanished(l) ==
    LET w == metas[l].wid IN
    /\ Linked(l)
    /\ metas[l].status # "pending_delete"
    /\ locals[l] = None
    /\ IF view[w] # None
       THEN /\ Buffer([buffer EXCEPT !.upserts = @ \cup
                          {[id |-> l, content |-> view[w], wid |-> w,
                            checked |-> FALSE]}])
            /\ UNCHANGED meta
       ELSE /\ meta' = [meta EXCEPT ![l] = None]
            /\ UNCHANGED <<at, buffer>>

Present(l) ==
    /\ metas[l].status # "pending_delete"
    /\ locals[l] # None

LinkedConflict(l) ==
    /\ Linked(l)
    /\ Present(l)
    /\ metas[l].status = "conflict"
    /\ UNCHANGED <<meta, at, buffer>>

Conflict(l, reason) ==
    /\ meta' = [meta EXCEPT ![l] =
                   SetConflict(@, metas[l].wid, reason, Scanning)]
    /\ UNCHANGED <<at, buffer>>

(* Deletes also what was changed here since the last sync. *)
FaultyLinkedRemoteDeleted(l) ==
    /\ Linked(l)
    /\ Present(l)
    /\ metas[l].status # "conflict"
    /\ view[metas[l].wid] = None
    /\ Buffer([buffer EXCEPT !.deletes = @ \cup
                   {[id |-> l, wid |-> metas[l].wid]}])
    /\ UNCHANGED meta

(* Deleted on Wavelog: deleted here too, unless it was changed here. *)
LinkedRemoteDeleted(l) ==
    /\ Linked(l)
    /\ Present(l)
    /\ metas[l].status # "conflict"
    /\ view[metas[l].wid] = None
    /\ IF LocalChanged(l) THEN Conflict(l, "remote_deleted")
       ELSE IF ~UnchangedSince(meta[l], versions[l])
       THEN Conflict(l, "local_changed_during_sync")
       ELSE /\ Buffer([buffer EXCEPT !.deletes = @ \cup
                          {[id |-> l, wid |-> metas[l].wid]}])
            /\ UNCHANGED meta

Comparable(l) ==
    /\ Present(l)
    /\ metas[l].status # "conflict"
    /\ view[metas[l].wid] # None

LinkedBothChanged(l) ==
    /\ Linked(l)
    /\ Comparable(l)
    /\ LocalChanged(l) /\ RemoteChanged(l)
    /\ Conflict(l, "both_changed")

LinkedRemoteChanged(l) ==
    LET w == metas[l].wid IN
    /\ Linked(l)
    /\ Comparable(l)
    /\ ~LocalChanged(l) /\ RemoteChanged(l)
    /\ IF ~UnchangedSince(meta[l], versions[l])
       THEN Conflict(l, "local_changed_during_sync")
       ELSE /\ Buffer([buffer EXCEPT !.upserts = @ \cup
                          {[id |-> l, content |-> view[w], wid |-> w,
                            checked |-> TRUE]}])
            /\ UNCHANGED meta

(* The baselines are refreshed. *)
LinkedUnchanged(l) ==
    LET w == metas[l].wid IN
    /\ Linked(l)
    /\ Comparable(l)
    /\ ~LocalChanged(l) /\ ~RemoteChanged(l)
    /\ Buffer([buffer EXCEPT !.statuses = @ \cup
                   {[id |-> l, wid |-> w, base |-> locals[l],
                     remoteBase |-> view[w]]}])
    /\ UNCHANGED meta

(* Requests to Wavelog: a deletion of the user, or a change made here. *)
Request(l) ==
    /\ Take("linked", l)
    /\ UNCHANGED <<adi, staged, Environment, buffer>>

ToDelete(l) ==
    metas[l].status = "pending_delete" /\ view[metas[l].wid] # None

ToPatch(l) == Comparable(l) /\ LocalChanged(l) /\ ~RemoteChanged(l)

RemoteDeleted(l) ==
    LET w == metas[l].wid IN
    /\ Request(l)
    /\ ToDelete(l)
    /\ Live(w)
    /\ remote' = [remote EXCEPT ![w] = Gone]
    /\ item' = [kind |-> "deleted", id |-> l, wid |-> w, base |-> None,
                remoteBase |-> None]
    /\ at' = "answered"
    /\ UNCHANGED <<meta, left, quiet>>

RemotePatched(l) ==
    LET w == metas[l].wid
        new == Patched(remote[w], locals[l])
    IN  /\ Request(l)
        /\ ToPatch(l)
        /\ Live(w)
        /\ remote' = [remote EXCEPT ![w] = new]
        /\ item' = [kind |-> "patched", id |-> l, wid |-> w,
                    base |-> locals[l], remoteBase |-> new]
        /\ at' = "answered"
        /\ UNCHANGED <<meta, left, quiet>>

(* The request fails, the answer is lost, or the QSO is gone meanwhile.    *)
RequestFailed(l) ==
    LET w == metas[l].wid IN
    /\ Request(l)
    /\ ToDelete(l) \/ ToPatch(l)
    /\ \/ /\ Spend("net")
          /\ \/ UNCHANGED remote
             \/ /\ Live(w)
                /\ remote' = [remote EXCEPT ![w] =
                       IF ToDelete(l) THEN Gone ELSE Patched(@, locals[l])]
       \/ ~Live(w) /\ UNCHANGED <<remote, left>>
    /\ meta' = [meta EXCEPT ![l] = SetError(@, w, Scanning)]
    /\ quiet' = FALSE
    /\ UNCHANGED <<at, item>>

Answered ==
    /\ at = "answered"
    /\ meta' = [meta EXCEPT ![item.id] =
                   IF item.kind = "deleted" THEN None
                   ELSE SetSynced(@, item.wid, item.base, item.remoteBase,
                                  Scanning)]
    /\ item' = None
    /\ Goto("linked")
    /\ UNCHANGED <<adi, staged, remote, Environment, reads, buffer, left,
                   quiet>>

LinkedDone ==
    /\ at = "linked"
    /\ todo = {}
    /\ Goto("flush")
    /\ UNCHANGED <<profile, remote, Environment, reads, buffer, item, left,
                   quiet>>

LinkedPhase ==
    \/ \E l \in LocalIds :
          \/ LinkedDeletedBoth(l) \/ LinkedVanished(l) \/ LinkedConflict(l)
          \/ LinkedRemoteDeleted(l) \/ LinkedBothChanged(l)
          \/ LinkedRemoteChanged(l) \/ LinkedUnchanged(l)
          \/ RemoteDeleted(l) \/ RemotePatched(l) \/ RequestFailed(l)
    \/ Answered \/ LinkedDone
-----------------------------------------------------------------------------
(* SyncWriteBuffer.flush.  The log is written before the metadata.         *)

Flush(from, to) ==
    /\ at = from
    /\ Goto(to)
    /\ UNCHANGED <<remote, Environment, reads, item>>

ChangedDuringSync(l) == ~UnchangedSince(meta[l], versions[l])

(* Records changed since the download become conflicts instead; entries is *)
(* what may be, checked what has been asked to be looked at.               *)
WithConflicts(entries) ==
    [l \in LocalIds |->
        LET mine == {e \in entries : e.id = l /\ ChangedDuringSync(l)}
        IN  IF mine = {} THEN meta[l]
            ELSE SetConflict(meta[l], (CHOOSE e \in mine : TRUE).wid,
                             "local_changed_during_sync", Scanning)]

FilterDeletes ==
    LET kept == {d \in buffer.deletes : ~ChangedDuringSync(d.id)}
    IN  /\ Flush("flush", IF kept = {} THEN "check" ELSE "drop")
        /\ meta' = WithConflicts(buffer.deletes)
        /\ buffer' = [buffer EXCEPT !.deletes = kept]
        /\ UNCHANGED <<adi, staged, left, quiet>>

DropRecords ==
    /\ Flush("drop", "forget")
    /\ adi' = [l \in LocalIds |->
                  IF \E d \in buffer.deletes : d.id = l THEN None ELSE adi[l]]
    /\ UNCHANGED <<meta, staged, buffer, left, quiet>>

MarkErrors(entries) ==
    meta' = [l \in LocalIds |->
                LET mine == {e \in entries : e.id = l}
                IN  IF mine = {} THEN meta[l]
                    ELSE SetError(meta[l], (CHOOSE e \in mine : TRUE).wid,
                                  Scanning)]

DropFailed ==
    /\ Flush("drop", "check")
    /\ Spend("disk")
    /\ MarkErrors(buffer.deletes)
    /\ buffer' = [buffer EXCEPT !.deletes = {}]
    /\ quiet' = FALSE
    /\ UNCHANGED <<adi, staged>>

ForgetRows ==
    /\ Flush("forget", "check")
    /\ meta' = [l \in LocalIds |->
                   IF \E d \in buffer.deletes : d.id = l THEN None ELSE meta[l]]
    /\ buffer' = [buffer EXCEPT !.deletes = {}]
    /\ UNCHANGED <<adi, staged, left, quiet>>

(* Does not look for changes made since the download. *)
FaultyFilterUpserts ==
    /\ Flush("check", IF buffer.upserts = {} THEN "baselines" ELSE "stage")
    /\ UNCHANGED <<profile, buffer, left, quiet>>

FilterUpserts ==
    LET watched == {u \in buffer.upserts : u.checked}
        kept == {u \in buffer.upserts : u.checked => ~ChangedDuringSync(u.id)}
    IN  /\ Flush("check", IF kept = {} THEN "baselines" ELSE "stage")
        /\ meta' = WithConflicts(watched)
        /\ buffer' = [buffer EXCEPT !.upserts = kept]
        /\ UNCHANGED <<adi, staged, left, quiet>>

(* Stages nothing. *)
FaultyStage ==
    /\ Flush("stage", "write")
    /\ UNCHANGED <<profile, buffer, left, quiet>>

Stage ==
    /\ Flush("stage", "write")
    /\ staged' = [l \in LocalIds |->
                     LET mine == {u \in buffer.upserts : u.id = l}
                     IN  IF mine = {} THEN staged[l]
                         ELSE LET u == CHOOSE u \in mine : TRUE
                              IN  [wid |-> u.wid, content |-> u.content]]
    /\ UNCHANGED <<adi, meta, buffer, left, quiet>>

WriteRecords ==
    /\ Flush("write", "commit")
    /\ adi' = [l \in LocalIds |->
                  LET mine == {u \in buffer.upserts : u.id = l}
                  IN  IF mine = {} THEN adi[l]
                      ELSE (CHOOSE u \in mine : TRUE).content]
    /\ UNCHANGED <<meta, staged, buffer, left, quiet>>

ClearedStaged ==
    [l \in LocalIds |->
        IF l \in {u.id : u \in buffer.upserts} THEN None ELSE staged[l]]

(* While linked rows are synced the rows get the error; later the sync ends. *)
WriteFailed ==
    /\ at = "write"
    /\ Spend("disk")
    /\ staged' = ClearedStaged
    /\ quiet' = FALSE
    /\ IF buffer.phase = "linked"
       THEN /\ MarkErrors(buffer.upserts)
            /\ Goto("baselines")
            /\ buffer' = [buffer EXCEPT !.upserts = {}]
            /\ UNCHANGED <<reads, item>>
       ELSE Stop /\ UNCHANGED meta
    /\ UNCHANGED <<adi, remote, Environment>>

(* The links and baselines, and the staged rows, in one transaction. *)
CommitRows ==
    /\ Flush("commit", "baselines")
    /\ meta' = [l \in LocalIds |->
                   LET mine == {u \in buffer.upserts : u.id = l}
                   IN  IF mine = {} THEN meta[l]
                       ELSE LET u == CHOOSE u \in mine : TRUE
                            IN  SetSynced(meta[l], u.wid, u.content, u.content,
                                          Scanning)]
    /\ staged' = ClearedStaged
    /\ buffer' = [buffer EXCEPT !.upserts = {}]
    /\ UNCHANGED <<adi, left, quiet>>

(* Takes up the loop again that has come to its end. *)
FaultyCommitBaselines ==
    /\ Flush("baselines", buffer.phase)
    /\ meta' = [l \in LocalIds |->
                   LET mine == {b \in buffer.statuses : b.id = l /\
                                  (versions[l] # None => ~ChangedDuringSync(l))}
                   IN  IF mine = {} THEN meta[l]
                       ELSE LET b == CHOOSE b \in mine : TRUE
                            IN  SetSynced(meta[l], b.wid, b.base, b.remoteBase,
                                          Scanning)]
    /\ buffer' = [buffer EXCEPT !.statuses = {}]
    /\ UNCHANGED <<adi, staged, left, quiet>>

(* Baselines of rows changed meanwhile are left to the next sync.  Then    *)
(* the loop goes on that filled the buffer, or what comes after it.        *)
CommitBaselines ==
    /\ Flush("baselines",
             IF todo # {} THEN buffer.phase
             ELSE IF buffer.phase = "linked" THEN "rescan" ELSE "lastscan")
    /\ meta' = [l \in LocalIds |->
                   LET mine == {b \in buffer.statuses : b.id = l /\
                                  (versions[l] # None => ~ChangedDuringSync(l))}
                   IN  IF mine = {} THEN meta[l]
                       ELSE LET b == CHOOSE b \in mine : TRUE
                            IN  SetSynced(meta[l], b.wid, b.base, b.remoteBase,
                                          Scanning)]
    /\ buffer' = [buffer EXCEPT !.statuses = {}]
    /\ UNCHANGED <<adi, staged, left, quiet>>

FlushBuffer ==
    \/ FilterDeletes \/ DropRecords \/ DropFailed \/ ForgetRows
    \/ FilterUpserts \/ Stage \/ WriteRecords \/ WriteFailed \/ CommitRows
    \/ CommitBaselines

-----------------------------------------------------------------------------
(* The full sync: what is on Wavelog and not linked yet.                   *)

(* Forgets which QSOs on Wavelog the linked rows account for. *)
FaultyListUnlinked ==
    /\ at = "relist"
    /\ locals' = [l \in LocalIds |->
                     IF IsLinked(meta[l]) THEN None ELSE locals[l]]
    /\ todo' = {w \in WavelogIds : view[w] # None}
    /\ buffer' = [NoBuffer EXCEPT !.phase = "unlinked"]
    /\ Goto("unlinked")
    /\ UNCHANGED <<profile, remote, Environment, metas, snapshot, view, item,
                   left, quiet>>

ListUnlinked ==
    /\ at = "relist"
    /\ locals' = [l \in LocalIds |->
                     IF IsLinked(meta[l]) THEN None ELSE locals[l]]
    /\ todo' = {w \in WavelogIds : view[w] # None} \
                  {metas[l].wid : l \in {k \in LocalIds : metas[k] # None}}
    /\ buffer' = [NoBuffer EXCEPT !.phase = "unlinked"]
    /\ Goto("unlinked")
    /\ UNCHANGED <<profile, remote, Environment, metas, snapshot, view, item,
                   left, quiet>>

Unlinked(w) ==
    /\ at = "unlinked"
    /\ w \in todo
    /\ \A v \in todo : w <= v
    /\ todo' = todo \ {w}
    /\ UNCHANGED <<profile, remote, Environment, job, metas, snapshot, view,
                   item, left, quiet>>

Matches(w) ==
    {l \in LocalIds :
        locals[l] # None /\ locals[l].contact = view[w].contact}

Incoming(l, w) ==
    Buffer([buffer EXCEPT !.upserts = @ \cup
              {[id |-> l, content |-> view[w], wid |-> w, checked |-> FALSE]}])

(* The same contact is in the log: it is linked and gets Wavelog's record. *)
Link(w) ==
    \E l \in Matches(w) : Incoming(l, w) /\ locals' = [locals EXCEPT ![l] = None]

Pull(w) ==
    /\ \E l \in FreshIds : Incoming(l, w)
    /\ UNCHANGED locals

UnlinkedItem(w) ==
    /\ Unlinked(w)
    /\ IF LinkedTo(meta, w) # {} THEN UNCHANGED <<locals, at, buffer>>
       ELSE IF Matches(w) # {} THEN Link(w)
       ELSE Pull(w)

UnlinkedDone ==
    /\ at = "unlinked"
    /\ todo = {}
    /\ Goto("flush")
    /\ UNCHANGED <<profile, remote, Environment, reads, buffer, item, left,
                   quiet>>

UnlinkedPhase ==
    \/ ListUnlinked \/ UnlinkedDone
    \/ \E w \in WavelogIds : UnlinkedItem(w)

Finish ==
    /\ at = "finish"
    /\ Stop
    /\ quiet' = FALSE
    /\ UNCHANGED <<profile, remote, Environment, left>>

-----------------------------------------------------------------------------
Crash ==
    /\ Spend("crash")
    /\ Stop
    /\ writer' = None
    /\ indexed' = FALSE
    /\ refresh' = None
    /\ quiet' = FALSE
    /\ UNCHANGED <<profile, remote, dropped>>

Scans ==
    \/ Scan("scan", IF job = "full" THEN "reconcile" ELSE "candidates")
    \/ Scan("rescan", "relist")
    \/ Scan("lastscan", "candidates")

FullSync ==
    \/ SyncReconcile \/ Snapshot \/ Fetch \/ FetchFailed \/ ListLinked
    \/ LinkedPhase \/ FlushBuffer \/ UnlinkedPhase \/ Finish

Sync == Scans \/ Upload \/ UploadsDone \/ FullSync

User == AddQso \/ StartWrite \/ ResolveConflict

Others == RemoteChange \/ ResolveFails \/ LoseRecord \/ Cancel \/ Crash

Next ==
    \/ User \/ WriteLog \/ WriteMeta
    \/ StartPush \/ StartDelta \/ StartFull \/ Sync
    \/ IndexScan \/ RefreshScan \/ RefreshReconcile \/ Others

(* The worker of a sync keeps running: its requests have time limits, and  *)
(* the locks it takes are held for one operation only.                     *)
Spec == Init /\ [][Next]_vars /\ WF_vars(Sync)

-----------------------------------------------------------------------------
(* Properties. *)

(* The engine deletes a QSO on Wavelog only because the user deleted its   *)
(* record in the application: a record that is missing from the log, for   *)
(* whatever other reason, is never taken for a deletion (reconcile_index,  *)
(* sync).                                                                  *)
RemoteDeletionsAreExplicit ==
    [][\A w \in WavelogIds :
          (Live(w) /\ remote'[w] = Gone /\ left'["remote"] = left["remote"])
             => remote[w].contact \in dropped]_vars

(* A linked QSO the user deleted does not come back, neither as the same   *)
(* record nor as one pulled from Wavelog, unless somebody logs it again.   *)
DeletionStands ==
    [][\A l \in LocalIds :
          (adi[l] = None /\ adi'[l] # None)
             => adi'[l].contact \notin dropped \cap dropped']_vars

(* No contact is on Wavelog twice: not through a retry of an upload whose  *)
(* answer was lost, not through an upload of what was pulled or linked.    *)
(* This is said of syncs: resolve_conflict creates a QSO again without     *)
(* looking for it, and after a lost answer it is there twice.              *)
NoDuplicateOnWavelog ==
    (\A bound \in Bounds : left["resolve"] = bound["resolve"]) =>
        \A v, w \in WavelogIds :
            (Live(v) /\ Live(w) /\ remote[v].contact = remote[w].contact)
               => v = w

(* A change made on Wavelog alone never becomes a conflict, also not when  *)
(* the sync that applies it is interrupted and another one follows.        *)
NoFalseConflicts ==
    (\A bound \in Bounds : left["user"] = bound["user"]) =>
        \A l \in LocalIds : meta[l] # None => meta[l].status # "conflict"

(* The record has been written to the log, and its link not yet noted. *)
Writing(l) == at = "commit" /\ \E u \in buffer.upserts : u.id = l

(* A reconciliation drops no row whose record is in the log, however old   *)
(* the scan is that it compares the rows with, but for one that the sync   *)
(* has just written and will link.                                         *)
ReconcileKeepsRows ==
    [][\A l \in LocalIds :
          (/\ adi[l] # None /\ meta[l] # None
           /\ ~Writing(l)
           /\ \/ refresh # None /\ refresh' = None
              \/ at = "reconcile" /\ at' = "snapshot")
             => meta'[l] # None]_vars

(* What the sync overwrites or deletes in the log has never been linked,   *)
(* or is what was last synchronized: a change made here is not lost        *)
(* silently.                                                               *)
ChangesHereSurvive ==
    [][\A l \in LocalIds :
          (at \in {"write", "drop"} /\ at' \notin {at, "idle"}
             /\ adi[l] # None /\ adi'[l] # adi[l])
             => (metas[l] = None \/ metas[l].wid = None
                   \/ adi[l] = metas[l].base)]_vars

(* Edits of a row give it a new version only if it was synced before.      *)
ShowsEdits(l) == metas[l].status = "synced" \/ metas[l].version # versions[l]

(* The filter of a flush lets the write or the deletion of this record     *)
(* pass.                                                                   *)
Passes(l) ==
    \/ /\ at = "check" /\ at' = "stage"
       /\ \E u \in buffer'.upserts : u.checked /\ u.id = l
    \/ /\ at = "flush" /\ at' = "drop"
       /\ \E d \in buffer'.deletes : d.id = l

(* The same while the user works on: if no edit fell between the scan of   *)
(* the log and the snapshot of the versions, none that has reached the     *)
(* metadata when its write is filtered is overwritten by it, provided the  *)
(* row shows edits.                                                        *)
RecordedEditsSurvive ==
    [][\A l \in LocalIds :
          (Passes(l) /\ since[l] = locals[l] /\ ShowsEdits(l)
             /\ adi[l] \notin {None, metas[l].base}) =>
                writer # None /\ writer.id = l]_vars

(* After a full sync nobody interfered with, log and Wavelog agree, up to  *)
(* conflicts, in both directions.                                          *)
Converged ==
    (at = "finish" /\ quiet) =>
        /\ \A l \in LocalIds :
              adi[l] # None =>
                 /\ IsLinked(meta[l])
                 /\ \/ meta[l].status = "conflict"
                    \/ remote[meta[l].wid] = adi[l]
        /\ \A w \in WavelogIds :
              Live(w) => \E l \in LinkedTo(meta, w) : adi[l] # None

(* Every sync ends, and the next one can start.                            *)
SyncEnds == (job # "none") ~> (job = "none")
=============================================================================
