----------------------------- MODULE MetadataDB -----------------------------
(***************************************************************************)
(* The synchronisation metadata of one profile (class MetadataDB of        *)
(* logger_core.py): one row for each QSO, keyed by its local id, and the   *)
(* records a sync has staged.  Every operator is the value of the table    *)
(* after one transaction.                                                  *)
(*                                                                         *)
(* A hash is the content it is computed from; what is hashed of a QSO is   *)
(* the contact (call, date, time, band) and one optional field, its text.  *)
(* The change journal is left out: nothing reads it but its own cleanup.   *)
(***************************************************************************)
EXTENDS Integers, FiniteSets

CONSTANTS
    LocalIds,     \* local ids of QSOs
    WavelogIds,   \* ids Wavelog gives to QSOs
    Contacts,     \* the contacts made on the air
    Texts,        \* values of the optional field
    Blank,        \* the value that stands for an empty field
    None          \* no row, no record, no hash

ASSUME NoneAssumption ==
    /\ WavelogIds \subseteq Nat
    /\ None \notin WavelogIds

Content == [contact : Contacts, text : Texts]

Status == {"local_only", "synced", "modified", "pending_delete", "conflict",
           "error"}

Reason == {"", "remote_deleted", "both_changed", "local_changed_during_sync"}

(* The threads that scan the log and then reconcile the index with it. *)
Scanners == {"sync", "refresh"}

(* after: the scans that began before the row was created. *)
Row == [status     : Status,
        wid        : WavelogIds \cup {None},
        base       : Content \cup {None},
        remoteBase : Content \cup {None},
        version    : Nat,
        reason     : Reason,
        after      : SUBSET Scanners]

Staged == [wid : WavelogIds, content : Content]

(* Does not note when the row was created. *)
FaultyNewRow(status, version, scanning) ==
    [status |-> status, wid |-> None, base |-> None, remoteBase |-> None,
     version |-> version, reason |-> "", after |-> {}]

NewRow(status, version, scanning) ==
    [status |-> status, wid |-> None, base |-> None, remoteBase |-> None,
     version |-> version, reason |-> "", after |-> scanning]

-----------------------------------------------------------------------------
(* A synced row whose record no longer has the synced hash is modified.    *)
(* Rows in another status stay as they are, their version included.        *)
EnsureLocal(row, content, scanning) ==
    IF row = None THEN NewRow("local_only", 1, scanning)
    ELSE IF row.status = "synced" /\ row.base \notin {None, content}
    THEN [row EXCEPT !.status = "modified", !.version = @ + 1]
    ELSE row

(* mark_pending_delete_many, for one id: a tombstone for a linked row. *)
MarkPendingDelete(row) ==
    IF row = None \/ row.wid = None THEN None
    ELSE [row EXCEPT !.status = "pending_delete", !.version = @ + 1]

(* INSERT OR IGNORE, then UPDATE.  None leaves a column as it is; the      *)
(* version of the row is never touched.                                    *)
SetStatus(row, status, wid, base, remoteBase, reason, scanning) ==
    LET old == IF row = None THEN NewRow(status, 0, scanning) ELSE row
    IN  [old EXCEPT
            !.status = status,
            !.wid = IF wid = None THEN @ ELSE wid,
            !.base = IF base = None THEN @ ELSE base,
            !.remoteBase = IF remoteBase = None THEN @ ELSE remoteBase,
            !.reason = reason]

SetSynced(row, wid, base, remoteBase, scanning) ==
    SetStatus(row, "synced", wid, base, remoteBase, "", scanning)

SetConflict(row, wid, reason, scanning) ==
    SetStatus(row, "conflict", wid, None, None, reason, scanning)

(* The text of the error is not looked at by anyone. *)
SetError(row, wid, scanning) ==
    SetStatus(row, "error", wid, None, None, "", scanning)

(* unchanged_since against a version snapshot. *)
UnchangedSince(row, version) ==
    /\ version # None
    /\ row # None
    /\ row.version = version

LinkedTo(meta, w) == {l \in LocalIds : meta[l] # None /\ meta[l].wid = w}

(* list_new_upload_candidates: rows in error are not retried blindly. *)
UploadCandidates(meta) ==
    {l \in LocalIds :
        meta[l] # None /\ meta[l].wid = None /\ meta[l].status = "local_only"}

-----------------------------------------------------------------------------
(* reconcile_index with the log a scanner has read some time ago.          *)

(* A staged write whose record is in the log is completed, unless another  *)
(* row has the link by now.                                                *)
Resolved(meta, staged, log, scanning) ==
    [l \in LocalIds |->
        IF /\ staged[l] # None
           /\ log[l] = staged[l].content
           /\ LinkedTo(meta, staged[l].wid) \subseteq {l}
        THEN SetSynced(meta[l], staged[l].wid, staged[l].content,
                       staged[l].content, scanning)
        ELSE meta[l]]

(* Takes a record that is missing from the log for a deleted one. *)
FaultyOrphan(row, scanner) ==
    IF scanner \in row.after \/ row.status = "pending_delete" THEN row
    ELSE IF row.wid = None THEN None
    ELSE [row EXCEPT !.status = "pending_delete"]

(* A row whose record is missing from the log goes if it is not linked and *)
(* is older than the scan; a linked row is never taken for a deletion.     *)
Orphan(row, scanner) ==
    IF row.wid = None /\ row.status # "pending_delete"
          /\ scanner \notin row.after
    THEN None
    ELSE row

Seen(row, scanner) ==
    IF row = None THEN None ELSE [row EXCEPT !.after = @ \ {scanner}]

Reconciled(meta, staged, log, scanner, scanning) ==
    LET resolved == Resolved(meta, staged, log, scanning)
    IN  [l \in LocalIds |->
            Seen(IF log[l] # None
                 THEN EnsureLocal(resolved[l], log[l], scanning)
                 ELSE IF resolved[l] = None THEN None
                 ELSE Orphan(resolved[l], scanner),
                 scanner)]

NothingStaged == [l \in LocalIds |-> None]
=============================================================================
