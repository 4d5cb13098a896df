-------------------------- MODULE SyncEngine_proofs -------------------------
(***************************************************************************)
(* What module SyncEngine promises of the QSOs on Wavelog, that none is    *)
(* deleted there unless the user deleted its record; and of the records,   *)
(* that no reconciliation costs one its row, and that a sync overwrites    *)
(* only what it may, also when the user edits meanwhile.                   *)
(***************************************************************************)
EXTENDS SyncEngine, TLAPS

-----------------------------------------------------------------------------
(* The inductive invariant. *)

Buffers == [phase : {"linked", "unlinked"}, upserts : SUBSET Upsert,
            deletes : SUBSET Delete, statuses : SUBSET Baseline]

TypeInv ==
    /\ adi \in [LocalIds -> Content \cup {None}]
    /\ meta \in [LocalIds -> Row \cup {None}]
    /\ staged \in [LocalIds -> Staged \cup {None}]
    /\ remote \in [WavelogIds -> Content \cup {None, Gone}]
    /\ writer \in Writer \cup {None}
    /\ locals \in [LocalIds -> Content \cup {None}]
    /\ metas \in [LocalIds -> Row \cup {None}]
    /\ view \in [WavelogIds -> Content \cup {None}]
    /\ buffer \in Buffers
    /\ item \in Answer \cup {None}

(* The places a loop over linked rows passes, with the flushes of its      *)
(* buffer.                                                                 *)
FlushPlaces == {"flush", "drop", "forget", "check", "stage", "write",
                "commit", "baselines"}

(* What the loops look at: linked rows as they were read, and QSOs that    *)
(* were downloaded.  The buffer knows which loop filled it.                *)
Loops ==
    /\ job = "none" => at = "idle"
    /\ at \in {"idle", "scan", "reconcile", "snapshot", "fetch", "list",
               "linked", "answered"} => buffer.phase = "linked"
    /\ at = "unlinked" => buffer.phase = "unlinked"
    /\ (at \in FlushPlaces \cup {"linked", "answered"}
          /\ buffer.phase = "linked") =>
             \A l \in todo : l \in LocalIds /\ IsLinked(metas[l])
    /\ (at \in FlushPlaces \cup {"unlinked"}
          /\ buffer.phase = "unlinked") =>
             \A w \in todo : w \in WavelogIds /\ view[w] # None
    /\ at \in {"uploaded", "answered"} => item # None

(* A row that waits for its QSO to be deleted on Wavelog stands for a QSO  *)
(* the user deleted.                                                       *)
DeletionOf(row) ==
    (IsLinked(row) /\ row.status = "pending_delete" /\ Live(row.wid))
       => remote[row.wid].contact \in dropped

Deletions == \A l \in LocalIds : DeletionOf(meta[l]) /\ DeletionOf(metas[l])

(* Every local id belongs to one contact, wherever a record of it is,      *)
Records(con) ==
    /\ \A l \in LocalIds :
          /\ adi[l] # None => adi[l].contact = con[l]
          /\ locals[l] # None => locals[l].contact = con[l]
    /\ writer # None => writer.content.contact = con[writer.id]
    /\ \A u \in buffer.upserts : u.content.contact = con[u.id]

(* and every id of Wavelog too.                                            *)
Entries(web) ==
    \A w \in WavelogIds :
        /\ Live(w) => remote[w].contact = web[w]
        /\ view[w] # None => remote[w] # None /\ view[w].contact = web[w]

(* A local id and an id of Wavelog are joined in a row, in a staged write, *)
(* in the buffer or in an answer,                                          *)
Joined(l, w) ==
    \/ meta[l] # None /\ meta[l].wid = w
    \/ metas[l] # None /\ metas[l].wid = w
    \/ staged[l] # None /\ staged[l].wid = w
    \/ \E e \in buffer.upserts \cup buffer.deletes \cup buffer.statuses :
          e.id = l /\ e.wid = w
    \/ item # None /\ item.id = l /\ item.wid = w

(* and then they belong to the same contact.                               *)
Joins(con, web) ==
    \A l \in LocalIds, w \in WavelogIds :
        Joined(l, w) => remote[w] # None /\ con[l] = web[w]

LocalContacts == [LocalIds -> Contacts \cup {None}]
WebContacts   == [WavelogIds -> Contacts \cup {None}]

Inv(con, web) ==
    /\ TypeInv
    /\ Loops
    /\ Deletions
    /\ Records(con)
    /\ Entries(web)
    /\ Joins(con, web)

IInv == \E con \in LocalContacts, web \in WebContacts : Inv(con, web)

-----------------------------------------------------------------------------
(* Proofs of what the transactions of MetadataDB do to one row.            *)

(* A row keeps the link of the row it comes from, and waits for a deletion *)
(* only if that one did.                                                   *)
Follows(new, old) ==
    IsLinked(new) => /\ old # None /\ old.wid = new.wid
                     /\ new.status = "pending_delete" =>
                           old.status = "pending_delete"

GoesTo(row, wid) == row.wid = wid

(* The scans under way are scans.                                          *)
LEMMA ScanningType == Scanning \in SUBSET Scanners
BY DEF Scanning, Scanners

(* A new row is well-typed and not linked.                                 *)
LEMMA NewRowType ==
    ASSUME NEW status \in Status, NEW version \in Nat,
           NEW scanning \in SUBSET Scanners
    PROVE  /\ NewRow(status, version, scanning) \in Row
           /\ NewRow(status, version, scanning).wid = None
           /\ NewRow(status, version, scanning).status = status
BY DEF NewRow, Row, Reason

(* An UPDATE of status and version keeps the link.                         *)
LEMMA BumpedRow ==
    ASSUME NEW row \in Row, NEW status \in Status
    PROVE  LET new == [row EXCEPT !.status = status, !.version = @ + 1]
           IN  new \in Row /\ new.status = status /\ new.wid = row.wid
<1> DEFINE v == row.version + 1
<1>1. v \in Nat
  BY DEF Row
<1> HIDE DEF v
<1>2. LET new == [row EXCEPT !.status = status, !.version = v]
      IN  new \in Row /\ new.status = status /\ new.wid = row.wid
  BY <1>1 DEF Row
<1>3. QED BY <1>2 DEF v

(* ensure_local leaves the link of the row alone.                          *)
LEMMA EnsureLocalRow ==
    ASSUME NEW row \in Row \cup {None}, NEW content,
           NEW scanning \in SUBSET Scanners,
           NEW new, new = EnsureLocal(row, content, scanning)
    PROVE  new \in Row /\ Follows(new, row)
<1>1. CASE row = None
  BY <1>1, NewRowType DEF EnsureLocal, Follows, IsLinked, Status
<1>2. CASE row # None
  <2>1. /\ row \in Row
        /\ \/ new = row
           \/ new = [row EXCEPT !.status = "modified", !.version = @ + 1]
    BY <1>2 DEF EnsureLocal
  <2>2. "modified" \in Status
    BY DEF Status
  <2> DEFINE changed == [row EXCEPT !.status = "modified", !.version = @ + 1]
  <2>3. changed \in Row /\ changed.status = "modified" /\ changed.wid = row.wid
    BY <2>1, <2>2, BumpedRow
  <2> HIDE DEF changed
  <2>4. QED
    BY <1>2, <2>1, <2>3 DEF Follows, IsLinked, changed
<1>3. QED BY <1>1, <1>2

(* What a baseline column may hold.                                        *)
BaseColumn == Content \cup {None}

(* set_status gives the row the status, and the link if it is given one.   *)
LEMMA SetStatusRow ==
    ASSUME NEW row \in Row \cup {None},
           NEW status \in Status \ {"pending_delete"},
           NEW wid \in WavelogIds \cup {None},
           NEW base \in BaseColumn,
           NEW remoteBase \in BaseColumn,
           NEW reason \in Reason,
           NEW scanning \in SUBSET Scanners,
           NEW new,
           new = SetStatus(row, status, wid, base, remoteBase, reason,
                           scanning)
    PROVE  /\ new \in Row
           /\ new.status # "pending_delete"
           /\ wid # None => GoesTo(new, wid)
           /\ wid = None => Follows(new, row)
<1> DEFINE old == IF row = None THEN NewRow(status, 0, scanning) ELSE row
<1>1. old \in Row /\ (old.wid # None => row # None /\ row = old)
  BY NewRowType DEF Row
<1> DEFINE link   == IF wid = None THEN old.wid ELSE wid
           local  == IF base = None THEN old.base ELSE base
           web    == IF remoteBase = None THEN old.remoteBase ELSE remoteBase
           updated == [old EXCEPT !.status = status, !.wid = link,
                                  !.base = local, !.remoteBase = web,
                                  !.reason = reason]
<1>2. new = updated
  BY <1>1 DEF SetStatus, Row
<1>3. /\ link \in WavelogIds \cup {None}
      /\ local \in Content \cup {None}
      /\ web \in Content \cup {None}
  BY <1>1 DEF Row, BaseColumn
<1> HIDE DEF old, link, local, web
<1>4. /\ updated \in Row /\ updated.status = status
      /\ updated.wid = link
  BY <1>1, <1>3 DEF Row
<1> HIDE DEF updated
<1>5. QED
  BY <1>1, <1>2, <1>4 DEF Follows, IsLinked, GoesTo, old, link

(* The same for the statuses the engine sets.                              *)
LEMMA SetSyncedRow ==
    ASSUME NEW row \in Row \cup {None}, NEW wid \in WavelogIds \cup {None},
           NEW base \in BaseColumn,
           NEW remoteBase \in BaseColumn,
           NEW scanning \in SUBSET Scanners,
           NEW new, new = SetSynced(row, wid, base, remoteBase, scanning)
    PROVE  /\ new \in Row
           /\ new.status # "pending_delete"
           /\ wid # None => GoesTo(new, wid)
           /\ wid = None => Follows(new, row)
<1>1. "synced" \in Status \ {"pending_delete"} /\ "" \in Reason
  BY DEF Status, Reason
<1>2. new = SetStatus(row, "synced", wid, base, remoteBase, "", scanning)
  BY DEF SetSynced
<1>3. QED BY <1>1, <1>2, SetStatusRow

LEMMA SetConflictRow ==
    ASSUME NEW row \in Row \cup {None}, NEW wid \in WavelogIds \cup {None},
           NEW reason \in Reason, NEW scanning \in SUBSET Scanners,
           NEW new, new = SetConflict(row, wid, reason, scanning)
    PROVE  /\ new \in Row
           /\ new.status # "pending_delete"
           /\ wid # None => GoesTo(new, wid)
           /\ wid = None => Follows(new, row)
<1>1. "conflict" \in Status \ {"pending_delete"}
  BY DEF Status
<1>2. QED BY <1>1, SetStatusRow DEF SetConflict, BaseColumn

LEMMA SetErrorRow ==
    ASSUME NEW row \in Row \cup {None}, NEW wid \in WavelogIds \cup {None},
           NEW scanning \in SUBSET Scanners,
           NEW new, new = SetError(row, wid, scanning)
    PROVE  /\ new \in Row
           /\ new.status # "pending_delete"
           /\ wid # None => GoesTo(new, wid)
           /\ wid = None => Follows(new, row)
<1>1. "error" \in Status \ {"pending_delete"} /\ "" \in Reason
  BY DEF Status, Reason
<1>2. QED BY <1>1, SetStatusRow DEF SetError, BaseColumn

(* A tombstone keeps the link; a row that is not linked goes.              *)
LEMMA MarkPendingDeleteRow ==
    ASSUME NEW row \in Row \cup {None}, NEW new, new = MarkPendingDelete(row)
    PROVE  /\ new \in Row \cup {None}
           /\ IsLinked(new) => row # None /\ row.wid = new.wid
<1>1. CASE row = None \/ row.wid = None
  BY <1>1 DEF MarkPendingDelete, IsLinked
<1>2. CASE row # None /\ row.wid # None
  <2> DEFINE marked ==
               [row EXCEPT !.status = "pending_delete", !.version = @ + 1]
  <2>1. row \in Row /\ new = marked
    BY <1>2 DEF MarkPendingDelete
  <2>2. "pending_delete" \in Status
    BY DEF Status
  <2>3. marked \in Row /\ marked.wid = row.wid
    BY <2>1, <2>2, BumpedRow
  <2> HIDE DEF marked
  <2>4. QED BY <1>2, <2>1, <2>3
<1>3. QED BY <1>1, <1>2

(* A reconciliation gives a row no link but one that was staged for it.    *)
LEMMA ReconciledRow ==
    ASSUME NEW rows \in [LocalIds -> Row \cup {None}],
           NEW stage \in [LocalIds -> Staged \cup {None}],
           NEW log, NEW scanner \in Scanners,
           NEW scanning \in SUBSET Scanners, NEW l \in LocalIds,
           NEW new, new = Reconciled(rows, stage, log, scanner, scanning)[l]
    PROVE  /\ new \in Row \cup {None}
           /\ \/ Follows(new, rows[l])
              \/ /\ stage[l] # None /\ new.wid = stage[l].wid
                 /\ new.status # "pending_delete"
<1> DEFINE resolved == Resolved(rows, stage, log, scanning)
           kept == IF log[l] # None
                   THEN EnsureLocal(resolved[l], log[l], scanning)
                   ELSE IF resolved[l] = None THEN None
                   ELSE Orphan(resolved[l], scanner)
<1>1. /\ resolved[l] \in Row \cup {None}
      /\ \/ resolved[l] = rows[l]
         \/ /\ stage[l] # None
            /\ resolved[l].wid = stage[l].wid
            /\ resolved[l].status # "pending_delete"
  <2>1. CASE /\ stage[l] # None
             /\ log[l] = stage[l].content
             /\ LinkedTo(rows, stage[l].wid) \subseteq {l}
    <3>1. /\ stage[l].wid \in WavelogIds /\ stage[l].wid # None
          /\ stage[l].content \in Content
      BY <2>1, NoneAssumption DEF Staged
    <3>2. resolved[l] = SetSynced(rows[l], stage[l].wid, stage[l].content,
                                  stage[l].content, scanning)
      BY <2>1 DEF Resolved
    <3>3. /\ resolved[l] \in Row /\ GoesTo(resolved[l], stage[l].wid)
          /\ resolved[l].status # "pending_delete"
      BY <3>1, <3>2, SetSyncedRow DEF BaseColumn
    <3>4. QED BY <3>3, <2>1 DEF GoesTo
  <2>2. QED BY <2>1 DEF Resolved
<1>2. /\ kept \in Row \cup {None}
      /\ Follows(kept, resolved[l])
  BY <1>1, EnsureLocalRow DEF Orphan, Follows, IsLinked
<1>3. /\ Seen(kept, scanner) \in Row \cup {None}
      /\ Follows(Seen(kept, scanner), kept)
  BY <1>2 DEF Seen, Follows, IsLinked, Row
<1>4. new = Seen(kept, scanner)
  BY DEF Reconciled
<1>5. QED
  BY <1>1, <1>2, <1>3, <1>4 DEF Follows, IsLinked

-----------------------------------------------------------------------------
(* Proofs of what a step has to show. *)

(* Ids of Wavelog stay in use and keep their contact; nothing that was     *)
(* deleted there comes back.                                               *)
RemoteKept(web) ==
    \A w \in WavelogIds :
        /\ Live(w)' => remote'[w].contact = web[w]
        /\ remote[w] # None => remote'[w] # None /\ (Live(w)' => Live(w))
        /\ view'[w] # None => remote'[w] # None /\ view'[w].contact = web[w]

(* Linked rows agree with the contacts, and a deletion that waits has been *)
(* waiting or is one the user has asked for.                               *)
RowKept(l, new, con, web) ==
    IsLinked(new) =>
        /\ remote'[new.wid] # None /\ con[l] = web[new.wid]
        /\ new.status = "pending_delete" =>
              \/ IsLinked(meta[l]) /\ meta[l].wid = new.wid
                   /\ meta[l].status = "pending_delete"
              \/ web[new.wid] \in dropped'

RowsKept(con, web) == \A l \in LocalIds : RowKept(l, meta'[l], con, web)

(* So do the other places that join ids.                                   *)
Elsewhere(l, w) ==
    \/ staged[l] # None /\ staged[l].wid = w
    \/ \E e \in buffer.upserts \cup buffer.deletes \cup buffer.statuses :
          e.id = l /\ e.wid = w
    \/ item # None /\ item.id = l /\ item.wid = w

ElsewhereKept(con, web) ==
    \A l \in LocalIds, w \in WavelogIds :
        Elsewhere(l, w)' => remote'[w] # None /\ con[l] = web[w]

(* The rows as they were read stay, are read again, or are given up.       *)
ReadRowsKept == metas' \in {metas, meta, NoLog}

(* A contact the user deleted stays one while it is on Wavelog.            *)
DroppedKept(web) ==
    \A w \in WavelogIds :
        (Live(w)' /\ Live(w) /\ web[w] \in dropped) => web[w] \in dropped'

(* A linked row names an id of Wavelog.                                    *)
LEMMA LinkedType ==
    ASSUME NEW row \in Row \cup {None}, IsLinked(row)
    PROVE  row \in Row /\ row.wid \in WavelogIds /\ row # None
BY DEF IsLinked, Row

(* A row that follows another is kept.                                     *)
LEMMA FollowingRow ==
    ASSUME NEW con, NEW web, TypeInv, Joins(con, web), RemoteKept(web),
           NEW l \in LocalIds, NEW new \in Row \cup {None},
           Follows(new, meta[l])
    PROVE  RowKept(l, new, con, web)
<1> SUFFICES ASSUME IsLinked(new) PROVE RowKept(l, new, con, web)
  BY DEF RowKept
<1>1. new.wid \in WavelogIds
  BY LinkedType
<1>2. /\ meta[l] # None /\ meta[l].wid = new.wid
      /\ new.status = "pending_delete" => meta[l].status = "pending_delete"
  BY DEF Follows
<1>3. remote[new.wid] # None /\ con[l] = web[new.wid]
  BY <1>1, <1>2 DEF Joins, Joined
<1>4. QED
  BY <1>1, <1>2, <1>3 DEF RowKept, RemoteKept, IsLinked

(* A row that is linked to what its id was joined with is kept.            *)
LEMMA JoinedRow ==
    ASSUME NEW con, NEW web, Joins(con, web), RemoteKept(web),
           NEW l \in LocalIds, NEW w \in WavelogIds, Joined(l, w),
           NEW new, new.status # "pending_delete", GoesTo(new, w)
    PROVE  RowKept(l, new, con, web)
BY DEF RowKept, Joins, RemoteKept, GoesTo

(* Rows that are not written are kept.                                     *)
LEMMA SameRows ==
    ASSUME NEW con, NEW web, TypeInv, Joins(con, web), RemoteKept(web),
           meta' = meta
    PROVE  RowsKept(con, web)
<1>1. ASSUME NEW l \in LocalIds PROVE RowKept(l, meta'[l], con, web)
  <2>1. meta'[l] \in Row \cup {None} /\ Follows(meta'[l], meta[l])
    BY DEF TypeInv, Follows, IsLinked
  <2>2. QED BY <2>1, FollowingRow
<1>2. QED BY <1>1 DEF RowsKept

(* So are all rows when one is written that is kept.                       *)
LEMMA OneRow ==
    ASSUME NEW con, NEW web, TypeInv, Joins(con, web), RemoteKept(web),
           NEW k \in LocalIds, NEW new, meta' = [meta EXCEPT ![k] = new],
           RowKept(k, new, con, web)
    PROVE  RowsKept(con, web)
<1>1. ASSUME NEW l \in LocalIds PROVE RowKept(l, meta'[l], con, web)
  <2>1. CASE l = k
    BY <2>1 DEF TypeInv
  <2>2. CASE l # k
    <3>1. /\ meta'[l] = meta[l] /\ meta[l] \in Row \cup {None}
          /\ Follows(meta'[l], meta[l])
      BY <2>2 DEF TypeInv, Follows, IsLinked
    <3>2. QED BY <3>1, FollowingRow
  <2>3. QED BY <2>1, <2>2
<1>2. QED BY <1>1 DEF RowsKept

(* Other places that are left alone, or join no more than before.          *)
LEMMA SameElsewhere ==
    ASSUME NEW con, NEW web, Joins(con, web), RemoteKept(web),
           \A l \in LocalIds, w \in WavelogIds :
               Elsewhere(l, w)' => Joined(l, w)
    PROVE  ElsewhereKept(con, web)
BY DEF ElsewhereKept, Joins, RemoteKept

(* Together this keeps the invariant.                                      *)
LEMMA KeptStep ==
    ASSUME NEW con, NEW web, Inv(con, web), TypeInv', Loops',
           Records(con)', RemoteKept(web), RowsKept(con, web),
           ElsewhereKept(con, web), ReadRowsKept, DroppedKept(web)
    PROVE  Inv(con, web)'
<1> USE DEF Inv
<1>1. Entries(web)'
  BY DEF Entries, RemoteKept
<1>2. ASSUME NEW l \in LocalIds, NEW w \in WavelogIds, Joined(l, w)'
      PROVE  remote'[w] # None /\ con[l] = web[w]
  <2>1. CASE meta'[l] # None /\ meta'[l].wid = w
    BY <2>1, NoneAssumption DEF RowsKept, RowKept, IsLinked
  <2>2. CASE metas'[l] # None /\ metas'[l].wid = w
    <3>1. Joined(l, w)
      BY <2>2 DEF ReadRowsKept, Joined, NoLog
    <3>2. QED BY <3>1 DEF Joins, RemoteKept
  <2>3. CASE Elsewhere(l, w)'
    BY <2>3 DEF ElsewhereKept
  <2>4. QED
    BY <1>2, <2>1, <2>2, <2>3 DEF Joined, Elsewhere
<1>3. Joins(con, web)'
  BY <1>2 DEF Joins
<1>4. ASSUME NEW l \in LocalIds, NEW row, row \in {meta[l], metas[l]},
             IsLinked(row), row.status = "pending_delete", Live(row.wid)'
      PROVE  Live(row.wid) /\ row.wid \in WavelogIds
               /\ web[row.wid] \in dropped'
               /\ remote'[row.wid].contact = web[row.wid]
  <2>1. row \in Row \cup {None}
    BY <1>4 DEF TypeInv
  <2>2. row.wid \in WavelogIds /\ Joined(l, row.wid)
    BY <1>4, <2>1, LinkedType DEF Joined
  <2>3. remote[row.wid] # None
    BY <2>2 DEF Joins
  <2>4. Live(row.wid) /\ remote'[row.wid].contact = web[row.wid]
    BY <1>4, <2>2, <2>3 DEF RemoteKept
  <2>5. remote[row.wid].contact \in dropped
    BY <1>4, <2>4 DEF Deletions, DeletionOf
  <2>6. web[row.wid] \in dropped
    BY <2>2, <2>4, <2>5 DEF Entries
  <2>7. QED
    BY <1>4, <2>2, <2>4, <2>6 DEF DroppedKept
<1>5. ASSUME NEW l \in LocalIds PROVE DeletionOf(meta[l])'
  <2> SUFFICES ASSUME IsLinked(meta'[l]), meta'[l].status = "pending_delete",
                      Live(meta[l].wid)'
               PROVE  remote'[meta'[l].wid].contact \in dropped'
    BY DEF DeletionOf, IsLinked
  <2>1. meta'[l].wid \in WavelogIds
    BY LinkedType DEF TypeInv
  <2>2. CASE /\ IsLinked(meta[l]) /\ meta[l].wid = meta'[l].wid
             /\ meta[l].status = "pending_delete"
    <3>1. Live(meta'[l].wid) /\ remote'[meta'[l].wid].contact = web[meta'[l].wid]
            /\ web[meta'[l].wid] \in dropped'
      BY <1>4, <2>2 DEF Live
    <3>2. QED BY <3>1
  <2>3. CASE web[meta'[l].wid] \in dropped'
    BY <2>1, <2>3 DEF RemoteKept, Live
  <2>4. QED
    BY <2>2, <2>3 DEF RowsKept, RowKept
<1>6. ASSUME NEW l \in LocalIds PROVE DeletionOf(metas[l])'
  <2>1. CASE metas' \in {metas, meta}
    <3>1. metas'[l] \in {meta[l], metas[l]}
      BY <2>1
    <3>2. QED
      BY <1>4, <3>1 DEF DeletionOf, IsLinked
  <2>2. CASE metas' = NoLog
    BY <2>2 DEF NoLog, DeletionOf, IsLinked
  <2>3. QED BY <2>1, <2>2 DEF ReadRowsKept
<1>7. Deletions'
  BY <1>5, <1>6 DEF Deletions
<1>8. QED BY <1>1, <1>3, <1>7

-----------------------------------------------------------------------------
(* Proofs of the steps that write neither rows nor Wavelog.                *)

(* Wavelog and what was downloaded stay as they are.                       *)
LEMMA SameWeb ==
    ASSUME NEW web, Entries(web), remote' = remote, view' \in {view, NoView}
    PROVE  RemoteKept(web)
BY DEF Entries, RemoteKept, Live, NoView

(* No place joins more than before.                                        *)
LEMMA SamePlaces ==
    ASSUME NEW con, NEW web, Joins(con, web), RemoteKept(web),
           \A l \in LocalIds : staged'[l] \in {staged[l], None},
           buffer' \in {buffer, NoBuffer}, item' \in {item, None}
    PROVE  ElsewhereKept(con, web)
<1>1. ASSUME NEW l \in LocalIds, NEW w \in WavelogIds, Elsewhere(l, w)'
      PROVE  Joined(l, w)
  BY <1>1 DEF Elsewhere, Joined, NoBuffer
<1>2. QED BY <1>1, SameElsewhere

(* Such steps keep the invariant.                                          *)
LEMMA QuietStep ==
    ASSUME NEW con, NEW web, Inv(con, web), TypeInv', Loops', Records(con)',
           UNCHANGED <<meta, remote, dropped>>,
           \A l \in LocalIds : staged'[l] \in {staged[l], None},
           view' \in {view, NoView}, buffer' \in {buffer, NoBuffer},
           item' \in {item, None}, ReadRowsKept
    PROVE  Inv(con, web)'
<1> USE DEF Inv
<1>1. RemoteKept(web)
  BY SameWeb
<1>2. RowsKept(con, web) /\ ElsewhereKept(con, web)
  BY <1>1, SameRows, SamePlaces
<1>3. DroppedKept(web)
  BY DEF DroppedKept
<1>4. QED BY <1>1, <1>2, <1>3, KeptStep

(* The end of a sync gives up what it has read.                            *)
LEMMA StopStep ==
    ASSUME NEW con, NEW web, Inv(con, web), Stop,
           UNCHANGED <<adi, meta, remote, dropped>>,
           staged' \in {staged, ClearedStaged}, writer' \in {writer, None}
    PROVE  Inv(con, web)'
<1> USE DEF Inv, ClearedStaged
<1>1. TypeInv'
  BY DEF TypeInv, Stop, NoLog, NoView, NoBuffer, Buffers
<1>2. Loops'
  BY DEF Loops, Stop, NoBuffer, FlushPlaces
<1>3. Records(con)'
  BY DEF Records, Stop, NoLog, NoBuffer
<1>4. QED
  BY <1>1, <1>2, <1>3, QuietStep DEF Stop, ReadRowsKept

(* A sync starts.                                                          *)
LEMMA StartStep ==
    ASSUME NEW con, NEW web, Inv(con, web), NEW kind \in {"push", "delta", "full"},
           Start(kind)
    PROVE  Inv(con, web)'
<1> USE DEF Inv, Start, profile, Environment, index, reads, snapshot
<1>1. TypeInv' /\ Records(con)'
  BY DEF TypeInv, Records
<1>2. Loops'
  BY DEF Loops, FlushPlaces
<1>3. QED
  BY <1>1, <1>2, QuietStep DEF ReadRowsKept

(* A scan of the log.                                                      *)
LEMMA ScanStep ==
    ASSUME NEW con, NEW web, Inv(con, web), Scans
    PROVE  Inv(con, web)'
<1> USE DEF Inv, Scan, Goto, profile, Environment, index, snapshot
<1> SUFFICES ASSUME NEW from, NEW to, Scan(from, to),
                    <<from, to>> \in
                       {<<"scan", "reconcile">>, <<"scan", "candidates">>,
                        <<"rescan", "relist">>, <<"lastscan", "candidates">>}
             PROVE  Inv(con, web)'
  BY DEF Scans
<1>1. TypeInv' /\ Records(con)'
  BY DEF TypeInv, Records
<1>2. Loops'
  BY DEF Loops, FlushPlaces
<1>3. QED
  BY <1>1, <1>2, QuietStep DEF ReadRowsKept

(* The lists of what is to be uploaded and what is linked, and the ends of *)
(* the loops.                                                              *)
LEMMA ListStep ==
    ASSUME NEW con, NEW web, Inv(con, web),
           PushList \/ FullList \/ Snapshot \/ ListLinked \/ LinkedDone
             \/ UnlinkedDone
    PROVE  Inv(con, web)'
<1> USE DEF Inv, PushList, FullList, Snapshot, ListLinked, LinkedDone,
            UnlinkedDone, Goto, profile, Environment, index, snapshot, reads
<1>1. TypeInv' /\ Records(con)'
  BY DEF TypeInv, Records
<1>2. Loops'
  BY DEF Loops, FlushPlaces
<1>3. QED
  BY <1>1, <1>2, QuietStep DEF ReadRowsKept

LEMMA EndStep ==
    ASSUME NEW con, NEW web, Inv(con, web),
           Cancel \/ FetchFailed \/ UploadsDone \/ Finish \/ Crash
    PROVE  Inv(con, web)'
<1> USE DEF profile, Environment, index
<1>1. CASE Cancel \/ FetchFailed \/ Finish \/ Crash
  BY <1>1, StopStep DEF Cancel, FetchFailed, Finish, Crash
<1>2. CASE UploadsDone
  <2>1. CASE job = "full"
    <3>1. /\ at = "upload" /\ at' = "finish"
          /\ UNCHANGED <<adi, meta, staged, remote, dropped, writer, job, todo,
                         locals, metas, view, buffer, item>>
      BY <1>2, <2>1 DEF UploadsDone, Goto, reads, snapshot
    <3>2. TypeInv' /\ Records(con)'
      BY <3>1 DEF Inv, TypeInv, Records
    <3>3. Loops'
      BY <3>1 DEF Inv, Loops, FlushPlaces
    <3>4. QED
      BY <3>1, <3>2, <3>3, QuietStep DEF ReadRowsKept
  <2>2. CASE job # "full"
    BY <1>2, <2>2, StopStep DEF UploadsDone
  <2>3. QED BY <2>1, <2>2
<1>3. QED BY <1>1, <1>2

(* The download of what is on Wavelog.                                     *)
LEMMA FetchStep ==
    ASSUME NEW con, NEW web, Inv(con, web), Fetch
    PROVE  Inv(con, web)'
<1> USE DEF Inv, Fetch, Goto, profile, Environment, index, snapshot
<1>1. TypeInv' /\ Records(con)'
  BY DEF TypeInv, Records, Live
<1>2. Loops'
  BY DEF Loops, FlushPlaces
<1>3. RemoteKept(web)
  BY DEF Entries, RemoteKept, Live
<1>4. RowsKept(con, web) /\ ElsewhereKept(con, web)
  BY <1>3, SameRows, SamePlaces
<1>5. QED
  BY <1>1, <1>2, <1>3, <1>4, KeptStep DEF ReadRowsKept, DroppedKept

(* The scans of the view and the start of a write.                         *)
LEMMA BesideStep ==
    ASSUME NEW con, NEW web, Inv(con, web),
           IndexScan \/ RefreshScan \/ StartWrite \/ LoseRecord
    PROVE  Inv(con, web)'
<1> USE DEF Inv, IndexScan, RefreshScan, LoseRecord, profile, running, reads,
            snapshot, index
<1>1. TypeInv'
  <2>1. CASE StartWrite
    <3>1. PICK l \in LocalIds :
             /\ adi[l] # None
             /\ \/ \E t \in Texts \ {adi[l].text} :
                      writer' = [kind |-> "edit", id |-> l, saved |-> FALSE,
                                 content |-> [adi[l] EXCEPT !.text = t]]
                \/ writer' = [kind |-> "delete", id |-> l, saved |-> FALSE,
                              content |-> adi[l]]
      BY <2>1 DEF StartWrite
    <3>2. adi[l] \in Content
      BY <3>1 DEF TypeInv
    <3>3. \A t \in Texts : [adi[l] EXCEPT !.text = t] \in Content
      BY <3>2 DEF Content
    <3>4. writer' \in Writer
      <4>1. \A kind \in {"edit", "delete"}, content \in Content :
               [kind |-> kind, id |-> l, saved |-> FALSE,
                content |-> content] \in Writer
        BY DEF Writer
      <4>2. QED BY <3>1, <3>2, <3>3, <4>1
    <3>5. QED
      BY <2>1, <3>4 DEF TypeInv, StartWrite
  <2>2. CASE IndexScan \/ RefreshScan \/ LoseRecord
    BY <2>2 DEF TypeInv
  <2>3. QED BY <2>1, <2>2
<1>2. Loops'
  BY DEF Loops, FlushPlaces, StartWrite
<1>3. Records(con)'
  <2>1. CASE StartWrite
    BY <2>1 DEF TypeInv, Records, StartWrite, Content
  <2>2. CASE IndexScan \/ RefreshScan \/ LoseRecord
    BY <2>2 DEF Records, TypeInv
  <2>3. QED BY <2>1, <2>2
<1>4. QED
  BY <1>1, <1>2, <1>3, QuietStep DEF ReadRowsKept, StartWrite

-----------------------------------------------------------------------------
(* Proofs of the steps of the user and of others on Wavelog.               *)

(* A local id that occurs nowhere can belong to any contact,               *)
LEMMA FreshLocal ==
    ASSUME NEW con \in LocalContacts, NEW web, Inv(con, web),
           NEW l \in FreshIds, NEW c \in Contacts,
           NEW new, new = [con EXCEPT ![l] = c]
    PROVE  new \in LocalContacts /\ new[l] = c /\ Inv(new, web)
<1> USE DEF Inv
<1>1. /\ l \in LocalIds /\ adi[l] = None /\ meta[l] = None
      /\ staged[l] = None /\ locals[l] = None /\ metas[l] = None
      /\ writer # None => writer.id # l
      /\ item # None => item.id # l
      /\ \A e \in buffer.upserts \cup buffer.deletes \cup buffer.statuses :
            e.id # l
  BY DEF FreshIds
<1>2. new \in LocalContacts /\ new[l] = c /\ \A k \in LocalIds \ {l} : new[k] = con[k]
  BY <1>1 DEF LocalContacts
<1>3. Records(new)
  <2>1. writer # None => writer.id \in LocalIds \ {l}
    BY <1>1 DEF TypeInv, Writer
  <2>2. \A u \in buffer.upserts : u.id \in LocalIds \ {l}
    BY <1>1 DEF TypeInv, Upsert, Buffers
  <2>3. QED
    BY <1>1, <1>2, <2>1, <2>2 DEF Records
<1>4. Joins(new, web)
  <2>1. \A w : ~Joined(l, w)
    BY <1>1 DEF Joined
  <2>2. QED
    BY <1>2, <2>1 DEF Joins
<1>5. QED BY <1>2, <1>3, <1>4

(* and so can an id Wavelog has not given out yet.                         *)
LEMMA FreshWeb ==
    ASSUME NEW con, NEW web \in WebContacts, Inv(con, web),
           NEW w \in WavelogIds, remote[w] = None, NEW c \in Contacts,
           NEW new, new = [web EXCEPT ![w] = c]
    PROVE  new \in WebContacts /\ new[w] = c /\ Inv(con, new)
<1> USE DEF Inv
<1>1. /\ new \in WebContacts /\ new[w] = c
      /\ \A v \in WavelogIds \ {w} : new[v] = web[v]
  BY DEF WebContacts
<1>2. Entries(new)
  BY <1>1 DEF Entries, Live
<1>3. Joins(con, new)
  BY <1>1 DEF Joins
<1>4. QED BY <1>1, <1>2, <1>3

(* A QSO is logged.                                                        *)
LEMMA AddQsoStep ==
    ASSUME NEW con \in LocalContacts, NEW web \in WebContacts, Inv(con, web),
           AddQso
    PROVE  \E newCon \in LocalContacts : Inv(newCon, web)'
<1> USE DEF profile, running, reads, snapshot, index
<1>1. PICK l \in FreshIds, c \in Content :
         /\ ~Logged(c.contact)
         /\ adi' = [adi EXCEPT ![l] = c]
         /\ meta' = [meta EXCEPT ![l] = EnsureLocal(@, c, Scanning)]
         /\ dropped' = dropped \ {c.contact}
  BY DEF AddQso
<1>2. l \in LocalIds /\ c.contact \in Contacts
  BY DEF FreshIds, Content
<1> DEFINE newCon == [con EXCEPT ![l] = c.contact]
<1>3. newCon \in LocalContacts /\ newCon[l] = c.contact /\ Inv(newCon, web)
  BY <1>2, FreshLocal
<1> HIDE DEF newCon
<1> USE DEF Inv
<1>4. UNCHANGED <<staged, remote, writer, job, at, todo, locals, metas, view,
                  buffer, item>>
  BY DEF AddQso
<1> DEFINE new == EnsureLocal(meta[l], c, Scanning)
<1>5. /\ new \in Row /\ Follows(new, meta[l])
  BY <1>2, EnsureLocalRow, ScanningType DEF TypeInv
<1>6. meta' = [meta EXCEPT ![l] = new]
  BY <1>1, <1>2 DEF TypeInv
<1> HIDE DEF new
<1>7. TypeInv'
  BY <1>1, <1>2, <1>4, <1>5, <1>6 DEF TypeInv
<1>8. Loops'
  BY <1>4 DEF Loops
<1>9. Records(newCon)'
  BY <1>1, <1>2, <1>3, <1>4 DEF Records, TypeInv
<1>10. RemoteKept(web)
  BY <1>4, SameWeb
<1>11. RowsKept(newCon, web)
  BY <1>2, <1>3, <1>5, <1>6, <1>10, FollowingRow, OneRow
<1>12. ElsewhereKept(newCon, web)
  BY <1>3, <1>4, <1>10, SamePlaces
<1>13. DroppedKept(web)
  <2>1. \A w \in WavelogIds : Live(w) => web[w] # c.contact
    BY <1>1 DEF Logged, Live, Entries
  <2>2. QED BY <1>1, <2>1 DEF DroppedKept
<1>14. Inv(newCon, web)'
  BY <1>3, <1>4, <1>7, <1>8, <1>9, <1>10, <1>11, <1>12, <1>13, KeptStep
     DEF ReadRowsKept
<1>15. QED BY <1>3, <1>14

(* A change of the user is written to the log.                             *)
LEMMA WriteLogStep ==
    ASSUME NEW con, NEW web, Inv(con, web), WriteLog
    PROVE  Inv(con, web)'
<1> USE DEF Inv, WriteLog, running, reads, snapshot, index
<1>1. writer \in Writer /\ writer.id \in LocalIds /\ writer.content \in Content
  BY DEF TypeInv, Writer
<1>2. \/ writer' = None /\ adi' = adi
      \/ /\ writer' = [writer EXCEPT !.saved = TRUE]
         /\ adi' = [adi EXCEPT ![writer.id] =
                       IF writer.kind = "delete" THEN None ELSE writer.content]
  OBVIOUS
<1>3. LET saved == [writer EXCEPT !.saved = TRUE]
      IN  /\ saved \in Writer
          /\ saved.id = writer.id /\ saved.content = writer.content
  BY <1>1 DEF Writer
<1>4. TypeInv'
  BY <1>1, <1>2, <1>3 DEF TypeInv
<1>5. Loops'
  BY DEF Loops
<1>6. Records(con)'
  <2>1. \A l \in LocalIds : adi'[l] # None => adi'[l].contact = con[l]
    BY <1>1, <1>2 DEF Records, TypeInv
  <2>2. writer' # None => writer'.content.contact = con[writer'.id]
    BY <1>2, <1>3 DEF Records
  <2>3. QED
    BY <2>1, <2>2 DEF Records
<1>7. QED
  BY <1>4, <1>5, <1>6, QuietStep DEF ReadRowsKept

(* Then the row is; the contact of a linked row that is to be deleted is   *)
(* the one of its QSO on Wavelog.                                          *)
LEMMA WriteMetaStep ==
    ASSUME NEW con, NEW web, Inv(con, web), WriteMeta
    PROVE  Inv(con, web)'
<1> USE DEF Inv, running, reads, snapshot, index
<1>1. UNCHANGED <<adi, staged, remote, job, at, todo, locals, metas, view,
                  buffer, item>> /\ writer' = None
  BY DEF WriteMeta
<1>2. /\ writer # None /\ writer \in Writer /\ writer.id \in LocalIds
      /\ writer.content \in Content
  BY DEF WriteMeta, TypeInv, Writer
<1> DEFINE l == writer.id
           new == IF writer.kind = "delete" THEN MarkPendingDelete(meta[l])
                  ELSE EnsureLocal(meta[l], writer.content, Scanning)
<1>3. meta' = [meta EXCEPT ![l] = new]
  BY <1>2 DEF WriteMeta, TypeInv
<1>4. meta[l] \in Row \cup {None}
  BY <1>2 DEF TypeInv
<1>5. RemoteKept(web)
  BY <1>1, SameWeb
<1>6. new \in Row \cup {None} /\ RowKept(l, new, con, web)
  <2>1. CASE writer.kind = "delete"
    <3>1. /\ new \in Row \cup {None}
          /\ IsLinked(new) => meta[l] # None /\ meta[l].wid = new.wid
      BY <1>4, <2>1, MarkPendingDeleteRow
    <3>2. SUFFICES ASSUME IsLinked(new)
                   PROVE  /\ remote'[new.wid] # None /\ con[l] = web[new.wid]
                          /\ web[new.wid] \in dropped'
      BY <3>1 DEF RowKept
    <3>3. /\ new.wid \in WavelogIds
          /\ meta[l] # None /\ meta[l].wid = new.wid /\ IsLinked(meta[l])
      BY <3>1, <3>2, LinkedType DEF IsLinked
    <3>4. remote[new.wid] # None /\ con[l] = web[new.wid]
      BY <1>2, <3>3 DEF Joins, Joined
    <3>5. writer.content.contact = con[l]
      BY <1>2 DEF Records
    <3>6. writer.content.contact \in dropped'
      BY <2>1, <3>3 DEF WriteMeta
    <3>7. QED
      BY <1>1, <3>4, <3>5, <3>6
  <2>2. CASE writer.kind # "delete"
    <3>1. new \in Row /\ Follows(new, meta[l])
      BY <1>4, <2>2, EnsureLocalRow, ScanningType
    <3> HIDE DEF new
    <3>2. QED
      BY <1>2, <1>5, <3>1, FollowingRow
  <2>3. QED BY <2>1, <2>2
<1> HIDE DEF new
<1>7. TypeInv'
  BY <1>1, <1>3, <1>6 DEF TypeInv
<1>8. Loops' /\ Records(con)'
  BY <1>1 DEF Loops, Records
<1>9. RowsKept(con, web)
  BY <1>2, <1>3, <1>5, <1>6, OneRow
<1>10. ElsewhereKept(con, web)
  BY <1>1, <1>5, SamePlaces
<1>11. DroppedKept(web)
  BY DEF DroppedKept, WriteMeta
<1>12. QED
  BY <1>1, <1>5, <1>7, <1>8, <1>9, <1>10, <1>11, KeptStep DEF ReadRowsKept

(* A new QSO appears on Wavelog under a fresh id.                          *)
LEMMA NewEntry ==
    ASSUME NEW web, Entries(web), NEW w \in WavelogIds, NEW c \in Content,
           TypeInv, remote' = [remote EXCEPT ![w] = c], c.contact = web[w],
           remote[w] = None, view' = view
    PROVE  RemoteKept(web)
BY AbsenceAssumption DEF Entries, RemoteKept, Live, TypeInv

(* A QSO on Wavelog is changed.                                            *)
LEMMA ChangedEntry ==
    ASSUME NEW web, Entries(web), NEW w \in WavelogIds, NEW c \in Content,
           TypeInv, remote' = [remote EXCEPT ![w] = c], c.contact = web[w],
           Live(w), view' = view
    PROVE  RemoteKept(web)
BY AbsenceAssumption DEF Entries, RemoteKept, Live, TypeInv

(* A QSO on Wavelog is deleted.                                            *)
LEMMA DeletedEntry ==
    ASSUME NEW web, Entries(web), NEW w \in WavelogIds,
           TypeInv, remote' = [remote EXCEPT ![w] = Gone], view' = view
    PROVE  RemoteKept(web)
BY AbsenceAssumption DEF Entries, RemoteKept, Live, TypeInv

(* What a patch leaves on Wavelog is a record of the same contact.         *)
LEMMA PatchedContent ==
    ASSUME NEW old \in Content, NEW new \in Content, old.contact = new.contact
    PROVE  Patched(old, new) \in Content /\ Patched(old, new).contact = old.contact
BY DEF Patched

(* The linked row l of a live QSO: both records are of one contact.        *)
LEMMA SameContact ==
    ASSUME NEW con, NEW web, Inv(con, web), NEW l \in LocalIds,
           NEW w \in WavelogIds, Joined(l, w)
    PROVE  /\ remote[w] # None /\ con[l] = web[w]
           /\ Live(w) => remote[w] \in Content /\ remote[w].contact = con[l]
           /\ view[w] # None => view[w] \in Content /\ view[w].contact = con[l]
BY DEF Inv, Joins, Entries, Live, TypeInv

(* The step that keeps the rows but one, with what it joins elsewhere.     *)
LEMMA OneRowStep ==
    ASSUME NEW con, NEW web, Inv(con, web), RemoteKept(web),
           NEW l \in LocalIds, NEW new \in Row \cup {None},
           meta' = [meta EXCEPT ![l] = new], RowKept(l, new, con, web),
           UNCHANGED <<staged, view, metas, locals, buffer, writer>>,
           item' \in {item, None},
           adi' \in [LocalIds -> Content \cup {None}],
           remote' \in [WavelogIds -> Content \cup {None, Gone}],
           \A k \in LocalIds : adi'[k] # None => adi'[k].contact = con[k],
           Loops', DroppedKept(web)
    PROVE  Inv(con, web)'
<1> USE DEF Inv
<1>1. TypeInv'
  BY DEF TypeInv
<1>2. Records(con)'
  BY DEF Records
<1>3. RowsKept(con, web)
  BY OneRow
<1>4. ElsewhereKept(con, web)
  BY SamePlaces
<1>5. QED
  BY <1>1, <1>2, <1>3, <1>4, KeptStep DEF ReadRowsKept

(* The user resolves a conflict.                                           *)
LEMMA ResolveConflictStep ==
    ASSUME NEW con \in LocalContacts, NEW web \in WebContacts, Inv(con, web),
           ResolveConflict
    PROVE  \E newWeb \in WebContacts : Inv(con, newWeb)'
<1> USE DEF Inv, running, reads, snapshot, index
<1>1. PICK l \in LocalIds : /\ CanResolve(l)
                             /\ \/ KeepLocal(l) /\ UNCHANGED dropped
                                \/ TakeWavelog(l)
  BY DEF ResolveConflict
<1>2. UNCHANGED <<staged, writer, job, at, todo, locals, metas, view, buffer,
                  item>>
  BY DEF ResolveConflict
<1>3. /\ meta[l] \in Row /\ meta[l].wid \in WavelogIds
      /\ Joined(l, meta[l].wid)
      /\ adi[l] \in Content /\ adi[l].contact = con[l]
  BY <1>1, LinkedType DEF CanResolve, IsLinked, Joined, TypeInv, Records
<1> DEFINE w == meta[l].wid
<1>4. Loops'
  BY <1>2 DEF Loops
<1>5. CASE KeepLocal(l) /\ UNCHANGED dropped
             /\ meta[l].reason = "remote_deleted"
  <2>1. PICK v \in NextWavelogId :
           /\ remote' = [remote EXCEPT ![v] = adi[l]]
           /\ meta' = [meta EXCEPT ![l] =
                          SetSynced(@, v, adi[l], adi[l], Scanning)]
    BY <1>5 DEF KeepLocal
  <2>2. v \in WavelogIds /\ remote[v] = None
    BY DEF NextWavelogId
  <2>3. PICK c \in Contacts : c = adi[l].contact
    BY <1>3 DEF Content
  <2> DEFINE newWeb == [web EXCEPT ![v] = c]
             new == SetSynced(meta[l], v, adi[l], adi[l], Scanning)
  <2>4. /\ newWeb \in WebContacts /\ newWeb[v] = adi[l].contact
        /\ Inv(con, newWeb)
    BY <2>2, <2>3, FreshWeb
  <2> HIDE DEF newWeb
  <2>5. new \in Row /\ new.status # "pending_delete" /\ GoesTo(new, v)
    BY <1>3, <2>2, ScanningType, NoneAssumption, SetSyncedRow DEF BaseColumn
  <2>6. meta' = [meta EXCEPT ![l] = new]
    BY <2>1, <1>3 DEF TypeInv
  <2> HIDE DEF new
  <2>7. RemoteKept(newWeb)
    BY <1>2, <1>3, <2>1, <2>2, <2>4, NewEntry
  <2>8. RowKept(l, new, con, newWeb)
    BY <1>3, <2>1, <2>2, <2>4, <2>5, AbsenceAssumption
       DEF RowKept, GoesTo, TypeInv
  <2>9. adi' = adi /\ dropped' = dropped
    BY <1>5 DEF KeepLocal
  <2>10. Inv(con, newWeb)'
    <3>1. DroppedKept(newWeb)
      BY <2>9 DEF DroppedKept
    <3>2. remote' \in [WavelogIds -> Content \cup {None, Gone}]
      BY <1>3, <2>1, <2>2 DEF TypeInv
    <3>3. QED
      BY <1>2, <1>4, <2>4, <2>5, <2>6, <2>7, <2>8, <2>9, <3>1, <3>2, OneRowStep
         DEF TypeInv, Records
  <2>11. QED BY <2>4, <2>10
<1>6. CASE KeepLocal(l) /\ UNCHANGED dropped
             /\ meta[l].reason # "remote_deleted"
  <2> DEFINE patched == Patched(remote[w], adi[l])
             new == SetSynced(meta[l], None, adi[l], patched, Scanning)
  <2>1. /\ Live(w) /\ adi' = adi
        /\ remote' = [remote EXCEPT ![w] = patched]
        /\ meta' = [meta EXCEPT ![l] = new]
    BY <1>3, <1>6 DEF KeepLocal, TypeInv
  <2>2. remote[w] \in Content /\ remote[w].contact = con[l] /\ con[l] = web[w]
    BY <1>3, <2>1, SameContact
  <2>3. patched \in Content /\ patched.contact = web[w]
    BY <1>3, <2>2, PatchedContent
  <2> HIDE DEF patched
  <2>4. new \in Row /\ Follows(new, meta[l])
    BY <1>3, <2>3, ScanningType, SetSyncedRow DEF BaseColumn
  <2> HIDE DEF new
  <2>5. RemoteKept(web)
    BY <1>2, <1>3, <2>1, <2>3, ChangedEntry
  <2>6. RowKept(l, new, con, web)
    BY <2>4, <2>5, FollowingRow
  <2>7. remote' \in [WavelogIds -> Content \cup {None, Gone}]
    BY <1>3, <2>1, <2>3 DEF TypeInv
  <2>8. dropped' = dropped
    BY <1>6
  <2>9. DroppedKept(web)
    BY <2>8 DEF DroppedKept
  <2>10. Inv(con, web)'
    BY <1>2, <1>4, <2>1, <2>4, <2>5, <2>6, <2>7, <2>9, OneRowStep
       DEF TypeInv, Records
  <2>11. QED BY <2>10
<1>7. CASE TakeWavelog(l)
  <2>1. DroppedKept(web)
    BY <1>7 DEF TakeWavelog, DroppedKept
  <2>2. remote' = remote
    BY <1>7 DEF TakeWavelog
  <2>3. RemoteKept(web)
    BY <1>2, <2>2, SameWeb
  <2>4. CASE meta[l].reason = "remote_deleted"
    <3>1. /\ adi' = [adi EXCEPT ![l] = None]
          /\ meta' = [meta EXCEPT ![l] = None]
      BY <1>7, <2>4 DEF TakeWavelog
    <3>2. RowKept(l, None, con, web)
      BY DEF RowKept, IsLinked
    <3>3. /\ adi' \in [LocalIds -> Content \cup {None}]
          /\ \A k \in LocalIds : adi'[k] # None => adi'[k].contact = con[k]
      BY <3>1 DEF TypeInv, Records
    <3>4. QED
      BY <1>2, <1>4, <2>1, <2>2, <2>3, <3>1, <3>2, <3>3, OneRowStep DEF TypeInv
  <2>5. CASE meta[l].reason # "remote_deleted"
    <3> DEFINE new == SetSynced(meta[l], None, remote[w], remote[w], Scanning)
    <3>1. /\ Live(w) /\ adi' = [adi EXCEPT ![l] = remote[w]]
          /\ meta' = [meta EXCEPT ![l] = new]
      BY <1>3, <1>7, <2>5 DEF TakeWavelog, TypeInv
    <3>2. remote[w] \in Content /\ remote[w].contact = con[l]
      BY <1>3, <3>1, SameContact
    <3>3. new \in Row /\ Follows(new, meta[l])
      BY <1>3, <3>2, ScanningType, SetSyncedRow DEF BaseColumn
    <3> HIDE DEF new
    <3>4. RowKept(l, new, con, web)
      BY <2>3, <3>3, FollowingRow
    <3>5. /\ adi' \in [LocalIds -> Content \cup {None}]
          /\ \A k \in LocalIds : adi'[k] # None => adi'[k].contact = con[k]
      BY <3>1, <3>2 DEF TypeInv, Records
    <3>6. QED
      BY <1>2, <1>4, <2>1, <2>2, <2>3, <3>1, <3>3, <3>4, <3>5, OneRowStep
         DEF TypeInv
  <2>6. QED BY <2>4, <2>5
<1>8. QED BY <1>1, <1>5, <1>6, <1>7

(* Others change, delete or add a QSO on Wavelog.                          *)
LEMMA RemoteChangeStep ==
    ASSUME NEW con \in LocalContacts, NEW web \in WebContacts, Inv(con, web),
           RemoteChange
    PROVE  \E newWeb \in WebContacts : Inv(con, newWeb)'
<1> USE DEF Inv, profile, running, reads, snapshot, index
<1>1. UNCHANGED <<adi, meta, staged, writer, job, at, todo, locals, metas, view,
                  buffer, item>>
  BY DEF RemoteChange
<1>2. Loops' /\ Records(con)'
  BY <1>1 DEF Loops, Records
<1>3. ASSUME NEW newWeb, Inv(con, newWeb), RemoteKept(newWeb),
             remote' \in [WavelogIds -> Content \cup {None, Gone}],
             DroppedKept(newWeb)
      PROVE  Inv(con, newWeb)'
  <2>1. TypeInv'
    BY <1>1, <1>3 DEF TypeInv
  <2>2. RowsKept(con, newWeb) /\ ElsewhereKept(con, newWeb)
    BY <1>1, <1>3, SameRows, SamePlaces
  <2>3. QED
    BY <1>1, <1>2, <1>3, <2>1, <2>2, KeptStep DEF ReadRowsKept
<1>4. ASSUME NEW w \in WavelogIds, NEW t \in Texts, Live(w),
             remote' = [remote EXCEPT ![w].text = t], UNCHANGED dropped
      PROVE  Inv(con, web)'
  <2> DEFINE c == [remote[w] EXCEPT !.text = t]
  <2>1. remote[w] \in Content /\ remote[w].contact = web[w]
    BY <1>4 DEF TypeInv, Live, Entries
  <2>2. c \in Content /\ c.contact = web[w]
    BY <2>1 DEF Content
  <2>3. remote' = [remote EXCEPT ![w] = c]
    BY <1>4
  <2> HIDE DEF c
  <2>4. RemoteKept(web)
    BY <1>1, <1>4, <2>2, <2>3, ChangedEntry
  <2>5. remote' \in [WavelogIds -> Content \cup {None, Gone}]
    BY <2>2, <2>3 DEF TypeInv
  <2>6. DroppedKept(web)
    BY <1>4 DEF DroppedKept
  <2>7. QED BY <1>3, <2>4, <2>5, <2>6
<1>5. ASSUME NEW w \in WavelogIds, remote' = [remote EXCEPT ![w] = Gone],
             UNCHANGED dropped
      PROVE  Inv(con, web)'
  <2>1. RemoteKept(web)
    BY <1>1, <1>5, DeletedEntry
  <2>2. remote' \in [WavelogIds -> Content \cup {None, Gone}]
    BY <1>5 DEF TypeInv
  <2>3. DroppedKept(web)
    BY <1>5 DEF DroppedKept
  <2>4. QED BY <1>3, <2>1, <2>2, <2>3
<1>6. ASSUME NEW w \in NextWavelogId, NEW c \in Content, ~Logged(c.contact),
             remote' = [remote EXCEPT ![w] = c],
             dropped' = dropped \ {c.contact}
      PROVE  \E newWeb \in WebContacts : Inv(con, newWeb)'
  <2>1. w \in WavelogIds /\ remote[w] = None /\ c.contact \in Contacts
    BY DEF NextWavelogId, Content
  <2> DEFINE newWeb == [web EXCEPT ![w] = c.contact]
  <2>2. newWeb \in WebContacts /\ newWeb[w] = c.contact /\ Inv(con, newWeb)
    BY <2>1, FreshWeb
  <2> HIDE DEF newWeb
  <2>3. RemoteKept(newWeb)
    BY <1>1, <1>6, <2>1, <2>2, NewEntry
  <2>4. remote' \in [WavelogIds -> Content \cup {None, Gone}]
    BY <1>6, <2>1 DEF TypeInv
  <2>5. DroppedKept(newWeb)
    <3>1. \A v \in WavelogIds : Live(v) => newWeb[v] # c.contact
      BY <1>6, <2>2 DEF Logged, Live, Entries
    <3>2. QED BY <1>6, <3>1 DEF DroppedKept
  <2>6. Inv(con, newWeb)'
    BY <1>3, <2>2, <2>3, <2>4, <2>5
  <2>7. QED BY <2>2, <2>6
<1>7. QED BY <1>4, <1>5, <1>6 DEF RemoteChange

(* A request to resolve a conflict whose answer is lost.                   *)
LEMMA ResolveFailsStep ==
    ASSUME NEW con \in LocalContacts, NEW web \in WebContacts, Inv(con, web),
           ResolveFails
    PROVE  \E newWeb \in WebContacts : Inv(con, newWeb)'
<1> USE DEF Inv, profile, running, reads, snapshot, index
<1>1. UNCHANGED <<adi, meta, staged, writer, job, at, todo, locals, metas, view,
                  buffer, item, dropped>>
  BY DEF ResolveFails
<1>2. Loops' /\ Records(con)'
  BY <1>1 DEF Loops, Records
<1>3. PICK l \in LocalIds : CanResolve(l) /\ Resend(l)
  BY DEF ResolveFails
<1>4. /\ meta[l].wid \in WavelogIds /\ Joined(l, meta[l].wid)
      /\ adi[l] \in Content /\ adi[l].contact = con[l]
  BY <1>3, LinkedType DEF CanResolve, IsLinked, Joined, TypeInv, Records
<1>5. ASSUME NEW newWeb, Inv(con, newWeb), RemoteKept(newWeb),
             remote' \in [WavelogIds -> Content \cup {None, Gone}]
      PROVE  Inv(con, newWeb)'
  <2>1. TypeInv' /\ DroppedKept(newWeb)
    BY <1>1, <1>5 DEF TypeInv, DroppedKept
  <2>2. RowsKept(con, newWeb) /\ ElsewhereKept(con, newWeb)
    BY <1>1, <1>5, SameRows, SamePlaces
  <2>3. QED
    BY <1>1, <1>2, <1>5, <2>1, <2>2, KeptStep DEF ReadRowsKept
<1>6. CASE meta[l].reason = "remote_deleted"
  <2>1. PICK v \in NextWavelogId : remote' = [remote EXCEPT ![v] = adi[l]]
    BY <1>3, <1>6 DEF Resend
  <2>2. v \in WavelogIds /\ remote[v] = None
    BY DEF NextWavelogId
  <2>3. PICK c \in Contacts : c = adi[l].contact
    BY <1>4 DEF Content
  <2> DEFINE newWeb == [web EXCEPT ![v] = c]
  <2>4. /\ newWeb \in WebContacts /\ newWeb[v] = adi[l].contact
        /\ Inv(con, newWeb)
    BY <2>2, <2>3, FreshWeb
  <2> HIDE DEF newWeb
  <2>5. RemoteKept(newWeb)
    BY <1>1, <1>4, <2>1, <2>2, <2>4, NewEntry
  <2>6. remote' \in [WavelogIds -> Content \cup {None, Gone}]
    BY <1>4, <2>1, <2>2 DEF TypeInv
  <2>7. QED BY <1>5, <2>4, <2>5, <2>6
<1>7. CASE meta[l].reason # "remote_deleted"
  <2> DEFINE w == meta[l].wid
             patched == Patched(remote[w], adi[l])
  <2>1. Live(w) /\ remote' = [remote EXCEPT ![w] = patched]
    BY <1>3, <1>7 DEF Resend
  <2>2. remote[w] \in Content /\ remote[w].contact = con[l] /\ con[l] = web[w]
    BY <1>4, <2>1, SameContact
  <2>3. patched \in Content /\ patched.contact = web[w]
    BY <1>4, <2>2, PatchedContent
  <2> HIDE DEF patched
  <2>4. RemoteKept(web)
    BY <1>1, <1>4, <2>1, <2>3, ChangedEntry
  <2>5. remote' \in [WavelogIds -> Content \cup {None, Gone}]
    BY <1>4, <2>1, <2>3 DEF TypeInv
  <2>6. QED BY <1>5, <2>4, <2>5
<1>8. QED BY <1>6, <1>7

(* A reconciliation of the index with a scan of the log, however old.      *)
LEMMA ReconcileStep ==
    ASSUME NEW con, NEW web, Inv(con, web), NEW scanner \in Scanners, NEW log,
           meta' = Reconciled(meta, staged, log, scanner, Scanning),
           staged' = NothingStaged, Loops',
           UNCHANGED <<adi, remote, writer, dropped, locals, metas, view,
                       buffer, item>>
    PROVE  Inv(con, web)'
<1> USE DEF Inv
<1>1. RemoteKept(web)
  BY SameWeb
<1>2. ASSUME NEW l \in LocalIds
      PROVE  meta'[l] \in Row \cup {None} /\ RowKept(l, meta'[l], con, web)
  <2>1. /\ meta'[l] \in Row \cup {None}
        /\ \/ Follows(meta'[l], meta[l])
           \/ /\ staged[l] # None /\ meta'[l].wid = staged[l].wid
              /\ meta'[l].status # "pending_delete"
    BY ReconciledRow, ScanningType DEF TypeInv
  <2>2. CASE Follows(meta'[l], meta[l])
    BY <1>1, <2>1, <2>2, FollowingRow
  <2>3. CASE /\ staged[l] # None /\ meta'[l].wid = staged[l].wid
             /\ meta'[l].status # "pending_delete"
    <3>1. staged[l].wid \in WavelogIds /\ Joined(l, staged[l].wid)
      BY <2>3 DEF TypeInv, Staged, Joined
    <3>2. GoesTo(meta'[l], staged[l].wid)
      BY <2>3 DEF GoesTo
    <3>3. QED
      BY <1>1, <2>1, <2>3, <3>1, <3>2, JoinedRow
  <2>4. QED BY <2>1, <2>2, <2>3
<1>3. meta' \in [LocalIds -> Row \cup {None}]
  <2>1. meta' = [l \in LocalIds |-> meta'[l]]
    BY DEF Reconciled
  <2>2. QED BY <1>2, <2>1
<1>4. TypeInv' /\ Records(con)'
  BY <1>3 DEF TypeInv, NothingStaged, Records
<1>5. RowsKept(con, web)
  BY <1>2 DEF RowsKept
<1>6. ElsewhereKept(con, web)
  BY <1>1, SamePlaces DEF NothingStaged
<1>7. QED
  BY <1>1, <1>4, <1>5, <1>6, KeptStep DEF ReadRowsKept, DroppedKept

LEMMA ReconcileSteps ==
    ASSUME NEW con, NEW web, Inv(con, web), RefreshReconcile \/ SyncReconcile
    PROVE  Inv(con, web)'
<1> USE DEF profile, running, reads, snapshot, Environment, index, Goto
<1>1. "refresh" \in Scanners /\ "sync" \in Scanners
  BY DEF Scanners
<1>2. Loops'
  BY DEF Inv, Loops, FlushPlaces, RefreshReconcile, SyncReconcile
<1>3. CASE RefreshReconcile
  BY <1>1, <1>2, <1>3, ReconcileStep DEF RefreshReconcile
<1>4. CASE SyncReconcile
  BY <1>1, <1>2, <1>4, ReconcileStep DEF SyncReconcile
<1>5. QED BY <1>3, <1>4

-----------------------------------------------------------------------------
(* Proofs of the steps of the uploads.                                     *)

(* A record that is gone takes its row with it.                            *)
LEMMA UploadMissingStep ==
    ASSUME NEW con, NEW web, Inv(con, web), NEW l \in LocalIds,
           UploadMissing(l)
    PROVE  Inv(con, web)'
<1> USE DEF profile, Environment, index, snapshot, UploadMissing, Take
<1>1. Loops'
  BY DEF Inv, Loops, FlushPlaces
<1>2. RemoteKept(web)
  BY SameWeb DEF Inv
<1>3. RowKept(l, None, con, web)
  BY DEF RowKept, IsLinked
<1>4. QED
  BY <1>1, <1>2, <1>3, OneRowStep DEF Inv, TypeInv, Records, DroppedKept

(* A QSO is created on Wavelog, and the answer still has to be recorded.   *)
LEMMA UploadCreatedStep ==
    ASSUME NEW con \in LocalContacts, NEW web \in WebContacts, Inv(con, web),
           NEW l \in LocalIds, UploadCreated(l)
    PROVE  \E newWeb \in WebContacts : Inv(con, newWeb)'
<1> USE DEF Inv, profile, Environment, index, snapshot
<1>1. PICK w \in NextWavelogId :
         /\ remote' = [remote EXCEPT ![w] = locals[l]]
         /\ item' = [kind |-> "created", id |-> l, wid |-> w,
                     base |-> locals[l], remoteBase |-> locals[l]]
  BY DEF UploadCreated
<1>2. w \in WavelogIds /\ remote[w] = None
  BY DEF NextWavelogId
<1>3. /\ UNCHANGED <<adi, meta, staged, writer, dropped, job, locals, metas,
                     view, buffer>>
      /\ at = "upload" /\ at' = "uploaded"
      /\ locals[l] \in Content /\ locals[l].contact = con[l]
  BY DEF UploadCreated, Take, TypeInv, Records
<1>4. PICK c \in Contacts : c = locals[l].contact
  BY <1>3 DEF Content
<1> DEFINE newWeb == [web EXCEPT ![w] = c]
<1>5. newWeb \in WebContacts /\ newWeb[w] = c /\ Inv(con, newWeb)
  BY <1>2, FreshWeb
<1> HIDE DEF newWeb
<1>6. RemoteKept(newWeb)
  BY <1>1, <1>2, <1>3, <1>4, <1>5, NewEntry
<1>7. item' \in Answer
  BY <1>1, <1>2, <1>3 DEF Answer
<1>8. TypeInv'
  BY <1>1, <1>2, <1>3, <1>7 DEF TypeInv
<1>9. Loops'
  <2>1. item' # None
    BY <1>1, <1>2, <1>7, NoneAssumption, AbsenceAssumption
  <2>2. QED BY <1>3, <2>1 DEF Loops, FlushPlaces
<1>10. Records(con)'
  BY <1>3 DEF Records
<1>11. RowsKept(con, newWeb)
  BY <1>3, <1>5, <1>6, SameRows
<1>12. ElsewhereKept(con, newWeb)
  <2>1. ASSUME NEW k \in LocalIds, NEW v \in WavelogIds, Elsewhere(k, v)'
        PROVE  remote'[v] # None /\ con[k] = newWeb[v]
    <3>1. CASE item'.id = k /\ item'.wid = v
      BY <1>1, <1>2, <1>3, <1>4, <1>5, <3>1, AbsenceAssumption DEF TypeInv
    <3>2. CASE ~(item'.id = k /\ item'.wid = v)
      <4>1. Joined(k, v)
        BY <1>3, <2>1, <3>2 DEF Elsewhere, Joined
      <4>2. QED BY <1>5, <1>6, <4>1 DEF Joins, RemoteKept
    <3>3. QED BY <3>1, <3>2
  <2>2. QED BY <2>1 DEF ElsewhereKept
<1>13. Inv(con, newWeb)'
  BY <1>3, <1>5, <1>6, <1>8, <1>9, <1>10, <1>11, <1>12, KeptStep
     DEF ReadRowsKept, DroppedKept
<1>14. QED BY <1>5, <1>13

(* The answer is recorded.                                                 *)
LEMMA UploadRecordedStep ==
    ASSUME NEW con, NEW web, Inv(con, web), UploadRecorded
    PROVE  Inv(con, web)'
<1> USE DEF profile, Environment, index, reads, snapshot, Goto
<1>1. /\ UNCHANGED <<adi, staged, remote, writer, dropped, job, todo, locals,
                     metas, view, buffer>>
      /\ at = "uploaded" /\ at' = "upload" /\ item' = None
  BY DEF UploadRecorded
<1>2. item \in Answer /\ item # None
  BY <1>1 DEF Inv, TypeInv, Loops
<1> DEFINE l == item.id
           w == item.wid
           new == SetSynced(meta[l], w, item.base, item.remoteBase, Scanning)
<1>3. /\ l \in LocalIds /\ w \in WavelogIds /\ Joined(l, w)
      /\ item.base \in BaseColumn /\ item.remoteBase \in BaseColumn
  BY <1>2 DEF Answer, Joined, BaseColumn
<1>4. meta' = [meta EXCEPT ![l] = new] /\ meta[l] \in Row \cup {None}
  BY <1>3 DEF UploadRecorded, Inv, TypeInv
<1>5. new \in Row /\ new.status # "pending_delete" /\ GoesTo(new, w)
  BY <1>3, <1>4, ScanningType, NoneAssumption, SetSyncedRow
<1> HIDE DEF new
<1>6. RemoteKept(web)
  BY <1>1, SameWeb DEF Inv
<1>7. RowKept(l, new, con, web)
  BY <1>3, <1>5, <1>6, JoinedRow DEF Inv
<1>8. Loops'
  BY <1>1 DEF Inv, Loops, FlushPlaces
<1>9. QED
  BY <1>1, <1>3, <1>4, <1>5, <1>6, <1>7, <1>8, OneRowStep
     DEF Inv, TypeInv, Records, DroppedKept

(* The request failed; Wavelog may have carried it out all the same.       *)
LEMMA UploadFailedStep ==
    ASSUME NEW con \in LocalContacts, NEW web \in WebContacts, Inv(con, web),
           NEW l \in LocalIds, UploadFailed(l)
    PROVE  \E newWeb \in WebContacts : Inv(con, newWeb)'
<1> USE DEF profile, Environment, index, snapshot
<1> DEFINE new == SetError(meta[l], None, Scanning)
<1>1. /\ UNCHANGED <<adi, staged, writer, dropped, job, at, locals,
                     metas, view, buffer, item>>
      /\ at = "upload"
      /\ locals[l] \in Content /\ locals[l].contact = con[l]
      /\ meta' = [meta EXCEPT ![l] = new] /\ meta[l] \in Row \cup {None}
  BY DEF UploadFailed, Take, Inv, TypeInv, Records
<1>2. new \in Row /\ Follows(new, meta[l])
  BY <1>1, ScanningType, SetErrorRow
<1> HIDE DEF new
<1>3. Loops'
  BY <1>1 DEF Inv, Loops, FlushPlaces
<1>4. ASSUME NEW newWeb, Inv(con, newWeb), RemoteKept(newWeb),
             remote' \in [WavelogIds -> Content \cup {None, Gone}]
      PROVE  Inv(con, newWeb)'
  <2>1. RowKept(l, new, con, newWeb)
    BY <1>2, <1>4, FollowingRow DEF Inv
  <2>2. QED
    BY <1>1, <1>2, <1>3, <1>4, <2>1, OneRowStep
       DEF Inv, TypeInv, Records, DroppedKept
<1>5. CASE UNCHANGED remote
  <2>1. RemoteKept(web) /\ remote' \in [WavelogIds -> Content \cup {None, Gone}]
    BY <1>1, <1>5, SameWeb DEF Inv, TypeInv
  <2>2. QED BY <1>4, <2>1
<1>6. CASE \E w \in NextWavelogId : remote' = [remote EXCEPT ![w] = locals[l]]
  <2>1. PICK w \in NextWavelogId : remote' = [remote EXCEPT ![w] = locals[l]]
    BY <1>6
  <2>2. w \in WavelogIds /\ remote[w] = None
    BY DEF NextWavelogId
  <2>3. PICK c \in Contacts : c = locals[l].contact
    BY <1>1 DEF Content
  <2> DEFINE newWeb == [web EXCEPT ![w] = c]
  <2>4. newWeb \in WebContacts /\ newWeb[w] = c /\ Inv(con, newWeb)
    BY <2>2, FreshWeb
  <2> HIDE DEF newWeb
  <2>5. RemoteKept(newWeb)
    BY <1>1, <2>1, <2>2, <2>3, <2>4, NewEntry DEF Inv
  <2>6. remote' \in [WavelogIds -> Content \cup {None, Gone}]
    BY <1>1, <2>1, <2>2 DEF Inv, TypeInv
  <2>7. QED BY <1>4, <2>4, <2>5, <2>6
<1>7. QED BY <1>5, <1>6 DEF UploadFailed

-----------------------------------------------------------------------------
(* Proofs of the steps of the loop over linked rows.                       *)

(* The row the loop takes up is linked.                                    *)
LEMMA TakenRow ==
    ASSUME NEW con, NEW web, Inv(con, web), at = "linked",
           NEW l \in LocalIds, l \in todo
    PROVE  /\ metas[l] \in Row /\ metas[l].wid \in WavelogIds
           /\ Joined(l, metas[l].wid)
           /\ IsLinked(metas[l])
           /\ buffer.phase = "linked"
<1>1. buffer.phase = "linked" /\ IsLinked(metas[l])
  BY DEF Inv, Loops
<1>2. metas[l] \in Row \cup {None}
  BY DEF Inv, TypeInv
<1>3. QED
  BY <1>1, <1>2, LinkedType DEF Joined

(* The loop goes on, or its buffer is flushed.                             *)
LEMMA LinkedLoops ==
    ASSUME Loops, at \in {"linked", "answered"},
           at' \in {"linked", "flush", "answered"},
           todo' \in SUBSET todo, UNCHANGED <<job, metas>>,
           buffer'.phase = buffer.phase,
           at' = "answered" => item' # None
    PROVE  Loops'
<1>1. buffer.phase = "linked" /\ job # "none"
  BY DEF Loops
<1>2. \A l \in todo : l \in LocalIds /\ IsLinked(metas[l])
  BY <1>1 DEF Loops
<1>3. \A l \in todo' : l \in LocalIds /\ IsLinked(metas[l])'
  BY <1>2 DEF IsLinked
<1>4. QED
  BY <1>1, <1>3 DEF Loops, FlushPlaces

(* What is buffered joins ids of one contact.                              *)
LEMMA BufferStep ==
    ASSUME NEW con, NEW web, Inv(con, web), Loops', buffer' \in Buffers,
           UNCHANGED <<adi, meta, staged, remote, writer, dropped, metas, view,
                       item>>,
           locals' \in [LocalIds -> Content \cup {None}],
           \A l \in LocalIds :
               locals'[l] # None => locals'[l].contact = con[l],
           \A u \in buffer'.upserts \ buffer.upserts :
               u.content.contact = con[u.id],
           \A e \in (buffer'.upserts \ buffer.upserts) \cup
                    (buffer'.deletes \ buffer.deletes) \cup
                    (buffer'.statuses \ buffer.statuses) :
               remote[e.wid] # None /\ con[e.id] = web[e.wid]
    PROVE  Inv(con, web)'
<1> USE DEF Inv
<1>1. TypeInv'
  BY DEF TypeInv
<1>2. Records(con)'
  BY DEF Records
<1>3. RemoteKept(web)
  BY SameWeb
<1>4. RowsKept(con, web)
  BY <1>3, SameRows
<1>5. ASSUME NEW l \in LocalIds, NEW w \in WavelogIds, Elsewhere(l, w)'
      PROVE  remote'[w] # None /\ con[l] = web[w]
  <2>1. CASE Joined(l, w)
    BY <2>1 DEF Joins
  <2>2. CASE ~Joined(l, w)
    <3>1. PICK e \in buffer'.upserts \cup buffer'.deletes \cup buffer'.statuses :
             e.id = l /\ e.wid = w
      BY <1>5, <2>2 DEF Elsewhere, Joined
    <3>2. e \notin buffer.upserts \cup buffer.deletes \cup buffer.statuses
      BY <2>2, <3>1 DEF Joined
    <3>3. e \in (buffer'.upserts \ buffer.upserts) \cup
                (buffer'.deletes \ buffer.deletes) \cup
                (buffer'.statuses \ buffer.statuses)
      BY <3>1, <3>2
    <3>4. QED BY <3>1, <3>3
  <2>3. QED BY <2>1, <2>2
<1>6. ElsewhereKept(con, web)
  BY <1>5 DEF ElsewhereKept
<1>7. QED
  BY <1>1, <1>2, <1>3, <1>4, <1>6, KeptStep DEF ReadRowsKept, DroppedKept

(* The row is written, nothing is buffered.                                *)
LEMMA LinkedRowStep ==
    ASSUME NEW con, NEW web, Inv(con, web), NEW l \in LocalIds, Linked(l),
           UNCHANGED <<at, buffer>>, NEW new \in Row \cup {None},
           meta' = [meta EXCEPT ![l] = new],
           RemoteKept(web) => RowKept(l, new, con, web)
    PROVE  Inv(con, web)'
<1> USE DEF Linked, Take, profile, Environment, index, snapshot
<1>1. RemoteKept(web)
  BY SameWeb DEF Inv
<1>2. Loops'
  BY LinkedLoops DEF Inv
<1>3. QED
  BY <1>1, <1>2, OneRowStep DEF Inv, TypeInv, Records, DroppedKept

(* The row becomes a conflict.                                             *)
LEMMA ConflictStep ==
    ASSUME NEW con, NEW web, Inv(con, web), NEW l \in LocalIds, Linked(l),
           NEW reason \in Reason, Conflict(l, reason)
    PROVE  Inv(con, web)'
<1> DEFINE w == metas[l].wid
           new == SetConflict(meta[l], w, reason, Scanning)
<1>1. w \in WavelogIds /\ Joined(l, w) /\ w # None
  BY TakenRow, NoneAssumption DEF Linked, Take
<1>2. meta[l] \in Row \cup {None} /\ meta' = [meta EXCEPT ![l] = new]
  BY DEF Inv, TypeInv, Conflict
<1>3. new \in Row /\ new.status # "pending_delete" /\ GoesTo(new, w)
  BY <1>1, <1>2, ScanningType, SetConflictRow
<1> HIDE DEF new
<1>4. RemoteKept(web) => RowKept(l, new, con, web)
  BY <1>1, <1>3, JoinedRow DEF Inv
<1>5. UNCHANGED <<at, buffer>>
  BY DEF Conflict
<1>6. QED
  BY <1>2, <1>3, <1>4, <1>5, LinkedRowStep

(* An entry for the row is buffered.                                       *)
LEMMA LinkedBufferStep ==
    ASSUME NEW con, NEW web, Inv(con, web), NEW l \in LocalIds, Linked(l),
           UNCHANGED meta, NEW b, Buffer(b), b \in Buffers,
           b.phase = buffer.phase,
           \A u \in b.upserts \ buffer.upserts :
               /\ u.id = l /\ u.wid = metas[l].wid
               /\ u.content = view[u.wid] /\ view[u.wid] # None,
           \A e \in (b.deletes \ buffer.deletes) \cup
                    (b.statuses \ buffer.statuses) :
               e.id = l /\ e.wid = metas[l].wid
    PROVE  Inv(con, web)'
<1> USE DEF Linked, Take, Buffer, profile, Environment, index, snapshot
<1>1. metas[l].wid \in WavelogIds /\ Joined(l, metas[l].wid)
  BY TakenRow
<1>2. /\ remote[metas[l].wid] # None /\ con[l] = web[metas[l].wid]
      /\ view[metas[l].wid] # None => view[metas[l].wid].contact = con[l]
  BY <1>1, SameContact
<1>3. Loops'
  BY LinkedLoops DEF Inv
<1>4. locals' \in [LocalIds -> Content \cup {None}]
        /\ \A k \in LocalIds :
              locals'[k] # None => locals'[k].contact = con[k]
  BY DEF Inv, TypeInv, Records
<1>5. /\ \A u \in b.upserts \ buffer.upserts : u.content.contact = con[u.id]
      /\ \A e \in (b.upserts \ buffer.upserts) \cup
                  (b.deletes \ buffer.deletes) \cup
                  (b.statuses \ buffer.statuses) :
               remote[e.wid] # None /\ con[e.id] = web[e.wid]
  BY <1>2
<1>6. QED
  BY <1>3, <1>4, <1>5, BufferStep

(* Each entry of the buffer is well-typed.                                 *)
LEMMA EntryTypes ==
    ASSUME NEW l \in LocalIds, NEW w \in WavelogIds
    PROVE  /\ \A c \in Content, checked \in BOOLEAN :
                 [id |-> l, content |-> c, wid |-> w, checked |-> checked]
                    \in Upsert
           /\ [id |-> l, wid |-> w] \in Delete
           /\ \A b, r \in Content :
                 [id |-> l, wid |-> w, base |-> b, remoteBase |-> r] \in Baseline
BY DEF Upsert, Delete, Baseline

(* A record of Wavelog is buffered to be written here.                     *)
LEMMA UpsertStep ==
    ASSUME NEW con, NEW web, Inv(con, web), NEW l \in LocalIds, Linked(l),
           UNCHANGED meta, NEW checked \in BOOLEAN, view[metas[l].wid] # None,
           Buffer([buffer EXCEPT !.upserts = @ \cup
                      {[id |-> l, content |-> view[metas[l].wid],
                        wid |-> metas[l].wid, checked |-> checked]}])
    PROVE  Inv(con, web)'
<1> DEFINE w == metas[l].wid
           u == [id |-> l, content |-> view[w], wid |-> w, checked |-> checked]
           b == [buffer EXCEPT !.upserts = @ \cup {u}]
<1>1. w \in WavelogIds
  BY TakenRow DEF Linked, Take
<1>2. view[w] \in Content
  BY <1>1 DEF Inv, TypeInv
<1>3. u \in Upsert
  BY <1>1, <1>2, EntryTypes
<1>4. u.id = l /\ u.wid = w /\ u.content = view[w]
  OBVIOUS
<1> HIDE DEF u
<1>5. /\ b \in Buffers /\ b.phase = buffer.phase
      /\ b.upserts \ buffer.upserts \subseteq {u}
      /\ b.deletes = buffer.deletes /\ b.statuses = buffer.statuses
  BY <1>3 DEF Inv, TypeInv, Buffers
<1>6. Buffer(b)
  BY DEF u
<1> HIDE DEF b
<1>7. QED
  BY <1>4, <1>5, <1>6, LinkedBufferStep

(* A record is buffered to be deleted here.                                *)
LEMMA DeleteStep ==
    ASSUME NEW con, NEW web, Inv(con, web), NEW l \in LocalIds, Linked(l),
           UNCHANGED meta,
           Buffer([buffer EXCEPT !.deletes = @ \cup
                      {[id |-> l, wid |-> metas[l].wid]}])
    PROVE  Inv(con, web)'
<1> DEFINE d == [id |-> l, wid |-> metas[l].wid]
           b == [buffer EXCEPT !.deletes = @ \cup {d}]
<1>1. metas[l].wid \in WavelogIds
  BY TakenRow DEF Linked, Take
<1>2. d \in Delete /\ d.id = l /\ d.wid = metas[l].wid
  BY <1>1, EntryTypes
<1> HIDE DEF d
<1>3. /\ b \in Buffers /\ b.phase = buffer.phase
      /\ b.deletes \ buffer.deletes \subseteq {d}
      /\ b.upserts = buffer.upserts /\ b.statuses = buffer.statuses
  BY <1>2 DEF Inv, TypeInv, Buffers
<1>4. Buffer(b)
  BY DEF d
<1> HIDE DEF b
<1>5. QED
  BY <1>2, <1>3, <1>4, LinkedBufferStep

(* The branches of the loop that send nothing to Wavelog.                  *)
LEMMA LinkedSteps ==
    ASSUME NEW con, NEW web, Inv(con, web), NEW l \in LocalIds,
           LinkedDeletedBoth(l) \/ LinkedVanished(l) \/ LinkedConflict(l)
             \/ LinkedRemoteDeleted(l) \/ LinkedBothChanged(l)
             \/ LinkedRemoteChanged(l) \/ LinkedUnchanged(l)
    PROVE  Inv(con, web)'
<1>1. {"remote_deleted", "both_changed", "local_changed_during_sync"}
         \subseteq Reason
  BY DEF Reason
<1>2. RowKept(l, None, con, web)
  BY DEF RowKept, IsLinked
<1>3. meta[l] \in Row \cup {None} /\ meta = [meta EXCEPT ![l] = meta[l]]
  BY DEF Inv, TypeInv
<1>4. CASE LinkedDeletedBoth(l)
  BY <1>2, <1>4, LinkedRowStep DEF LinkedDeletedBoth
<1>5. CASE LinkedVanished(l)
  <2>1. CASE view[metas[l].wid] # None
    BY <1>5, <2>1, UpsertStep DEF LinkedVanished
  <2>2. CASE view[metas[l].wid] = None
    BY <1>2, <1>5, <2>2, LinkedRowStep DEF LinkedVanished
  <2>3. QED BY <2>1, <2>2
<1>6. CASE LinkedConflict(l)
  <2>1. meta' = [meta EXCEPT ![l] = meta[l]] /\ Follows(meta[l], meta[l])
    BY <1>3, <1>6 DEF LinkedConflict, Follows, IsLinked
  <2>2. RemoteKept(web) => RowKept(l, meta[l], con, web)
    BY <1>3, <2>1, FollowingRow DEF Inv
  <2>3. QED
    BY <1>3, <1>6, <2>1, <2>2, LinkedRowStep DEF LinkedConflict
<1>7. CASE LinkedRemoteDeleted(l)
  <2>1. CASE LocalChanged(l) \/ ~UnchangedSince(meta[l], versions[l])
    BY <1>1, <1>7, <2>1, ConflictStep DEF LinkedRemoteDeleted
  <2>2. CASE ~(LocalChanged(l) \/ ~UnchangedSince(meta[l], versions[l]))
    BY <1>7, <2>2, DeleteStep DEF LinkedRemoteDeleted
  <2>3. QED BY <2>1, <2>2
<1>8. CASE LinkedBothChanged(l)
  BY <1>1, <1>8, ConflictStep DEF LinkedBothChanged
<1>9. CASE LinkedRemoteChanged(l)
  <2>1. CASE ~UnchangedSince(meta[l], versions[l])
    BY <1>1, <1>9, <2>1, ConflictStep DEF LinkedRemoteChanged
  <2>2. CASE UnchangedSince(meta[l], versions[l])
    BY <1>9, <2>2, UpsertStep DEF LinkedRemoteChanged, Comparable
  <2>3. QED BY <2>1, <2>2
<1>10. CASE LinkedUnchanged(l)
  <2> DEFINE s == [id |-> l, wid |-> metas[l].wid, base |-> locals[l],
                   remoteBase |-> view[metas[l].wid]]
             b == [buffer EXCEPT !.statuses = @ \cup {s}]
  <2>1. metas[l].wid \in WavelogIds
    BY <1>10, TakenRow DEF LinkedUnchanged, Linked, Take
  <2>2. locals[l] \in Content /\ view[metas[l].wid] \in Content
    BY <1>10, <2>1 DEF LinkedUnchanged, Comparable, Present, Inv, TypeInv
  <2>3. s \in Baseline /\ s.id = l /\ s.wid = metas[l].wid
    BY <2>1, <2>2, EntryTypes
  <2>4. Linked(l) /\ Buffer(b) /\ UNCHANGED meta
    BY <1>10 DEF LinkedUnchanged
  <2> HIDE DEF s
  <2>5. /\ b \in Buffers /\ b.phase = buffer.phase
        /\ b.statuses \ buffer.statuses \subseteq {s}
        /\ b.upserts = buffer.upserts /\ b.deletes = buffer.deletes
    BY <2>3 DEF Inv, TypeInv, Buffers
  <2> HIDE DEF b
  <2>6. QED
    BY <2>3, <2>4, <2>5, LinkedBufferStep
<1>11. QED BY <1>4, <1>5, <1>6, <1>7, <1>8, <1>9, <1>10

(* A request has been answered: the QSO it names is the linked one.        *)
LEMMA RequestStep ==
    ASSUME NEW con, NEW web, Inv(con, web), NEW l \in LocalIds, Request(l),
           meta' = meta, at' = "answered", RemoteKept(web),
           remote' \in [WavelogIds -> Content \cup {None, Gone}],
           item' \in Answer, item'.id = l, item'.wid = metas[l].wid
    PROVE  Inv(con, web)'
<1> USE DEF Inv, Request, Take, Environment, index, snapshot
<1>1. metas[l].wid \in WavelogIds /\ Joined(l, metas[l].wid)
  BY TakenRow
<1>2. TypeInv' /\ Records(con)'
  BY DEF TypeInv, Records
<1>3. Loops'
  BY LinkedLoops, AbsenceAssumption
<1>4. RowsKept(con, web)
  BY SameRows
<1>5. ElsewhereKept(con, web)
  <2>1. ASSUME NEW k \in LocalIds, NEW w \in WavelogIds, Elsewhere(k, w)'
        PROVE  Joined(k, w)
    BY <1>1, <2>1 DEF Elsewhere, Joined
  <2>2. QED BY <2>1, SameElsewhere
<1>6. QED
  BY <1>2, <1>3, <1>4, <1>5, KeptStep DEF ReadRowsKept, DroppedKept

LEMMA RequestSteps ==
    ASSUME NEW con, NEW web, Inv(con, web), NEW l \in LocalIds,
           RemoteDeleted(l) \/ RemotePatched(l)
    PROVE  Inv(con, web)'
<1> DEFINE w == metas[l].wid
<1>1. Request(l) /\ Live(w) /\ meta' = meta /\ at' = "answered"
  BY DEF RemoteDeleted, RemotePatched
<1>2. w \in WavelogIds /\ Joined(l, w) /\ view' = view
  BY <1>1, TakenRow DEF Request, Take
<1>3. CASE RemoteDeleted(l)
  <2>1. remote' = [remote EXCEPT ![w] = Gone]
    BY <1>3 DEF RemoteDeleted
  <2>2. RemoteKept(web) /\ remote' \in [WavelogIds -> Content \cup {None, Gone}]
    BY <1>2, <2>1, DeletedEntry DEF Inv, TypeInv
  <2>3. item' \in Answer /\ item'.id = l /\ item'.wid = w
    BY <1>2, <1>3 DEF RemoteDeleted, Answer
  <2>4. QED BY <1>1, <2>2, <2>3, RequestStep
<1>4. CASE RemotePatched(l)
  <2> DEFINE new == Patched(remote[w], locals[l])
  <2>1. /\ remote' = [remote EXCEPT ![w] = new]
        /\ item' = [kind |-> "patched", id |-> l, wid |-> w,
                    base |-> locals[l], remoteBase |-> new]
    BY <1>4 DEF RemotePatched
  <2>2. locals[l] \in Content /\ locals[l].contact = con[l]
    BY <1>4 DEF RemotePatched, ToPatch, Comparable, Present, Inv, TypeInv,
                Records
  <2>3. remote[w] \in Content /\ remote[w].contact = con[l] /\ con[l] = web[w]
    BY <1>1, <1>2, SameContact
  <2>4. new \in Content /\ new.contact = web[w]
    BY <2>2, <2>3, PatchedContent
  <2> HIDE DEF new
  <2>5. RemoteKept(web) /\ remote' \in [WavelogIds -> Content \cup {None, Gone}]
    BY <1>1, <1>2, <2>1, <2>4, ChangedEntry DEF Inv, TypeInv
  <2>6. item' \in Answer /\ item'.id = l /\ item'.wid = w
    BY <1>2, <2>1, <2>2, <2>4 DEF Answer
  <2>7. QED BY <1>1, <2>5, <2>6, RequestStep
<1>5. QED BY <1>3, <1>4

(* A request failed: the row is in error, whatever Wavelog has done.       *)
LEMMA RequestFailedStep ==
    ASSUME NEW con, NEW web, Inv(con, web), NEW l \in LocalIds,
           RequestFailed(l)
    PROVE  Inv(con, web)'
<1> USE DEF Request, Take, Environment, index, snapshot
<1> DEFINE w == metas[l].wid
           new == SetError(meta[l], w, Scanning)
           patched == Patched(remote[w], locals[l])
<1>1. Request(l) /\ UNCHANGED <<at, item>> /\ at = "linked"
  BY DEF RequestFailed
<1>2. w \in WavelogIds /\ w # None /\ Joined(l, w)
  BY <1>1, TakenRow, NoneAssumption
<1>3. meta' = [meta EXCEPT ![l] = new] /\ meta[l] \in Row \cup {None}
  BY DEF RequestFailed, Inv, TypeInv
<1>4. new \in Row /\ new.status # "pending_delete" /\ GoesTo(new, w)
  BY <1>2, <1>3, ScanningType, SetErrorRow
<1> HIDE DEF new
<1>5. RemoteKept(web) /\ remote' \in [WavelogIds -> Content \cup {None, Gone}]
  <2>1. CASE remote' = remote
    BY <1>1, <2>1, SameWeb DEF Inv, TypeInv
  <2>2. CASE remote' = [remote EXCEPT ![w] = Gone]
    BY <1>1, <1>2, <2>2, DeletedEntry DEF Inv, TypeInv
  <2>3. CASE Live(w) /\ ~ToDelete(l) /\ remote' = [remote EXCEPT ![w] = patched]
    <3>1. locals[l] \in Content /\ locals[l].contact = con[l]
      BY <2>3 DEF RequestFailed, ToPatch, Comparable, Present, Inv, TypeInv,
                  Records
    <3>2. remote[w] \in Content /\ remote[w].contact = con[l] /\ con[l] = web[w]
      BY <1>2, <2>3, SameContact
    <3>3. patched \in Content /\ patched.contact = web[w]
      BY <3>1, <3>2, PatchedContent
    <3> HIDE DEF patched
    <3>4. QED
      BY <1>1, <1>2, <2>3, <3>3, ChangedEntry DEF Inv, TypeInv
  <2>4. QED
    BY <1>2, <2>1, <2>2, <2>3 DEF RequestFailed, Inv, TypeInv
<1>6. RowKept(l, new, con, web)
  BY <1>2, <1>4, <1>5, JoinedRow DEF Inv
<1>7. Loops'
  BY <1>1, LinkedLoops DEF Inv
<1>8. QED
  BY <1>1, <1>3, <1>4, <1>5, <1>6, <1>7, OneRowStep
     DEF Inv, TypeInv, Records, DroppedKept

(* The answer to a request is recorded.                                    *)
LEMMA AnsweredStep ==
    ASSUME NEW con, NEW web, Inv(con, web), Answered
    PROVE  Inv(con, web)'
<1> USE DEF Environment, index, reads, snapshot, Goto
<1>1. /\ UNCHANGED <<adi, staged, remote, writer, dropped, job, todo, locals,
                     metas, view, buffer>>
      /\ at = "answered" /\ at' = "linked" /\ item' = None
  BY DEF Answered
<1>2. item \in Answer /\ item # None
  BY <1>1 DEF Inv, TypeInv, Loops
<1> DEFINE l == item.id
           w == item.wid
           synced == SetSynced(meta[l], w, item.base, item.remoteBase, Scanning)
           new == IF item.kind = "deleted" THEN None ELSE synced
<1>3. /\ l \in LocalIds /\ w \in WavelogIds /\ Joined(l, w)
      /\ item.base \in BaseColumn /\ item.remoteBase \in BaseColumn
  BY <1>2 DEF Answer, Joined, BaseColumn
<1>4. meta' = [meta EXCEPT ![l] = new] /\ meta[l] \in Row \cup {None}
  BY <1>3 DEF Answered, Inv, TypeInv
<1>5. synced \in Row /\ synced.status # "pending_delete" /\ GoesTo(synced, w)
  BY <1>3, <1>4, ScanningType, NoneAssumption, SetSyncedRow
<1> HIDE DEF synced
<1>6. RemoteKept(web)
  BY <1>1, SameWeb DEF Inv
<1>7. new \in Row \cup {None} /\ RowKept(l, new, con, web)
  <2>1. RowKept(l, synced, con, web)
    BY <1>3, <1>5, <1>6, JoinedRow DEF Inv
  <2>2. RowKept(l, None, con, web)
    BY DEF RowKept, IsLinked
  <2>3. QED BY <1>5, <2>1, <2>2
<1> HIDE DEF new
<1>8. Loops'
  BY <1>1, LinkedLoops DEF Inv
<1>9. QED
  BY <1>1, <1>3, <1>4, <1>6, <1>7, <1>8, OneRowStep
     DEF Inv, TypeInv, Records, DroppedKept

-----------------------------------------------------------------------------
(* Proofs of the flush of the write buffer.                                *)

LEMMA ChosenIn == ASSUME NEW S, S # {} PROVE (CHOOSE e \in S : TRUE) \in S
OBVIOUS

(* Rows that stay, go, or are linked to what their id was joined with.     *)
LEMMA WrittenRows ==
    ASSUME NEW con, NEW web, Inv(con, web), RemoteKept(web),
           meta' = [l \in LocalIds |-> meta'[l]],
           \A l \in LocalIds :
               \/ meta'[l] \in {meta[l], None}
               \/ \E w \in WavelogIds :
                     /\ Joined(l, w) /\ meta'[l] \in Row
                     /\ meta'[l].status # "pending_delete"
                     /\ GoesTo(meta'[l], w)
    PROVE  meta' \in [LocalIds -> Row \cup {None}] /\ RowsKept(con, web)
<1> USE DEF Inv
<1>1. ASSUME NEW l \in LocalIds
      PROVE  meta'[l] \in Row \cup {None} /\ RowKept(l, meta'[l], con, web)
  <2>1. CASE meta'[l] \in {meta[l], None}
    <3>1. meta'[l] \in Row \cup {None} /\ Follows(meta'[l], meta[l])
      BY <2>1 DEF TypeInv, Follows, IsLinked
    <3>2. QED BY <3>1, FollowingRow
  <2>2. CASE meta'[l] \notin {meta[l], None}
    <3>1. PICK w \in WavelogIds :
             /\ Joined(l, w) /\ meta'[l] \in Row
             /\ meta'[l].status # "pending_delete"
             /\ GoesTo(meta'[l], w)
      BY <2>2
    <3>2. QED BY <3>1, JoinedRow
  <2>3. QED BY <2>1, <2>2
<1>2. QED BY <1>1 DEF RowsKept

(* A step of the flush.                                                    *)
LEMMA FlushStep ==
    ASSUME NEW con, NEW web, Inv(con, web), NEW from \in FlushPlaces,
           NEW to \in FlushPlaces, Flush(from, to),
           meta' \in [LocalIds -> Row \cup {None}],
           RemoteKept(web) => RowsKept(con, web),
           buffer' \in Buffers, buffer'.phase = buffer.phase,
           buffer'.upserts \subseteq buffer.upserts,
           buffer'.deletes \subseteq buffer.deletes,
           buffer'.statuses \subseteq buffer.statuses,
           adi' \in [LocalIds -> Content \cup {None}],
           \A l \in LocalIds : adi'[l] # None => adi'[l].contact = con[l],
           staged' \in [LocalIds -> Staged \cup {None}],
           \A l \in LocalIds : \/ staged'[l] \in {staged[l], None}
                               \/ Joined(l, staged'[l].wid)
    PROVE  Inv(con, web)'
<1> USE DEF Inv, Flush, Goto, Environment, index, reads, snapshot
<1>1. TypeInv' /\ Records(con)'
  BY DEF TypeInv, Records
<1>2. Loops'
  <2>1. job # "none" /\ at # "idle"
    BY DEF Loops, FlushPlaces
  <2>2. buffer.phase \in {"linked", "unlinked"}
    BY DEF TypeInv, Buffers
  <2>3. CASE buffer.phase = "linked"
    <3>1. \A l \in todo : l \in LocalIds /\ IsLinked(metas[l])
      BY <2>3 DEF Loops
    <3>2. \A l \in todo' : l \in LocalIds /\ IsLinked(metas[l])'
      BY <3>1 DEF IsLinked
    <3>3. QED
      BY <2>1, <2>3, <3>2 DEF Loops, FlushPlaces
  <2>4. CASE buffer.phase = "unlinked"
    BY <2>1, <2>4 DEF Loops, FlushPlaces
  <2>5. QED BY <2>2, <2>3, <2>4
<1>3. RemoteKept(web)
  BY SameWeb
<1>4. ElsewhereKept(con, web)
  <2>1. ASSUME NEW l \in LocalIds, NEW w \in WavelogIds, Elsewhere(l, w)'
        PROVE  Joined(l, w)
    BY <2>1 DEF Elsewhere, Joined
  <2>2. QED BY <1>3, <2>1, SameElsewhere
<1>5. QED
  BY <1>1, <1>2, <1>3, <1>4, KeptStep DEF ReadRowsKept, DroppedKept

(* The parts a flush leaves alone.                                         *)
LEMMA FlushFrame ==
    ASSUME NEW con, NEW web, Inv(con, web)
    PROVE  /\ meta \in [LocalIds -> Row \cup {None}]
           /\ meta' = meta /\ RemoteKept(web) => RowsKept(con, web)
           /\ buffer \in Buffers
           /\ adi \in [LocalIds -> Content \cup {None}]
           /\ \A l \in LocalIds : adi[l] # None => adi[l].contact = con[l]
           /\ staged \in [LocalIds -> Staged \cup {None}]
BY SameRows DEF Inv, TypeInv, Records

(* What is buffered joins its ids.                                         *)
LEMMA BufferedJoins ==
    ASSUME NEW con, NEW web, Inv(con, web)
    PROVE  /\ \A e \in buffer.upserts \cup buffer.deletes \cup buffer.statuses :
                 /\ e.id \in LocalIds /\ e.wid \in WavelogIds
                 /\ Joined(e.id, e.wid)
           /\ \A u \in buffer.upserts :
                 u.content \in Content /\ u.content.contact = con[u.id]
           /\ \A b \in buffer.statuses :
                 b.base \in Content /\ b.remoteBase \in Content
<1>1. /\ buffer.upserts \subseteq Upsert /\ buffer.deletes \subseteq Delete
      /\ buffer.statuses \subseteq Baseline
  BY DEF Inv, TypeInv, Buffers
<1>2. QED
  BY <1>1 DEF Upsert, Delete, Baseline, Joined, Inv, Records

(* The rows that are marked are linked to what was buffered for them.      *)
LEMMA ConflictRows ==
    ASSUME NEW con, NEW web, Inv(con, web), RemoteKept(web),
           NEW entries, entries \subseteq buffer.upserts \cup buffer.deletes,
           meta' = WithConflicts(entries)
    PROVE  meta' \in [LocalIds -> Row \cup {None}] /\ RowsKept(con, web)
<1>1. ASSUME NEW l \in LocalIds, meta'[l] # meta[l]
      PROVE  \E w \in WavelogIds :
                /\ Joined(l, w) /\ meta'[l] \in Row
                /\ meta'[l].status # "pending_delete"
                /\ GoesTo(meta'[l], w)
  <2> DEFINE mine == {e \in entries : e.id = l /\ ChangedDuringSync(l)}
             chosen == CHOOSE e \in mine : TRUE
  <2>1. /\ mine # {}
        /\ meta'[l] = SetConflict(meta[l], chosen.wid,
                                  "local_changed_during_sync", Scanning)
    BY <1>1 DEF WithConflicts
  <2>2. chosen \in mine
    BY <2>1, ChosenIn
  <2>3. chosen.wid \in WavelogIds /\ Joined(l, chosen.wid)
    BY <2>2, BufferedJoins
  <2> HIDE DEF chosen
  <2>4. /\ meta[l] \in Row \cup {None} /\ chosen.wid # None
        /\ "local_changed_during_sync" \in Reason
    BY <2>3, NoneAssumption DEF Inv, TypeInv, Reason
  <2>5. /\ meta'[l] \in Row /\ meta'[l].status # "pending_delete"
        /\ GoesTo(meta'[l], chosen.wid)
    BY <2>1, <2>3, <2>4, ScanningType, SetConflictRow
  <2>6. QED BY <2>3, <2>5
<1>2. meta' = [l \in LocalIds |-> meta'[l]]
  BY DEF WithConflicts
<1>3. QED BY <1>1, <1>2, WrittenRows

LEMMA ErrorRows ==
    ASSUME NEW con, NEW web, Inv(con, web), RemoteKept(web),
           NEW entries, entries \subseteq buffer.upserts \cup buffer.deletes,
           MarkErrors(entries)
    PROVE  meta' \in [LocalIds -> Row \cup {None}] /\ RowsKept(con, web)
<1>1. ASSUME NEW l \in LocalIds, meta'[l] # meta[l]
      PROVE  \E w \in WavelogIds :
                /\ Joined(l, w) /\ meta'[l] \in Row
                /\ meta'[l].status # "pending_delete"
                /\ GoesTo(meta'[l], w)
  <2> DEFINE mine == {e \in entries : e.id = l}
             chosen == CHOOSE e \in mine : TRUE
  <2>1. /\ mine # {}
        /\ meta'[l] = SetError(meta[l], chosen.wid, Scanning)
    BY <1>1 DEF MarkErrors
  <2>2. chosen \in mine
    BY <2>1, ChosenIn
  <2>3. chosen.wid \in WavelogIds /\ Joined(l, chosen.wid)
    BY <2>2, BufferedJoins
  <2> HIDE DEF chosen
  <2>4. meta[l] \in Row \cup {None} /\ chosen.wid # None
    BY <2>3, NoneAssumption DEF Inv, TypeInv
  <2>5. /\ meta'[l] \in Row /\ meta'[l].status # "pending_delete"
        /\ GoesTo(meta'[l], chosen.wid)
    BY <2>1, <2>3, <2>4, ScanningType, SetErrorRow
  <2>6. QED BY <2>3, <2>5
<1>2. meta' = [l \in LocalIds |-> meta'[l]]
  BY DEF MarkErrors
<1>3. QED BY <1>1, <1>2, WrittenRows

LEMMA CommittedRows ==
    ASSUME NEW con, NEW web, Inv(con, web), RemoteKept(web), CommitRows
    PROVE  meta' \in [LocalIds -> Row \cup {None}] /\ RowsKept(con, web)
<1>1. ASSUME NEW l \in LocalIds, meta'[l] # meta[l]
      PROVE  \E w \in WavelogIds :
                /\ Joined(l, w) /\ meta'[l] \in Row
                /\ meta'[l].status # "pending_delete"
                /\ GoesTo(meta'[l], w)
  <2> DEFINE mine == {u \in buffer.upserts : u.id = l}
             u == CHOOSE u \in mine : TRUE
  <2>1. /\ mine # {}
        /\ meta'[l] = SetSynced(meta[l], u.wid, u.content, u.content, Scanning)
    BY <1>1 DEF CommitRows
  <2>2. u \in mine
    BY <2>1, ChosenIn
  <2>3. /\ u.wid \in WavelogIds /\ Joined(l, u.wid)
        /\ u.content \in BaseColumn
    BY <2>2, BufferedJoins DEF BaseColumn
  <2> HIDE DEF u
  <2>4. meta[l] \in Row \cup {None} /\ u.wid # None
    BY <2>3, NoneAssumption DEF Inv, TypeInv
  <2>5. /\ meta'[l] \in Row /\ meta'[l].status # "pending_delete"
        /\ GoesTo(meta'[l], u.wid)
    BY <2>1, <2>3, <2>4, ScanningType, SetSyncedRow
  <2>6. QED BY <2>3, <2>5
<1>2. meta' = [l \in LocalIds |-> meta'[l]]
  BY DEF CommitRows
<1>3. QED BY <1>1, <1>2, WrittenRows

LEMMA BaselineRows ==
    ASSUME NEW con, NEW web, Inv(con, web), RemoteKept(web), CommitBaselines
    PROVE  meta' \in [LocalIds -> Row \cup {None}] /\ RowsKept(con, web)
<1>1. ASSUME NEW l \in LocalIds, meta'[l] # meta[l]
      PROVE  \E w \in WavelogIds :
                /\ Joined(l, w) /\ meta'[l] \in Row
                /\ meta'[l].status # "pending_delete"
                /\ GoesTo(meta'[l], w)
  <2> DEFINE mine == {b \in buffer.statuses : b.id = l /\
                         (versions[l] # None => ~ChangedDuringSync(l))}
             b == CHOOSE b \in mine : TRUE
  <2>1. /\ mine # {}
        /\ meta'[l] = SetSynced(meta[l], b.wid, b.base, b.remoteBase, Scanning)
    BY <1>1 DEF CommitBaselines
  <2>2. b \in mine
    BY <2>1, ChosenIn
  <2>3. /\ b.wid \in WavelogIds /\ Joined(l, b.wid)
        /\ b.base \in BaseColumn /\ b.remoteBase \in BaseColumn
    BY <2>2, BufferedJoins DEF BaseColumn
  <2> HIDE DEF b
  <2>4. meta[l] \in Row \cup {None} /\ b.wid # None
    BY <2>3, NoneAssumption DEF Inv, TypeInv
  <2>5. /\ meta'[l] \in Row /\ meta'[l].status # "pending_delete"
        /\ GoesTo(meta'[l], b.wid)
    BY <2>1, <2>3, <2>4, ScanningType, SetSyncedRow
  <2>6. QED BY <2>3, <2>5
<1>2. meta' = [l \in LocalIds |-> meta'[l]]
  BY DEF CommitBaselines
<1>3. QED BY <1>1, <1>2, WrittenRows

(* Forgetting rows of deleted records links nothing.                       *)
LEMMA ForgottenRows ==
    ASSUME NEW con, NEW web, Inv(con, web), RemoteKept(web), ForgetRows
    PROVE  meta' \in [LocalIds -> Row \cup {None}] /\ RowsKept(con, web)
<1>1. /\ meta' = [l \in LocalIds |-> meta'[l]]
      /\ \A l \in LocalIds : meta'[l] \in {meta[l], None}
  BY DEF ForgetRows
<1>2. QED BY <1>1, WrittenRows

(* The steps on deletions, on upserts and on baselines.                    *)
LEMMA FlushDeletes ==
    ASSUME NEW con, NEW web, Inv(con, web),
           FilterDeletes \/ DropRecords \/ DropFailed \/ ForgetRows
    PROVE  Inv(con, web)'
<1> DEFINE kept == {d \in buffer.deletes : ~ChangedDuringSync(d.id)}
<1>1. /\ [buffer EXCEPT !.deletes = kept] \in Buffers
      /\ [buffer EXCEPT !.deletes = {}] \in Buffers
  BY FlushFrame DEF Buffers
<1>2. RemoteKept(web)
  BY SameWeb DEF Inv, FilterDeletes, DropRecords, DropFailed, ForgetRows, Flush,
                 reads
<1>3. CASE FilterDeletes
  <2>1. meta' \in [LocalIds -> Row \cup {None}] /\ RowsKept(con, web)
    BY <1>2, <1>3, ConflictRows DEF FilterDeletes
  <2>2. \E to \in FlushPlaces : Flush("flush", to)
    BY <1>3 DEF FilterDeletes, FlushPlaces
  <2>3. buffer' = [buffer EXCEPT !.deletes = kept] /\ UNCHANGED <<adi, staged>>
    BY <1>3 DEF FilterDeletes
  <2>4. "flush" \in FlushPlaces
    BY DEF FlushPlaces
  <2>5. /\ buffer'.phase = buffer.phase /\ buffer'.upserts = buffer.upserts
        /\ buffer'.deletes \subseteq buffer.deletes
        /\ buffer'.statuses = buffer.statuses
    BY <2>3, FlushFrame DEF Buffers
  <2>6. QED
    BY <1>1, <2>1, <2>2, <2>3, <2>4, <2>5, FlushFrame, FlushStep
<1>4. CASE DropRecords
  <2>1. Flush("drop", "forget") /\ UNCHANGED <<meta, staged, buffer>>
    BY <1>4 DEF DropRecords
  <2>2. /\ adi' \in [LocalIds -> Content \cup {None}]
        /\ \A l \in LocalIds : adi'[l] # None => adi'[l].contact = con[l]
    BY <1>4, FlushFrame DEF DropRecords
  <2>3. {"drop", "forget"} \subseteq FlushPlaces
    BY DEF FlushPlaces
  <2>4. QED
    BY <1>2, <2>1, <2>2, <2>3, FlushFrame, FlushStep
<1>5. CASE DropFailed
  <2>1. meta' \in [LocalIds -> Row \cup {None}] /\ RowsKept(con, web)
    BY <1>2, <1>5, ErrorRows DEF DropFailed
  <2>2. /\ Flush("drop", "check") /\ UNCHANGED <<adi, staged>>
        /\ buffer' = [buffer EXCEPT !.deletes = {}]
    BY <1>5 DEF DropFailed
  <2>3. {"drop", "check"} \subseteq FlushPlaces
    BY DEF FlushPlaces
  <2>4. /\ buffer'.phase = buffer.phase /\ buffer'.upserts = buffer.upserts
        /\ buffer'.deletes \subseteq buffer.deletes
        /\ buffer'.statuses = buffer.statuses
    BY <2>2, FlushFrame DEF Buffers
  <2>5. QED
    BY <1>1, <2>1, <2>2, <2>3, <2>4, FlushFrame, FlushStep
<1>6. CASE ForgetRows
  <2>1. meta' \in [LocalIds -> Row \cup {None}] /\ RowsKept(con, web)
    BY <1>2, <1>6, ForgottenRows
  <2>2. /\ Flush("forget", "check") /\ UNCHANGED <<adi, staged>>
        /\ buffer' = [buffer EXCEPT !.deletes = {}]
    BY <1>6 DEF ForgetRows
  <2>3. {"forget", "check"} \subseteq FlushPlaces
    BY DEF FlushPlaces
  <2>4. /\ buffer'.phase = buffer.phase /\ buffer'.upserts = buffer.upserts
        /\ buffer'.deletes \subseteq buffer.deletes
        /\ buffer'.statuses = buffer.statuses
    BY <2>2, FlushFrame DEF Buffers
  <2>5. QED
    BY <1>1, <2>1, <2>2, <2>3, <2>4, FlushFrame, FlushStep
<1>7. QED BY <1>3, <1>4, <1>5, <1>6
LEMMA FlushUpserts ==
    ASSUME NEW con, NEW web, Inv(con, web),
           FilterUpserts \/ Stage \/ WriteRecords \/ WriteFailed \/ CommitRows
    PROVE  Inv(con, web)'
<1> DEFINE kept == {u \in buffer.upserts :
                       u.checked => ~ChangedDuringSync(u.id)}
<1>1. /\ [buffer EXCEPT !.upserts = kept] \in Buffers
      /\ [buffer EXCEPT !.upserts = {}] \in Buffers
  BY FlushFrame DEF Buffers
<1>2. CASE FilterUpserts
  <2> DEFINE watched == {u \in buffer.upserts : u.checked}
  <2>1. RemoteKept(web)
    BY <1>2, SameWeb DEF Inv, FilterUpserts, Flush, reads
  <2>2. meta' = WithConflicts(watched)
          /\ watched \subseteq buffer.upserts \cup buffer.deletes
    BY <1>2 DEF FilterUpserts
  <2> HIDE DEF watched
  <2>3. meta' \in [LocalIds -> Row \cup {None}] /\ RowsKept(con, web)
    BY <2>1, <2>2, ConflictRows
  <2>4. \E to \in FlushPlaces : Flush("check", to)
    BY <1>2 DEF FilterUpserts, FlushPlaces
  <2>5. buffer' = [buffer EXCEPT !.upserts = kept] /\ UNCHANGED <<adi, staged>>
    BY <1>2 DEF FilterUpserts
  <2>6. "check" \in FlushPlaces
    BY DEF FlushPlaces
  <2>7. /\ buffer'.phase = buffer.phase /\ buffer'.deletes = buffer.deletes
        /\ buffer'.upserts \subseteq buffer.upserts
        /\ buffer'.statuses = buffer.statuses
    BY <2>5, FlushFrame DEF Buffers
  <2>8. QED
    BY <1>1, <2>3, <2>4, <2>5, <2>6, <2>7, FlushFrame, FlushStep
<1>3. CASE Stage
  <2>1. Flush("stage", "write") /\ UNCHANGED <<adi, meta, buffer>>
    BY <1>3 DEF Stage
  <2>2. {"stage", "write"} \subseteq FlushPlaces
    BY DEF FlushPlaces
  <2>3. ASSUME NEW l \in LocalIds, staged'[l] # staged[l]
        PROVE  staged'[l] \in Staged /\ Joined(l, staged'[l].wid)
    <3> DEFINE mine == {u \in buffer.upserts : u.id = l}
               u == CHOOSE u \in mine : TRUE
    <3>1. /\ mine # {}
          /\ staged'[l] = [wid |-> u.wid, content |-> u.content]
      BY <1>3, <2>3 DEF Stage
    <3>2. u \in mine
      BY <3>1, ChosenIn
    <3>3. /\ u.wid \in WavelogIds /\ Joined(l, u.wid) /\ u.content \in Content
      BY <3>2, BufferedJoins
    <3> HIDE DEF u
    <3>4. QED BY <3>1, <3>3 DEF Staged
  <2>4. staged' \in [LocalIds -> Staged \cup {None}]
    <3>1. staged' = [l \in LocalIds |-> staged'[l]]
      BY <1>3 DEF Stage
    <3>2. \A l \in LocalIds : staged'[l] \in Staged \cup {None}
      BY <2>3, FlushFrame
    <3>3. QED BY <3>1, <3>2
  <2>5. QED
    BY <2>1, <2>2, <2>3, <2>4, FlushFrame, FlushStep
<1>4. CASE WriteRecords
  <2>1. Flush("write", "commit") /\ UNCHANGED <<meta, staged, buffer>>
    BY <1>4 DEF WriteRecords
  <2>2. {"write", "commit"} \subseteq FlushPlaces
    BY DEF FlushPlaces
  <2>3. ASSUME NEW l \in LocalIds, adi'[l] # adi[l]
        PROVE  adi'[l] \in Content /\ adi'[l].contact = con[l]
    <3> DEFINE mine == {u \in buffer.upserts : u.id = l}
               u == CHOOSE u \in mine : TRUE
    <3>1. mine # {} /\ adi'[l] = u.content
      BY <1>4, <2>3 DEF WriteRecords
    <3>2. u \in mine
      BY <3>1, ChosenIn
    <3>3. u.id = l /\ u.content \in Content /\ u.content.contact = con[u.id]
      BY <3>2, BufferedJoins
    <3> HIDE DEF u
    <3>4. QED BY <3>1, <3>3
  <2>4. /\ adi' \in [LocalIds -> Content \cup {None}]
        /\ \A l \in LocalIds : adi'[l] # None => adi'[l].contact = con[l]
    <3>1. adi' = [l \in LocalIds |-> adi'[l]]
      BY <1>4 DEF WriteRecords
    <3>2. \A l \in LocalIds : /\ adi'[l] \in Content \cup {None}
                              /\ adi'[l] # None => adi'[l].contact = con[l]
      BY <2>3, FlushFrame
    <3>3. QED BY <3>1, <3>2
  <2>5. QED
    BY <2>1, <2>2, <2>4, FlushFrame, FlushStep
<1>5. ClearedStaged \in [LocalIds -> Staged \cup {None}]
        /\ \A l \in LocalIds : ClearedStaged[l] \in {staged[l], None}
  BY FlushFrame DEF ClearedStaged
<1>6. CASE WriteFailed
  <2>1. CASE buffer.phase = "linked"
    <3>1. /\ Flush("write", "baselines") /\ UNCHANGED adi
          /\ MarkErrors(buffer.upserts) /\ staged' = ClearedStaged
          /\ buffer' = [buffer EXCEPT !.upserts = {}]
      BY <1>6, <2>1 DEF WriteFailed, Flush
    <3>2. RemoteKept(web)
      BY <3>1, SameWeb DEF Inv, Flush, reads
    <3>3. meta' \in [LocalIds -> Row \cup {None}] /\ RowsKept(con, web)
      BY <3>1, <3>2, ErrorRows
    <3>4. {"write", "baselines"} \subseteq FlushPlaces
      BY DEF FlushPlaces
    <3>5. /\ buffer'.phase = buffer.phase /\ buffer'.deletes = buffer.deletes
          /\ buffer'.upserts \subseteq buffer.upserts
          /\ buffer'.statuses = buffer.statuses
      BY <3>1, FlushFrame DEF Buffers
    <3>6. QED
      BY <1>1, <1>5, <3>1, <3>3, <3>4, <3>5, FlushFrame, FlushStep
  <2>2. CASE buffer.phase # "linked"
    BY <1>6, <2>2, StopStep DEF WriteFailed, Environment
  <2>3. QED BY <2>1, <2>2
<1>7. CASE CommitRows
  <2>1. /\ Flush("commit", "baselines") /\ UNCHANGED adi
        /\ staged' = ClearedStaged
        /\ buffer' = [buffer EXCEPT !.upserts = {}]
    BY <1>7 DEF CommitRows
  <2>2. RemoteKept(web)
    BY <2>1, SameWeb DEF Inv, Flush, reads
  <2>3. meta' \in [LocalIds -> Row \cup {None}] /\ RowsKept(con, web)
    BY <1>7, <2>2, CommittedRows
  <2>4. {"commit", "baselines"} \subseteq FlushPlaces
    BY DEF FlushPlaces
  <2>5. /\ buffer'.phase = buffer.phase /\ buffer'.deletes = buffer.deletes
        /\ buffer'.upserts \subseteq buffer.upserts
        /\ buffer'.statuses = buffer.statuses
    BY <2>1, FlushFrame DEF Buffers
  <2>6. QED
    BY <1>1, <1>5, <2>1, <2>3, <2>4, <2>5, FlushFrame, FlushStep
<1>8. QED BY <1>2, <1>3, <1>4, <1>6, <1>7

(* The end of a flush, where the loop that filled the buffer goes on.      *)
LEMMA FlushBaselines ==
    ASSUME NEW con, NEW web, Inv(con, web), CommitBaselines
    PROVE  Inv(con, web)'
<1>1. /\ UNCHANGED <<adi, staged, remote, writer, dropped, job, todo, locals,
                     metas, view, item>>
      /\ buffer' = [buffer EXCEPT !.statuses = {}] /\ at = "baselines"
      /\ at' = IF todo # {} THEN buffer.phase
               ELSE IF buffer.phase = "linked" THEN "rescan" ELSE "lastscan"
  BY DEF CommitBaselines, Flush, Goto, Environment, reads, snapshot
<1>2. RemoteKept(web)
  BY <1>1, SameWeb DEF Inv
<1>3. meta' \in [LocalIds -> Row \cup {None}] /\ RowsKept(con, web)
  BY <1>2, BaselineRows
<1>4. /\ buffer' \in Buffers /\ buffer'.phase = buffer.phase
      /\ buffer.phase \in {"linked", "unlinked"}
      /\ buffer'.upserts = buffer.upserts /\ buffer'.deletes = buffer.deletes
      /\ buffer'.statuses \subseteq buffer.statuses
  BY <1>1, FlushFrame DEF Buffers
<1>5. TypeInv' /\ Records(con)'
  BY <1>1, <1>3, <1>4 DEF Inv, TypeInv, Records
<1>6. Loops'
  <2>1. job # "none"
    BY <1>1 DEF Inv, Loops
  <2>2. CASE buffer.phase = "linked"
    <3>1. \A l \in todo' : l \in LocalIds /\ IsLinked(metas[l])'
      BY <1>1, <2>2 DEF Inv, Loops, FlushPlaces, IsLinked
    <3>2. QED
      BY <1>1, <1>4, <2>1, <2>2, <3>1 DEF Inv, Loops, FlushPlaces
  <2>3. CASE buffer.phase = "unlinked"
    BY <1>1, <1>4, <2>1, <2>3 DEF Inv, Loops, FlushPlaces
  <2>4. QED BY <1>4, <2>2, <2>3
<1>7. ElsewhereKept(con, web)
  <2>1. ASSUME NEW l \in LocalIds, NEW w \in WavelogIds, Elsewhere(l, w)'
        PROVE  Joined(l, w)
    BY <1>1, <1>4, <2>1 DEF Elsewhere, Joined
  <2>2. QED BY <1>2, <2>1, SameElsewhere DEF Inv
<1>8. QED
  BY <1>1, <1>2, <1>3, <1>5, <1>6, <1>7, KeptStep DEF ReadRowsKept, DroppedKept

-----------------------------------------------------------------------------
(* Proofs of the steps of the loop over QSOs that are not linked.          *)

LEMMA ListUnlinkedStep ==
    ASSUME NEW con, NEW web, Inv(con, web), ListUnlinked
    PROVE  Inv(con, web)'
<1> USE DEF profile, Environment, index, snapshot, Goto
<1>1. /\ UNCHANGED <<adi, meta, staged, remote, writer, dropped, job, metas,
                     view, item>>
      /\ at = "relist" /\ at' = "unlinked" /\ buffer'.phase = "unlinked"
      /\ buffer' = [NoBuffer EXCEPT !.phase = "unlinked"]
      /\ todo' \subseteq {w \in WavelogIds : view[w] # None}
      /\ locals' = [l \in LocalIds |-> IF IsLinked(meta[l]) THEN None
                                       ELSE locals[l]]
  BY DEF ListUnlinked, NoBuffer
<1>2. /\ buffer' \in Buffers /\ buffer'.upserts = {} /\ buffer'.deletes = {}
      /\ buffer'.statuses = {}
  BY <1>1 DEF Buffers, NoBuffer
<1>3. Loops'
  BY <1>1 DEF Inv, Loops, FlushPlaces
<1>4. /\ locals' \in [LocalIds -> Content \cup {None}]
      /\ \A l \in LocalIds : locals'[l] # None => locals'[l].contact = con[l]
  BY <1>1 DEF Inv, TypeInv, Records
<1>5. QED BY <1>1, <1>2, <1>3, <1>4, BufferStep

(* A downloaded QSO is linked to a record of its contact, or pulled under  *)
(* an id of its own.                                                       *)
LEMMA IncomingStep ==
    ASSUME NEW con, NEW web, Inv(con, web), NEW w \in WavelogIds, Unlinked(w),
           NEW l \in LocalIds, Incoming(l, w), UNCHANGED <<adi, meta, staged>>,
           con[l] = web[w],
           locals' \in [LocalIds -> Content \cup {None}],
           \A k \in LocalIds : locals'[k] # None => locals'[k].contact = con[k]
    PROVE  Inv(con, web)'
<1> USE DEF Unlinked, profile, Environment, index, snapshot
<1> DEFINE u == [id |-> l, content |-> view[w], wid |-> w, checked |-> FALSE]
<1>1. /\ at = "unlinked" /\ at' \in {"unlinked", "flush"}
      /\ buffer' = [buffer EXCEPT !.upserts = @ \cup {u}]
  BY DEF Incoming, Buffer
<1>2. buffer.phase = "unlinked" /\ job # "none" /\ view[w] # None
  BY DEF Inv, Loops
<1>3. view[w] \in Content /\ view[w].contact = web[w] /\ remote[w] # None
  BY <1>2 DEF Inv, TypeInv, Entries
<1>4. u \in Upsert /\ u.content.contact = con[u.id]
        /\ remote[u.wid] # None /\ con[u.id] = web[u.wid]
  BY <1>3, EntryTypes
<1> HIDE DEF u
<1>5. /\ buffer' \in Buffers /\ buffer'.phase = buffer.phase
      /\ buffer'.upserts \ buffer.upserts \subseteq {u}
      /\ buffer'.deletes = buffer.deletes /\ buffer'.statuses = buffer.statuses
  BY <1>1, <1>4 DEF Inv, TypeInv, Buffers
<1>6. Loops'
  BY <1>1, <1>2, <1>5 DEF Inv, Loops, FlushPlaces
<1>7. QED BY <1>4, <1>5, <1>6, BufferStep

LEMMA UnlinkedItemStep ==
    ASSUME NEW con \in LocalContacts, NEW web \in WebContacts, Inv(con, web),
           NEW w \in WavelogIds, UnlinkedItem(w)
    PROVE  \E newCon \in LocalContacts : Inv(newCon, web)'
<1> USE DEF profile, Environment, index, snapshot
<1>1. Unlinked(w) /\ UNCHANGED <<adi, meta, staged>>
  BY DEF UnlinkedItem, Unlinked
<1>2. view[w] # None /\ view[w] \in Content /\ view[w].contact = web[w]
  BY <1>1 DEF Unlinked, Inv, Loops, TypeInv, Entries
<1>3. CASE UNCHANGED <<locals, at, buffer>>
  <2>1. UNCHANGED <<adi, meta, staged, remote, writer, dropped, job, metas,
                    view, item>> /\ todo' \subseteq todo
    BY <1>1 DEF Unlinked
  <2>2. TypeInv' /\ Records(con)'
    BY <1>3, <2>1 DEF Inv, TypeInv, Records
  <2>3. Loops'
    BY <1>1, <1>3, <2>1 DEF Inv, Loops, FlushPlaces, Unlinked
  <2>4. QED
    BY <1>3, <2>1, <2>2, <2>3, QuietStep DEF ReadRowsKept
<1>4. CASE Link(w)
  <2>1. PICK l \in Matches(w) :
           Incoming(l, w) /\ locals' = [locals EXCEPT ![l] = None]
    BY <1>4 DEF Link
  <2>2. l \in LocalIds /\ con[l] = web[w]
    BY <1>2, <2>1 DEF Matches, Inv, Records
  <2>3. /\ locals' \in [LocalIds -> Content \cup {None}]
        /\ \A k \in LocalIds : locals'[k] # None => locals'[k].contact = con[k]
    BY <2>1 DEF Inv, TypeInv, Records
  <2>4. Inv(con, web)'
    BY <1>1, <2>1, <2>2, <2>3, IncomingStep
  <2>5. QED BY <2>4
<1>5. CASE Pull(w)
  <2>1. PICK l \in FreshIds : Incoming(l, w)
    BY <1>5 DEF Pull
  <2>2. l \in LocalIds
    BY DEF FreshIds
  <2>3. PICK c \in Contacts : c = view[w].contact
    BY <1>2 DEF Content
  <2> DEFINE newCon == [con EXCEPT ![l] = c]
  <2>4. newCon \in LocalContacts /\ newCon[l] = c /\ Inv(newCon, web)
    BY FreshLocal
  <2> HIDE DEF newCon
  <2>5. /\ locals' \in [LocalIds -> Content \cup {None}]
        /\ \A k \in LocalIds :
              locals'[k] # None => locals'[k].contact = newCon[k]
    BY <1>5, <2>4 DEF Pull, Inv, TypeInv, Records
  <2>6. Inv(newCon, web)'
    BY <1>1, <1>2, <2>1, <2>2, <2>3, <2>4, <2>5, IncomingStep
  <2>7. QED BY <2>4, <2>6
<1>6. QED BY <1>3, <1>4, <1>5 DEF UnlinkedItem

-----------------------------------------------------------------------------
(* Proofs of the theorems. *)

(* A profile as a full sync leaves it.                                     *)
LEMMA InitStep == Init => IInv
<1> SUFFICES ASSUME Init PROVE IInv
  OBVIOUS
<1>1. PICK start \in Starts :
         adi = start.adi /\ meta = start.meta /\ remote = start.remote
  BY DEF Init
<1>2. /\ adi \in [LocalIds -> Content \cup {None}]
      /\ meta \in [LocalIds -> Row \cup {None}]
      /\ remote \in [WavelogIds -> Content \cup {None}]
      /\ \A l \in LocalIds :
            (meta[l] # None /\ meta[l].wid # None) =>
               /\ meta[l].status # "pending_delete"
               /\ adi[l] # None /\ remote[meta[l].wid] # None
               /\ adi[l].contact = remote[meta[l].wid].contact
  BY <1>1, StartsAssumption
<1>3. /\ staged = [l \in LocalIds |-> None] /\ writer = None /\ job = "none"
      /\ at = "idle" /\ todo = {} /\ item = None
      /\ locals = [l \in LocalIds |-> None]
      /\ metas = [l \in LocalIds |-> None]
      /\ view = [w \in WavelogIds |-> None]
      /\ buffer = NoBuffer
  BY DEF Init, NothingStaged, NoLog, NoView
<1> DEFINE con == [l \in LocalIds |->
                      IF adi[l] = None THEN None ELSE adi[l].contact]
           web == [w \in WavelogIds |->
                      IF remote[w] = None THEN None ELSE remote[w].contact]
<1>4. con \in LocalContacts /\ web \in WebContacts
  BY <1>2 DEF LocalContacts, WebContacts, Content
<1>5. /\ \A l \in LocalIds : adi[l] # None => con[l] = adi[l].contact
      /\ \A w \in WavelogIds : remote[w] # None => web[w] = remote[w].contact
  OBVIOUS
<1> HIDE DEF con, web
<1>6. TypeInv
  BY <1>2, <1>3 DEF TypeInv, NoBuffer, Buffers
<1>7. Loops
  BY <1>3 DEF Loops, NoBuffer, FlushPlaces
<1>8. Deletions
  BY <1>2, <1>3 DEF Deletions, DeletionOf, IsLinked
<1>9. Records(con) /\ Entries(web)
  BY <1>3, <1>5 DEF Records, Entries, Live, NoBuffer
<1>10. Joins(con, web)
  <2>1. ASSUME NEW l \in LocalIds, NEW w \in WavelogIds, Joined(l, w)
        PROVE  meta[l] # None /\ meta[l].wid = w
    BY <1>3, <2>1 DEF Joined, NoBuffer
  <2>2. QED
    BY <1>2, <1>5, <2>1, NoneAssumption DEF Joins
<1>11. QED
  BY <1>4, <1>6, <1>7, <1>8, <1>9, <1>10 DEF IInv, Inv

(* A step that changes nothing.                                            *)
LEMMA StutterStep ==
    ASSUME NEW con, NEW web, Inv(con, web), UNCHANGED vars
    PROVE  Inv(con, web)'
<1> USE DEF vars, profile, running, reads, snapshot, index
<1>1. TypeInv' /\ Records(con)'
  BY DEF Inv, TypeInv, Records
<1>2. Loops'
  BY DEF Inv, Loops
<1>3. QED
  BY <1>1, <1>2, QuietStep DEF ReadRowsKept

(* The steps of the full sync.                                             *)
LEMMA FullSyncStep ==
    ASSUME NEW con \in LocalContacts, NEW web \in WebContacts, Inv(con, web),
           FullSync
    PROVE  IInv'
<1>1. CASE SyncReconcile \/ Snapshot \/ Fetch \/ FetchFailed \/ ListLinked
             \/ Finish
  <2>1. Inv(con, web)'
    BY <1>1, ReconcileSteps, ListStep, FetchStep, EndStep
  <2>2. QED BY <2>1 DEF IInv
<1>2. CASE LinkedPhase
  <2>1. Inv(con, web)'
    BY <1>2, LinkedSteps, RequestSteps, RequestFailedStep, AnsweredStep,
       ListStep DEF LinkedPhase
  <2>2. QED BY <2>1 DEF IInv
<1>3. CASE FlushBuffer
  <2>1. Inv(con, web)'
    BY <1>3, FlushDeletes, FlushUpserts, FlushBaselines DEF FlushBuffer
  <2>2. QED BY <2>1 DEF IInv
<1>4. CASE UnlinkedPhase
  <2>1. CASE ListUnlinked \/ UnlinkedDone
    <3>1. Inv(con, web)'
      BY <2>1, ListUnlinkedStep, ListStep
    <3>2. QED BY <3>1 DEF IInv
  <2>2. CASE \E w \in WavelogIds : UnlinkedItem(w)
    <3>1. \E newCon \in LocalContacts : Inv(newCon, web)'
      BY <2>2, UnlinkedItemStep
    <3>2. QED BY <3>1 DEF IInv
  <2>3. QED BY <1>4, <2>1, <2>2 DEF UnlinkedPhase
<1>5. QED BY <1>1, <1>2, <1>3, <1>4 DEF FullSync

(* The steps of any sync.                                                  *)
LEMMA SyncStep ==
    ASSUME NEW con \in LocalContacts, NEW web \in WebContacts, Inv(con, web),
           Sync
    PROVE  IInv'
<1>1. CASE Scans \/ UploadsDone
  <2>1. Inv(con, web)'
    BY <1>1, ScanStep, EndStep
  <2>2. QED BY <2>1 DEF IInv
<1>2. CASE PushList \/ FullList \/ UploadRecorded
  <2>1. Inv(con, web)'
    BY <1>2, ListStep, UploadRecordedStep
  <2>2. QED BY <2>1 DEF IInv
<1>3. ASSUME NEW l \in LocalIds,
             UploadMissing(l) \/ UploadCreated(l) \/ UploadFailed(l)
      PROVE  IInv'
  <2>1. \E newWeb \in WebContacts : Inv(con, newWeb)'
    BY <1>3, UploadMissingStep, UploadCreatedStep, UploadFailedStep
  <2>2. QED BY <2>1 DEF IInv
<1>4. QED
  BY <1>1, <1>2, <1>3, FullSyncStep DEF Sync, Upload

(* The invariant is inductive.                                             *)
LEMMA NextStep == IInv /\ [Next]_vars => IInv'
<1> SUFFICES ASSUME IInv, [Next]_vars PROVE IInv'
  OBVIOUS
<1>1. PICK con \in LocalContacts, web \in WebContacts : Inv(con, web)
  BY DEF IInv
<1>2. CASE AddQso
  <2>1. \E newCon \in LocalContacts : Inv(newCon, web)'
    BY <1>1, <1>2, AddQsoStep
  <2>2. QED BY <2>1 DEF IInv
<1>3. CASE ResolveConflict \/ RemoteChange \/ ResolveFails
  <2>1. \E newWeb \in WebContacts : Inv(con, newWeb)'
    BY <1>1, <1>3, ResolveConflictStep, RemoteChangeStep, ResolveFailsStep
  <2>2. QED BY <2>1 DEF IInv
<1>4. CASE \/ StartWrite \/ WriteLog \/ WriteMeta \/ IndexScan \/ RefreshScan
           \/ RefreshReconcile \/ LoseRecord \/ Cancel \/ Crash
  <2>1. Inv(con, web)'
    BY <1>1, <1>4, BesideStep, WriteLogStep, WriteMetaStep, ReconcileSteps,
       EndStep
  <2>2. QED BY <2>1 DEF IInv
<1>5. CASE StartPush \/ StartDelta \/ StartFull
  <2>1. Inv(con, web)'
    BY <1>1, <1>5, StartStep DEF StartPush, StartDelta, StartFull
  <2>2. QED BY <2>1 DEF IInv
<1>6. CASE Sync
  BY <1>1, <1>6, SyncStep
<1>7. CASE UNCHANGED vars
  <2>1. Inv(con, web)'
    BY <1>1, <1>7, StutterStep
  <2>2. QED BY <2>1 DEF IInv
<1>8. QED
  BY <1>2, <1>3, <1>4, <1>5, <1>6, <1>7 DEF Next, User, Others

-----------------------------------------------------------------------------
(* What is left of the bounds are numbers, and steps only take from them.  *)
Remaining == left \in [Kinds -> Nat]

LEMMA RemainingInit == Init => Remaining
BY BoundAssumption DEF Init, Remaining

LEMMA SpendStep ==
    ASSUME Remaining, left' = left \/ \E kind \in Kinds : Spend(kind)
    PROVE  Remaining'
BY DEF Remaining, Spend

(* The flushes spend only for what they fail to write.                     *)
LEMMA RemainingStep == Remaining /\ [Next]_vars => Remaining'
<1> SUFFICES ASSUME Remaining, [Next]_vars
             PROVE  left' = left \/ \E kind \in Kinds : Spend(kind)
  BY SpendStep
<1>1. CASE User \/ WriteLog \/ WriteMeta
  BY <1>1 DEF User, AddQso, StartWrite, ResolveConflict, WriteLog, WriteMeta,
              Kinds
<1>2. CASE StartPush \/ StartDelta \/ StartFull
  BY <1>2 DEF StartPush, StartDelta, StartFull, Kinds, Start, Remaining
<1>3. CASE IndexScan \/ RefreshScan \/ RefreshReconcile \/ Others
  BY <1>3 DEF IndexScan, RefreshScan, RefreshReconcile, Others, RemoteChange,
              ResolveFails,
              LoseRecord, Cancel, Crash, Kinds
<1>4. CASE Scans \/ Upload \/ UploadsDone
  BY <1>4 DEF Scans, Scan, Upload, PushList, FullList, UploadRecorded,
              UploadMissing, UploadCreated, UploadFailed, UploadsDone, Kinds
<1>5. CASE FlushBuffer
  BY <1>5 DEF FlushBuffer, FilterDeletes, DropRecords, DropFailed, ForgetRows,
              FilterUpserts, Stage, WriteRecords, WriteFailed, CommitRows,
              CommitBaselines, Kinds
<1>6. CASE LinkedPhase
  BY <1>6 DEF LinkedPhase, LinkedDeletedBoth, LinkedVanished, LinkedConflict,
              LinkedRemoteDeleted, LinkedBothChanged, LinkedRemoteChanged,
              LinkedUnchanged, Linked, RemoteDeleted, RemotePatched,
              RequestFailed, Answered, LinkedDone, Kinds
<1>7. CASE UnlinkedPhase
  BY <1>7 DEF UnlinkedPhase, ListUnlinked, UnlinkedItem, Unlinked, UnlinkedDone
<1>8. CASE SyncReconcile \/ Snapshot \/ Fetch \/ FetchFailed \/ ListLinked
             \/ Finish
  BY <1>8 DEF SyncReconcile, Snapshot, Fetch, FetchFailed, ListLinked, Finish,
              Kinds
<1>9. CASE UNCHANGED vars
  BY <1>9 DEF vars
<1>10. QED
  BY <1>1, <1>2, <1>3, <1>4, <1>5, <1>6, <1>7, <1>8, <1>9
     DEF Next, Sync, FullSync

-----------------------------------------------------------------------------
(* What a step may do to a QSO on Wavelog.                                 *)
Explained(w) ==
    (Live(w) /\ remote'[w] = Gone /\ left'["remote"] = left["remote"])
       => remote[w].contact \in dropped

(* A record that is written is no deletion.                                *)
LEMMA WritesAreNoDeletions ==
    ASSUME TypeInv, NEW v \in WavelogIds, NEW c \in Content,
           remote' = [remote EXCEPT ![v] = c], NEW w \in WavelogIds
    PROVE  Explained(w)
BY AbsenceAssumption DEF Explained, TypeInv, Live, Content, Gone

(* A deletion the engine asks for is one of a row that waits for it.       *)
LEMMA AskedDeletion ==
    ASSUME NEW con, NEW web, Inv(con, web), at = "linked",
           NEW l \in LocalIds, l \in todo, ToDelete(l),
           remote' = [remote EXCEPT ![metas[l].wid] = Gone],
           NEW w \in WavelogIds
    PROVE  Explained(w)
<1>1. IsLinked(metas[l]) /\ metas[l].wid \in WavelogIds
  BY TakenRow
<1>2. metas[l].status = "pending_delete"
  BY DEF ToDelete
<1>3. Live(metas[l].wid) => remote[metas[l].wid].contact \in dropped
  BY <1>1, <1>2 DEF Inv, Deletions, DeletionOf
<1>4. QED
  BY <1>1, <1>3 DEF Explained, Inv, TypeInv, Live

(* What is patched was downloaded, and is in the log.                      *)
LEMMA AskedPatch ==
    ASSUME NEW con, NEW web, Inv(con, web), at = "linked",
           NEW l \in LocalIds, l \in todo, ToPatch(l), Live(metas[l].wid)
    PROVE  /\ metas[l].wid \in WavelogIds
           /\ Patched(remote[metas[l].wid], locals[l]) \in Content
<1>1. metas[l].wid \in WavelogIds
  BY TakenRow
<1>2. remote[metas[l].wid] \in Content
  BY <1>1 DEF Inv, TypeInv, Live
<1>3. locals[l] \in Content
  BY DEF Inv, TypeInv, ToPatch, Comparable, Present
<1>4. QED BY <1>1, <1>2, <1>3 DEF Patched

(* So every step explains itself.                                          *)
LEMMA ExplainedStep ==
    ASSUME NEW con, NEW web, Inv(con, web), Remaining, [Next]_vars,
           NEW w \in WavelogIds
    PROVE  Explained(w)
<1> USE DEF profile, running, reads, snapshot, index, Environment
<1> SUFFICES ASSUME remote' # remote PROVE Explained(w)
  BY AbsenceAssumption DEF Explained, Live
<1>1. TypeInv
  BY DEF Inv
<1>2. CASE RemoteChange
  <2>1. Spend("remote") /\ "remote" \in Kinds
    BY <1>2 DEF RemoteChange, Kinds
  <2>2. left'["remote"] # left["remote"]
    BY <2>1 DEF Spend, Remaining
  <2>3. QED BY <2>2 DEF Explained
<1>3. CASE ResolveConflict \/ ResolveFails
  <2>1. PICK l \in LocalIds : CanResolve(l) /\ (KeepLocal(l) \/ Resend(l))
    BY <1>3 DEF ResolveConflict, ResolveFails, TakeWavelog
  <2>2. adi[l] \in Content /\ meta[l].wid \in WavelogIds
    BY <1>1, <2>1, LinkedType DEF CanResolve, TypeInv, IsLinked
  <2>3. \E v \in WavelogIds, c \in Content : remote' = [remote EXCEPT ![v] = c]
    <3>1. CASE meta[l].reason = "remote_deleted"
      BY <2>1, <2>2, <3>1 DEF KeepLocal, Resend, NextWavelogId
    <3>2. CASE meta[l].reason # "remote_deleted"
      <4>1. /\ Live(meta[l].wid)
            /\ remote' = [remote EXCEPT ![meta[l].wid] =
                             Patched(remote[meta[l].wid], adi[l])]
        BY <2>1, <3>2 DEF KeepLocal, Resend
      <4>2. Patched(remote[meta[l].wid], adi[l]) \in Content
        BY <1>1, <2>2, <4>1 DEF Patched, TypeInv, Live
      <4>3. QED BY <2>2, <4>1, <4>2
    <3>3. QED BY <3>1, <3>2
  <2>4. QED BY <1>1, <2>3, WritesAreNoDeletions
<1>4. ASSUME NEW l \in LocalIds, UploadCreated(l) \/ UploadFailed(l)
      PROVE  Explained(w)
  <2>1. locals[l] \in Content
    BY <1>1, <1>4 DEF UploadCreated, UploadFailed, TypeInv
  <2>2. PICK v \in WavelogIds : remote' = [remote EXCEPT ![v] = locals[l]]
    BY <1>4 DEF UploadCreated, UploadFailed, NextWavelogId
  <2>3. QED BY <1>1, <2>1, <2>2, WritesAreNoDeletions
<1>5. ASSUME NEW l \in LocalIds,
             RemoteDeleted(l) \/ RemotePatched(l) \/ RequestFailed(l)
      PROVE  Explained(w)
  <2>1. at = "linked" /\ l \in todo
    BY <1>5 DEF RemoteDeleted, RemotePatched, RequestFailed, Request, Take
  <2>2. \/ /\ ToDelete(l)
           /\ remote' = [remote EXCEPT ![metas[l].wid] = Gone]
        \/ /\ ToPatch(l) /\ Live(metas[l].wid)
           /\ remote' = [remote EXCEPT ![metas[l].wid] =
                            Patched(remote[metas[l].wid], locals[l])]
    BY <1>5 DEF RemoteDeleted, RemotePatched, RequestFailed
  <2>3. QED
    BY <1>1, <2>1, <2>2, AskedDeletion, AskedPatch, WritesAreNoDeletions
<1>6. CASE AddQso \/ StartWrite \/ WriteLog \/ WriteMeta
  BY <1>6 DEF AddQso, StartWrite, WriteLog, WriteMeta
<1>7. CASE StartPush \/ StartDelta \/ StartFull
  BY <1>7 DEF StartPush, StartDelta, StartFull, Start
<1>8. CASE \/ IndexScan \/ RefreshScan \/ RefreshReconcile \/ LoseRecord
           \/ Cancel \/ Crash
  BY <1>8 DEF IndexScan, RefreshScan, RefreshReconcile, LoseRecord, Cancel,
              Crash
<1>9. CASE \/ Scans \/ PushList \/ FullList \/ UploadRecorded \/ UploadsDone
           \/ \E l \in LocalIds : UploadMissing(l)
  BY <1>9 DEF Scans, Scan, PushList, FullList, UploadRecorded, UploadMissing,
              UploadsDone
<1>10. CASE FlushBuffer
  BY <1>10 DEF FlushBuffer, FilterDeletes, DropRecords, DropFailed, ForgetRows,
               FilterUpserts, Stage, WriteRecords, WriteFailed, CommitRows,
               CommitBaselines, Flush
<1>11. CASE \/ Answered \/ LinkedDone
            \/ \E l \in LocalIds :
                 \/ LinkedDeletedBoth(l) \/ LinkedVanished(l)
                 \/ LinkedConflict(l) \/ LinkedRemoteDeleted(l)
                 \/ LinkedBothChanged(l) \/ LinkedRemoteChanged(l)
                 \/ LinkedUnchanged(l)
  BY <1>11 DEF LinkedDeletedBoth, LinkedVanished, LinkedConflict,
               LinkedRemoteDeleted, LinkedBothChanged, LinkedRemoteChanged,
               LinkedUnchanged, Linked, Answered, LinkedDone
<1>12. CASE UnlinkedPhase
  BY <1>12 DEF UnlinkedPhase, ListUnlinked, UnlinkedItem, Unlinked,
               UnlinkedDone
<1>13. CASE SyncReconcile \/ Snapshot \/ Fetch \/ FetchFailed \/ ListLinked
              \/ Finish
  BY <1>13 DEF SyncReconcile, Snapshot, Fetch, FetchFailed, ListLinked, Finish
<1>14. CASE UNCHANGED vars
  BY <1>14 DEF vars
<1>15. QED
  BY <1>2, <1>3, <1>4, <1>5, <1>6, <1>7, <1>8, <1>9, <1>10, <1>11, <1>12,
     <1>13, <1>14
     DEF Next, User, Others, Sync, FullSync, Upload, LinkedPhase

-----------------------------------------------------------------------------
(* The invariant holds: every local id and every id of Wavelog belong to   *)
(* one contact, all that joins two ids (rows, staged writes, the buffers   *)
(* and answers of a sync) joins ids of the same contact, and a row waits   *)
(* for a deletion only if the user deleted its record (MetadataDB,         *)
(* SyncEngine.sync, SyncWriteBuffer.flush).                                *)
THEOREM LinksKeepContacts == Spec => []IInv
<1>1. Init => IInv
  BY InitStep
<1>2. IInv /\ [Next]_vars => IInv'
  BY NextStep
<1>3. QED BY <1>1, <1>2, PTL DEF Spec

LEMMA RemainingAlways == Spec => []Remaining
<1>1. Init => Remaining
  BY RemainingInit
<1>2. Remaining /\ [Next]_vars => Remaining'
  BY RemainingStep
<1>3. QED BY <1>1, <1>2, PTL DEF Spec

(* The engine deletes a QSO on Wavelog only because the user deleted its   *)
(* record in the application (mark_pending_delete): a record that is       *)
(* missing from the log, for whatever other reason, is never taken for a   *)
(* deletion by reconcile_index and sync, whatever interrupts them.         *)
THEOREM DeletionsOnWavelogAreTheUsers == Spec => RemoteDeletionsAreExplicit
<1>1. IInv /\ Remaining /\ [Next]_vars =>
         [\A w \in WavelogIds : Explained(w)]_vars
  BY ExplainedStep DEF IInv
<1>2. (\A w \in WavelogIds : Explained(w)) <=>
      (\A w \in WavelogIds :
          (Live(w) /\ remote'[w] = Gone /\ left'["remote"] = left["remote"])
             => remote[w].contact \in dropped)
  BY DEF Explained
<1>3. QED
  BY <1>1, <1>2, LinksKeepContacts, RemainingAlways, PTL
     DEF Spec, RemoteDeletionsAreExplicit

-----------------------------------------------------------------------------
(* Proofs of what a reconciliation may drop. *)

(* The log a scanner has read and not yet reconciled the rows with.        *)
ScanOf(scanner) == IF scanner = "refresh" THEN refresh ELSE locals

(* A row that a scanner does not take for one of a deleted record.         *)
Covered(l, scanner) ==
    meta[l] # None => IsLinked(meta[l]) \/ scanner \in meta[l].after

(* What is in the log and not in a scan came later, and so did its row, or *)
(* it has a link.                                                          *)
ScansKnowRows ==
    \A l \in LocalIds : \A s \in Scanning :
        (adi[l] # None /\ ~Writing(l) /\ ScanOf(s)[l] = None) => Covered(l, s)

(* A row without a link comes from one without a link, or began after the  *)
(* scans.                                                                  *)
Grown(new, old, scanning) ==
    (new # None /\ ~IsLinked(new)) =>
        \/ old # None /\ ~IsLinked(old) /\ new.after = old.after
        \/ new.after = scanning

RowsGrow == \A l \in LocalIds : Grown(meta'[l], meta[l], Scanning)

LEMMA SameGrows ==
    ASSUME NEW row, NEW scanning
    PROVE  Grown(row, row, scanning) /\ Grown(None, row, scanning)
BY DEF Grown

LEMMA SetStatusGrows ==
    ASSUME NEW row \in Row \cup {None}, NEW status, NEW wid, NEW base,
           NEW remoteBase, NEW reason, NEW scanning, NEW new,
           new = SetStatus(row, status, wid, base, remoteBase, reason,
                           scanning)
    PROVE  Grown(new, row, scanning)
<1> DEFINE old == IF row = None THEN NewRow(status, 0, scanning) ELSE row
           link   == IF wid = None THEN old.wid ELSE wid
           local  == IF base = None THEN old.base ELSE base
           web    == IF remoteBase = None THEN old.remoteBase ELSE remoteBase
<1>1. new = [old EXCEPT !.status = status, !.wid = link, !.base = local,
                        !.remoteBase = web, !.reason = reason]
  BY DEF SetStatus
<1>2. CASE row = None
  <2>1. old = NewRow(status, 0, scanning)
    BY <1>2
  <2> HIDE DEF old, link, local, web
  <2>2. new.after = scanning
    BY <1>1, <2>1 DEF NewRow
  <2>3. QED BY <2>2 DEF Grown
<1>3. CASE row # None
  <2>1. old = row /\ row \in Row
    BY <1>3
  <2>2. link = IF wid = None THEN row.wid ELSE wid
    BY <2>1
  <2> HIDE DEF old, link, local, web
  <2>3. new.after = row.after /\ new.wid = link
    BY <1>1, <2>1 DEF Row
  <2>4. QED BY <1>3, <2>2, <2>3 DEF Grown, IsLinked
<1>4. QED BY <1>2, <1>3

LEMMA StatusGrows ==
    ASSUME NEW row \in Row \cup {None}, NEW wid, NEW base, NEW remoteBase,
           NEW reason, NEW scanning
    PROVE  /\ Grown(SetSynced(row, wid, base, remoteBase, scanning), row, scanning)
           /\ Grown(SetConflict(row, wid, reason, scanning), row, scanning)
           /\ Grown(SetError(row, wid, scanning), row, scanning)
BY SetStatusGrows DEF SetSynced, SetConflict, SetError

LEMMA NewRowAfter ==
    ASSUME NEW status, NEW version, NEW scanning, NEW new,
           new = NewRow(status, version, scanning)
    PROVE  new.after = scanning
BY DEF NewRow

LEMMA EnsureLocalGrows ==
    ASSUME NEW row \in Row \cup {None}, NEW content,
           NEW scanning \in SUBSET Scanners, NEW new,
           new = EnsureLocal(row, content, scanning)
    PROVE  /\ Grown(new, row, scanning)
           /\ row = None => new.after = scanning
           /\ new # None
           /\ row # None => new.after = row.after /\ new.wid = row.wid
<1>0. new \in Row /\ new # None
  BY EnsureLocalRow, AbsenceAssumption
<1>1. CASE row = None
  <2>1. new = NewRow("local_only", 1, scanning)
    BY <1>1 DEF EnsureLocal
  <2>2. new.after = scanning
    BY <2>1, NewRowAfter
  <2>3. QED BY <1>0, <1>1, <2>2 DEF Grown
<1>2. CASE row # None
  <2>1. /\ row \in Row
        /\ \/ new = row
           \/ new = [row EXCEPT !.status = "modified", !.version = @ + 1]
    BY <1>2 DEF EnsureLocal
  <2> DEFINE v == row.version + 1
  <2> HIDE DEF v
  <2>2. [row EXCEPT !.status = "modified", !.version = v].after = row.after
        /\ [row EXCEPT !.status = "modified", !.version = v].wid = row.wid
    BY <2>1 DEF Row
  <2>3. new.after = row.after /\ new.wid = row.wid
    BY <2>1, <2>2 DEF v
  <2>4. QED BY <1>0, <1>2, <2>3 DEF Grown, IsLinked
<1>3. QED BY <1>1, <1>2

LEMMA MarkPendingDeleteGrows ==
    ASSUME NEW row \in Row \cup {None}, NEW scanning
    PROVE  Grown(MarkPendingDelete(row), row, scanning)
<1>1. CASE row = None \/ row.wid = None
  BY <1>1 DEF MarkPendingDelete, Grown
<1>2. CASE row # None /\ row.wid # None
  <2> DEFINE marked ==
               [row EXCEPT !.status = "pending_delete", !.version = @ + 1]
  <2>1. row \in Row /\ MarkPendingDelete(row) = marked
    BY <1>2 DEF MarkPendingDelete
  <2>2. "pending_delete" \in Status
    BY DEF Status
  <2>3. marked.wid = row.wid
    BY <2>1, <2>2, BumpedRow
  <2> HIDE DEF marked
  <2>4. QED BY <1>2, <2>1, <2>3 DEF Grown, IsLinked
<1>3. QED BY <1>1, <1>2

(* If rows grow, scans go on or are new, and what enters the log has a row *)
(* that is linked or began after the scans, then the scans still know.     *)
LEMMA KnownStep ==
    ASSUME ScansKnowRows, RowsGrow,
           \A s \in Scanning' :
               \/ ScanOf(s)' = adi'
               \/ s \in Scanning /\ ScanOf(s)' = ScanOf(s),
           \A l \in LocalIds :
               (adi'[l] # None /\ ~Writing(l)') =>
                   \/ adi[l] # None /\ ~Writing(l)
                   \/ meta'[l] # None =>
                         IsLinked(meta'[l]) \/ meta'[l].after = Scanning
    PROVE  ScansKnowRows'
<1> SUFFICES ASSUME NEW l \in LocalIds, NEW s \in Scanning',
                    adi'[l] # None, ~Writing(l)', ScanOf(s)'[l] = None
             PROVE  Covered(l, s)'
  BY DEF ScansKnowRows
<1>1. s \in Scanning /\ ScanOf(s)[l] = None
  OBVIOUS
<1>2. CASE adi[l] # None /\ ~Writing(l)
  <2>1. Covered(l, s)
    BY <1>1, <1>2 DEF ScansKnowRows
  <2>2. Grown(meta'[l], meta[l], Scanning)
    BY DEF RowsGrow
  <2>3. QED BY <1>1, <2>1, <2>2 DEF Grown, Covered, IsLinked
<1>3. CASE meta'[l] # None =>
              IsLinked(meta'[l]) \/ meta'[l].after = Scanning
  BY <1>1, <1>3 DEF Covered, IsLinked
<1>4. QED BY <1>2, <1>3

(* A step that lets the sync rest.                                         *)
LEMMA RestingStep ==
    ASSUME ScansKnowRows, RowsGrow, UNCHANGED <<running, refresh>>,
           \A l \in LocalIds :
               adi'[l] # None =>
                   \/ adi[l] # None
                   \/ meta'[l] # None =>
                         IsLinked(meta'[l]) \/ meta'[l].after = Scanning
    PROVE  ScansKnowRows'
<1>1. \A s \in Scanning' : s \in Scanning /\ ScanOf(s)' = ScanOf(s)
  BY DEF Scanning, ScanOf, running, reads
<1>2. \A l \in LocalIds : Writing(l)' <=> Writing(l)
  BY DEF Writing, running
<1>3. QED BY <1>1, <1>2, KnownStep

(* A step of the sync that neither begins nor has a reconciliation to do,  *)
(* nor has records written that are not linked.                            *)
LEMMA WorkingStep ==
    ASSUME ScansKnowRows, RowsGrow, refresh' = refresh,
           at' # "reconcile", at # "commit",
           \A l \in LocalIds : (adi'[l] # None /\ ~Writing(l)') => adi[l] # None
    PROVE  ScansKnowRows'
<1>1. \A s \in Scanning' : s \in Scanning /\ ScanOf(s)' = ScanOf(s)
  BY DEF Scanning, ScanOf
<1>2. \A l \in LocalIds : ~Writing(l)
  BY DEF Writing
<1>3. QED BY <1>1, <1>2, KnownStep

(* Rows that stay as they are grow.                                        *)
LEMMA SameRowsGrow == ASSUME meta' = meta PROVE RowsGrow
BY SameGrows DEF RowsGrow

LEMMA OneRowGrows ==
    ASSUME TypeInv, NEW k \in LocalIds, NEW new,
           Grown(new, meta[k], Scanning), meta' = [meta EXCEPT ![k] = new]
    PROVE  RowsGrow
<1>1. ASSUME NEW l \in LocalIds PROVE Grown(meta'[l], meta[l], Scanning)
  <2>1. meta'[l] = IF l = k THEN new ELSE meta[l]
    BY DEF TypeInv
  <2>2. QED BY <2>1, SameGrows
<1>2. QED BY <1>1 DEF RowsGrow

-----------------------------------------------------------------------------
(* Proofs of the steps of the user and of others. *)

LEMMA UserStep ==
    ASSUME TypeInv, ScansKnowRows,
           AddQso \/ StartWrite \/ WriteLog \/ WriteMeta
    PROVE  ScansKnowRows'
<1>1. CASE AddQso
  <2>1. PICK k \in FreshIds, c \in Content :
           /\ adi' = [adi EXCEPT ![k] = c]
           /\ meta' = [meta EXCEPT ![k] = EnsureLocal(@, c, Scanning)]
    BY <1>1 DEF AddQso
  <2>2. k \in LocalIds /\ meta[k] = None /\ meta[k] \in Row \cup {None}
    BY DEF FreshIds
  <2> DEFINE new == EnsureLocal(meta[k], c, Scanning)
  <2>3. Grown(new, meta[k], Scanning) /\ new.after = Scanning
    BY <2>2, ScanningType, EnsureLocalGrows
  <2> HIDE DEF new
  <2>4. meta' = [meta EXCEPT ![k] = new]
    BY <2>1, <2>2 DEF new
  <2>5. RowsGrow
    BY <2>2, <2>3, <2>4, OneRowGrows
  <2>6. \A l \in LocalIds :
           adi'[l] # None => adi[l] # None \/ meta'[l].after = Scanning
    BY <2>1, <2>2, <2>3, <2>4 DEF TypeInv
  <2>7. UNCHANGED <<running, refresh>>
    BY <1>1 DEF AddQso, index
  <2>8. QED BY <2>5, <2>6, <2>7, RestingStep
<1>2. CASE StartWrite
  <2>1. UNCHANGED <<adi, meta, running, refresh>>
    BY <1>2 DEF StartWrite, profile, index
  <2>2. QED BY <2>1, SameRowsGrow, RestingStep
<1>3. CASE WriteLog
  <2>1. UNCHANGED <<meta, running, refresh>>
    BY <1>3 DEF WriteLog, index
  <2>2. \A l \in LocalIds : adi'[l] # None => adi[l] # None
    BY <1>3 DEF WriteLog, TypeInv
  <2>3. QED BY <2>1, <2>2, SameRowsGrow, RestingStep
<1>4. CASE WriteMeta
  <2>1. UNCHANGED <<adi, running, refresh>> /\ writer.id \in LocalIds
    BY <1>4 DEF WriteMeta, index, TypeInv, Writer
  <2> DEFINE old == meta[writer.id]
             new == IF writer.kind = "delete" THEN MarkPendingDelete(old)
                    ELSE EnsureLocal(old, writer.content, Scanning)
  <2>2. old \in Row \cup {None}
    BY <2>1 DEF TypeInv
  <2>3. meta' = [meta EXCEPT ![writer.id] = new]
    BY <1>4 DEF WriteMeta
  <2>4. Grown(new, old, Scanning)
    BY <2>2, ScanningType, MarkPendingDeleteGrows, EnsureLocalGrows
  <2> HIDE DEF new
  <2>5. RowsGrow
    BY <2>1, <2>3, <2>4, OneRowGrows
  <2>6. QED BY <2>1, <2>5, RestingStep
<1>5. QED BY <1>1, <1>2, <1>3, <1>4

LEMMA ResolvedStep ==
    ASSUME TypeInv, ScansKnowRows, ResolveConflict
    PROVE  ScansKnowRows'
<1>1. PICK k \in LocalIds :
         CanResolve(k) /\ (KeepLocal(k) \/ TakeWavelog(k))
  BY DEF ResolveConflict
<1>2. meta[k] \in Row \cup {None} /\ adi[k] # None
  BY <1>1 DEF TypeInv, CanResolve
<1>3. \E new : /\ Grown(new, meta[k], Scanning)
               /\ meta' = [meta EXCEPT ![k] = new]
  <2>1. CASE KeepLocal(k)
    BY <1>2, <2>1, StatusGrows DEF KeepLocal
  <2>2. CASE TakeWavelog(k)
    BY <1>2, <2>2, StatusGrows, SameGrows DEF TakeWavelog
  <2>3. QED BY <1>1, <2>1, <2>2
<1>4. RowsGrow
  BY <1>3, OneRowGrows
<1>5. \A l \in LocalIds : adi'[l] # None => adi[l] # None
  BY <1>1, <1>2 DEF KeepLocal, TakeWavelog, TypeInv
<1>6. UNCHANGED <<running, refresh>>
  BY DEF ResolveConflict, index
<1>7. QED BY <1>4, <1>5, <1>6, RestingStep

LEMMA OthersStep ==
    ASSUME TypeInv, ScansKnowRows, Others
    PROVE  ScansKnowRows'
<1>1. CASE RemoteChange \/ ResolveFails \/ LoseRecord
  <2>1. UNCHANGED <<meta, running, refresh>>
    BY <1>1 DEF RemoteChange, ResolveFails, LoseRecord, profile, index
  <2>2. \A l \in LocalIds : adi'[l] # None => adi[l] # None
    BY <1>1 DEF RemoteChange, ResolveFails, LoseRecord, profile, TypeInv
  <2>3. QED BY <2>1, <2>2, SameRowsGrow, RestingStep
<1>2. CASE Cancel
  <2>1. /\ UNCHANGED <<adi, meta, refresh>>
        /\ at' # "reconcile" /\ at # "commit"
    BY <1>2 DEF Cancel, Stop, profile, Environment, index
  <2>2. QED BY <2>1, SameRowsGrow, WorkingStep
<1>3. CASE Crash
  <2>1. Scanning' = {}
    BY <1>3 DEF Crash, Stop, Scanning
  <2>2. QED BY <2>1 DEF ScansKnowRows
<1>4. QED BY <1>1, <1>2, <1>3 DEF Others

(* A new scan is of the log as it is.                                      *)
LEMMA NewScanStep ==
    ASSUME ScansKnowRows, IndexScan \/ RefreshScan
    PROVE  ScansKnowRows'
<1>1. refresh' = adi /\ UNCHANGED <<adi, meta, running>>
  BY DEF IndexScan, RefreshScan, profile
<1>2. \A s \in Scanning' : ScanOf(s)' = adi' \/ (s \in Scanning /\ ScanOf(s)' = ScanOf(s))
  BY <1>1 DEF Scanning, ScanOf, running, reads
<1>3. \A l \in LocalIds : Writing(l)' <=> Writing(l)
  BY <1>1 DEF Writing, running
<1>4. QED BY <1>1, <1>2, <1>3, SameRowsGrow, KnownStep

-----------------------------------------------------------------------------
(* Proofs of the reconciliations. *)

(* A record of a scanner is gone from the marks of a row, and its link and *)
(* its other marks stay.                                                   *)
LEMMA SeenRow ==
    ASSUME NEW row \in Row, NEW scanner, NEW new, new = Seen(row, scanner)
    PROVE  /\ new # None
           /\ new.wid = row.wid
           /\ new.after = row.after \ {scanner}
<1>1. row # None
  BY AbsenceAssumption
<1>2. new = [row EXCEPT !.after = row.after \ {scanner}]
  BY <1>1 DEF Seen
<1>3. new.wid = row.wid /\ new.after = row.after \ {scanner}
  BY <1>2 DEF Row
<1>4. new \in Row
  BY <1>2 DEF Row
<1>5. QED BY <1>3, <1>4, AbsenceAssumption

(* The row grows, and then the mark of the scanner goes.                   *)
SeenGrown(new, old, scanner, scanning) ==
    (new # None /\ ~IsLinked(new)) =>
        \/ /\ old # None /\ ~IsLinked(old)
           /\ new.after = old.after \ {scanner}
        \/ new.after = scanning \ {scanner}

(* What a reconciliation makes of a row: it grows, but is no longer known  *)
(* to be younger than the scan; and a covered one stays.                   *)
LEMMA ReconciledGrows ==
    ASSUME NEW rows \in [LocalIds -> Row \cup {None}],
           NEW stage \in [LocalIds -> Staged \cup {None}],
           NEW log, NEW scanner \in Scanners,
           NEW scanning \in SUBSET Scanners, NEW l \in LocalIds,
           NEW new, new = Reconciled(rows, stage, log, scanner, scanning)[l]
    PROVE  /\ SeenGrown(new, rows[l], scanner, scanning)
           /\ (/\ rows[l] # None
               /\ \/ log[l] # None \/ IsLinked(rows[l])
                  \/ scanner \in rows[l].after) => new # None
<1> DEFINE resolved == Resolved(rows, stage, log, scanning)
           kept == IF log[l] # None
                   THEN EnsureLocal(resolved[l], log[l], scanning)
                   ELSE IF resolved[l] = None THEN None
                   ELSE Orphan(resolved[l], scanner)
<1>1. /\ resolved[l] \in Row \cup {None}
      /\ \/ resolved[l] = rows[l]
         \/ resolved[l] # None /\ IsLinked(resolved[l])
  <2>1. CASE /\ stage[l] # None
             /\ log[l] = stage[l].content
             /\ LinkedTo(rows, stage[l].wid) \subseteq {l}
    <3>1. /\ stage[l].wid \in WavelogIds /\ stage[l].wid # None
          /\ stage[l].content \in Content
      BY <2>1, NoneAssumption DEF Staged
    <3>2. resolved[l] = SetSynced(rows[l], stage[l].wid, stage[l].content,
                                  stage[l].content, scanning)
      BY <2>1 DEF Resolved
    <3>3. resolved[l] \in Row /\ GoesTo(resolved[l], stage[l].wid)
      BY <3>1, <3>2, SetSyncedRow DEF BaseColumn
    <3>4. QED BY <3>1, <3>3, AbsenceAssumption DEF GoesTo, IsLinked
  <2>2. QED BY <2>1 DEF Resolved
<1> HIDE DEF resolved
<1>2. /\ kept \in Row \cup {None}
      /\ Grown(kept, resolved[l], scanning)
      /\ (resolved[l] # None /\
            (log[l] # None \/ IsLinked(resolved[l]) \/ scanner \in resolved[l].after))
           => kept # None
  <2>1. CASE log[l] # None
    <3>1. kept = EnsureLocal(resolved[l], log[l], scanning)
      BY <2>1
    <3> HIDE DEF kept
    <3>2. QED BY <1>1, <3>1, EnsureLocalRow, EnsureLocalGrows
  <2>2. CASE log[l] = None
    <3>1. kept \in {resolved[l], None}
      BY <2>2 DEF Orphan
    <3>2. (resolved[l] # None /\
             (IsLinked(resolved[l]) \/ scanner \in resolved[l].after))
            => kept # None
      BY <2>2 DEF Orphan, IsLinked
    <3>3. QED BY <1>1, <2>2, <3>1, <3>2, SameGrows
  <2>3. QED BY <2>1, <2>2
<1>3. new = Seen(kept, scanner)
  BY DEF Reconciled, resolved
<1> HIDE DEF kept
<1>4. CASE kept = None
  <2>1. new = None
    BY <1>3, <1>4 DEF Seen
  <2>2. QED BY <1>1, <1>2, <1>4, <2>1 DEF SeenGrown
<1>5. CASE kept # None
  <2>1. /\ kept \in Row /\ new # None /\ new.wid = kept.wid
        /\ new.after = kept.after \ {scanner}
    BY <1>2, <1>3, <1>5, SeenRow
  <2>2. ASSUME ~IsLinked(new)
        PROVE  \/ /\ rows[l] # None /\ ~IsLinked(rows[l])
                  /\ new.after = rows[l].after \ {scanner}
               \/ new.after = scanning \ {scanner}
    <3>1. ~IsLinked(kept)
      BY <1>5, <2>1, <2>2 DEF IsLinked
    <3>2. \/ resolved[l] # None /\ ~IsLinked(resolved[l])
             /\ kept.after = resolved[l].after
          \/ kept.after = scanning
      BY <1>2, <1>5, <3>1 DEF Grown
    <3>3. QED BY <1>1, <2>1, <3>2
  <2>3. QED BY <2>1, <2>2 DEF SeenGrown
<1>6. QED BY <1>4, <1>5

(* The scanner that reconciles has done with its scan; the other one still *)
(* knows the rows.                                                         *)
LEMMA ReconciliationStep ==
    ASSUME TypeInv, ScansKnowRows, NEW scanner \in Scanners, NEW log,
           meta' = Reconciled(meta, staged, log, scanner, Scanning),
           Scanning' \subseteq Scanning \ {scanner}, adi' = adi,
           \A s \in Scanning' : ScanOf(s)' = ScanOf(s),
           \A l \in LocalIds : Writing(l)' <=> Writing(l)
    PROVE  ScansKnowRows'
<1> SUFFICES ASSUME NEW l \in LocalIds, NEW s \in Scanning',
                    adi'[l] # None, ~Writing(l)', ScanOf(s)'[l] = None,
                    meta'[l] # None, ~IsLinked(meta'[l])
             PROVE  s \in meta'[l].after
  BY DEF ScansKnowRows, Covered, IsLinked
<1>1. s \in Scanning /\ s # scanner /\ ScanOf(s)[l] = None
  OBVIOUS
<1>2. Covered(l, s)
  BY <1>1 DEF ScansKnowRows
<1>3. SeenGrown(meta'[l], meta[l], scanner, Scanning)
  <2>1. /\ meta \in [LocalIds -> Row \cup {None}]
        /\ staged \in [LocalIds -> Staged \cup {None}]
    BY DEF TypeInv
  <2>2. meta'[l] = Reconciled(meta, staged, log, scanner, Scanning)[l]
    OBVIOUS
  <2>3. QED BY <2>1, <2>2, ScanningType, ReconciledGrows
<1>4. QED BY <1>1, <1>2, <1>3 DEF Covered, SeenGrown

LEMMA ReconciliationSteps ==
    ASSUME TypeInv, ScansKnowRows, RefreshReconcile \/ SyncReconcile
    PROVE  ScansKnowRows'
<1>1. CASE RefreshReconcile
  <2>1. /\ "refresh" \in Scanners
        /\ meta' = Reconciled(meta, staged, refresh, "refresh", Scanning)
        /\ adi' = adi
    BY <1>1 DEF RefreshReconcile, Scanners
  <2>2. /\ Scanning' \subseteq Scanning \ {"refresh"}
        /\ \A s \in Scanning' : ScanOf(s)' = ScanOf(s)
        /\ \A l \in LocalIds : Writing(l)' <=> Writing(l)
    BY <1>1 DEF RefreshReconcile, Scanning, ScanOf, Writing, running, reads
  <2>3. QED BY <2>1, <2>2, ReconciliationStep
<1>2. CASE SyncReconcile
  <2>1. /\ "sync" \in Scanners
        /\ meta' = Reconciled(meta, staged, locals, "sync", Scanning)
        /\ adi' = adi
    BY <1>2 DEF SyncReconcile, Scanners
  <2>2. /\ Scanning' \subseteq Scanning \ {"sync"}
        /\ \A s \in Scanning' : ScanOf(s)' = ScanOf(s)
        /\ \A l \in LocalIds : Writing(l)' <=> Writing(l)
    BY <1>2 DEF SyncReconcile, Goto, Scanning, ScanOf, Writing, Environment,
                index
  <2>3. QED BY <2>1, <2>2, ReconciliationStep
<1>3. QED BY <1>1, <1>2

(* No reconciliation drops the row of a record in the log.                 *)
LEMMA ReconciliationKeeps ==
    ASSUME TypeInv, ScansKnowRows, RefreshReconcile \/ SyncReconcile,
           NEW l \in LocalIds, adi[l] # None, meta[l] # None, ~Writing(l)
    PROVE  meta'[l] # None
<1>1. CASE RefreshReconcile
  <2>1. /\ "refresh" \in Scanners /\ "refresh" \in Scanning
        /\ ScanOf("refresh") = refresh
        /\ meta' = Reconciled(meta, staged, refresh, "refresh", Scanning)
    BY <1>1 DEF RefreshReconcile, Scanners, Scanning, ScanOf
  <2>2. \/ refresh[l] # None \/ IsLinked(meta[l])
        \/ "refresh" \in meta[l].after
    BY <2>1 DEF ScansKnowRows, Covered
  <2>3. meta'[l] = Reconciled(meta, staged, refresh, "refresh", Scanning)[l]
    BY <2>1
  <2>4. /\ meta \in [LocalIds -> Row \cup {None}]
        /\ staged \in [LocalIds -> Staged \cup {None}]
    BY DEF TypeInv
  <2>5. QED BY <2>1, <2>2, <2>3, <2>4, ScanningType, ReconciledGrows
<1>2. CASE SyncReconcile
  <2>1. /\ "sync" \in Scanners /\ "sync" \in Scanning
        /\ ScanOf("sync") = locals
        /\ meta' = Reconciled(meta, staged, locals, "sync", Scanning)
    BY <1>2 DEF SyncReconcile, Scanners, Scanning, ScanOf
  <2>2. \/ locals[l] # None \/ IsLinked(meta[l])
        \/ "sync" \in meta[l].after
    BY <2>1 DEF ScansKnowRows, Covered
  <2>3. meta'[l] = Reconciled(meta, staged, locals, "sync", Scanning)[l]
    BY <2>1
  <2>4. /\ meta \in [LocalIds -> Row \cup {None}]
        /\ staged \in [LocalIds -> Staged \cup {None}]
    BY DEF TypeInv
  <2>5. QED BY <2>1, <2>2, <2>3, <2>4, ScanningType, ReconciledGrows
<1>3. QED BY <1>1, <1>2

-----------------------------------------------------------------------------
(* Proofs of the steps of a sync, none of which but the flush disturbs     *)
(* what is in the log. *)

(* A step that leaves the log alone.                                       *)
LEMMA SyncOnly ==
    ASSUME ScansKnowRows, RowsGrow, UNCHANGED <<adi, refresh>>,
           at' # "reconcile", at # "commit"
    PROVE  ScansKnowRows'
BY WorkingStep

LEMMA StartAndScanSteps ==
    ASSUME TypeInv, Loops, ScansKnowRows,
           StartPush \/ StartDelta \/ StartFull \/ Scans
    PROVE  ScansKnowRows'
<1>1. CASE StartPush \/ StartDelta \/ StartFull
  <2>1. /\ UNCHANGED <<adi, meta, refresh>>
        /\ at' = "scan" /\ at = "idle"
    BY <1>1 DEF StartPush, StartDelta, StartFull, Start, profile, Environment,
                index, Loops
  <2>2. QED BY <2>1, SameRowsGrow, SyncOnly
<1>2. CASE Scans
  <2>1. /\ UNCHANGED <<adi, meta, refresh>> /\ locals' = adi
        /\ at # "commit" /\ at' # "commit"
        /\ at # "reconcile"
    BY <1>2 DEF Scans, Scan, Goto, profile, Environment, index
  <2>2. \A s \in Scanning' :
           ScanOf(s)' = adi' \/ (s \in Scanning /\ ScanOf(s)' = ScanOf(s))
    BY <2>1 DEF Scanning, ScanOf
  <2>3. \A l \in LocalIds : ~Writing(l)
    BY <2>1 DEF Writing
  <2>4. QED BY <2>1, <2>2, <2>3, SameRowsGrow, KnownStep
<1>3. QED BY <1>1, <1>2

(* Steps that write no row.                                                *)
LEMMA ReadingSteps ==
    ASSUME TypeInv, ScansKnowRows,
           \/ PushList \/ FullList \/ UploadsDone \/ Snapshot \/ Fetch
           \/ FetchFailed \/ ListLinked \/ LinkedDone \/ UnlinkedPhase
           \/ Finish \/ Stage
           \/ \E l \in LocalIds : UploadCreated(l)
           \/ \E l \in LocalIds :
                 LinkedConflict(l) \/ LinkedUnchanged(l)
                   \/ RemoteDeleted(l) \/ RemotePatched(l)
    PROVE  ScansKnowRows'
<1>1. /\ UNCHANGED <<adi, meta, refresh>>
      /\ at' # "reconcile" /\ at # "commit"
  <2>1. CASE \/ PushList \/ FullList \/ UploadsDone \/ Snapshot \/ Fetch
             \/ FetchFailed \/ ListLinked \/ LinkedDone \/ Finish \/ Stage
    BY <2>1 DEF PushList, FullList, UploadsDone, Snapshot, Fetch, FetchFailed,
                ListLinked, LinkedDone, Finish, Stage, Flush, Goto, Stop,
                profile, Environment, index
  <2>2. CASE UnlinkedPhase
    BY <2>2 DEF UnlinkedPhase, ListUnlinked, UnlinkedDone, UnlinkedItem,
                Unlinked, Link, Pull, Incoming, Buffer, Goto, profile,
                Environment, index
  <2>3. CASE \E l \in LocalIds : UploadCreated(l)
    BY <2>3 DEF UploadCreated, Take, profile, Environment, index
  <2>4. CASE \E l \in LocalIds :
                LinkedConflict(l) \/ LinkedUnchanged(l)
                  \/ RemoteDeleted(l) \/ RemotePatched(l)
    BY <2>4 DEF LinkedConflict, LinkedUnchanged, RemoteDeleted, RemotePatched,
                Linked, Request, Take, Buffer, Environment, index
  <2>5. QED BY <2>1, <2>2, <2>3, <2>4
<1>2. QED BY <1>1, SameRowsGrow, SyncOnly

(* Steps that write the row they look at.                                  *)
LEMMA RowSteps ==
    ASSUME TypeInv, ScansKnowRows, NEW l \in LocalIds,
           \/ UploadMissing(l) \/ UploadFailed(l)
           \/ LinkedDeletedBoth(l) \/ LinkedVanished(l)
           \/ LinkedRemoteDeleted(l) \/ LinkedBothChanged(l)
           \/ LinkedRemoteChanged(l) \/ RequestFailed(l)
    PROVE  ScansKnowRows'
<1>1. /\ UNCHANGED <<adi, refresh>>
      /\ at' # "reconcile" /\ at # "commit"
  BY DEF UploadMissing, UploadFailed, LinkedDeletedBoth, LinkedVanished,
         LinkedRemoteDeleted, LinkedBothChanged, LinkedRemoteChanged,
         RequestFailed, Linked, Request, Conflict, Take, Buffer, Environment,
         index
<1>2. meta[l] \in Row \cup {None}
  BY DEF TypeInv
<1>3. \/ meta' = meta
      \/ meta' = [meta EXCEPT ![l] = None]
      \/ \E wid, reason :
            meta' = [meta EXCEPT ![l] =
                        SetConflict(meta[l], wid, reason, Scanning)]
      \/ \E wid : meta' = [meta EXCEPT ![l] = SetError(meta[l], wid, Scanning)]
  BY DEF UploadMissing, UploadFailed, LinkedDeletedBoth, LinkedVanished,
         LinkedRemoteDeleted, LinkedBothChanged, LinkedRemoteChanged,
         RequestFailed, Conflict
<1>4. RowsGrow
  <2>1. CASE meta' = meta
    BY <2>1, SameRowsGrow
  <2>2. CASE \E new : /\ Grown(new, meta[l], Scanning)
                      /\ meta' = [meta EXCEPT ![l] = new]
    BY <2>2, OneRowGrows
  <2>3. QED BY <1>2, <1>3, <2>1, <2>2, SameGrows, StatusGrows
<1>5. QED BY <1>1, <1>4, SyncOnly

(* Steps that record an answer.                                            *)
LEMMA AnswerSteps ==
    ASSUME TypeInv, Loops, ScansKnowRows, UploadRecorded \/ Answered
    PROVE  ScansKnowRows'
<1>1. /\ UNCHANGED <<adi, refresh>>
      /\ at' # "reconcile" /\ at \in {"uploaded", "answered"}
  BY DEF UploadRecorded, Answered, Goto, Environment, index
<1>2. item.id \in LocalIds /\ meta[item.id] \in Row \cup {None}
  BY <1>1 DEF Loops, TypeInv, Answer
<1>3. \/ meta' = [meta EXCEPT ![item.id] = None]
      \/ meta' = [meta EXCEPT ![item.id] =
                     SetSynced(meta[item.id], item.wid, item.base,
                               item.remoteBase, Scanning)]
  BY DEF UploadRecorded, Answered
<1>4. RowsGrow
  BY <1>2, <1>3, OneRowGrows, SameGrows, StatusGrows
<1>5. QED BY <1>1, <1>4, SyncOnly

(* Steps of the flush: each row stays, goes, or gets a status.             *)
LEMMA FlushedRows ==
    ASSUME TypeInv,
           \A l \in LocalIds :
              \/ meta'[l] \in {meta[l], None}
              \/ \E wid, base, web, reason :
                    meta'[l] \in {SetSynced(meta[l], wid, base, web, Scanning),
                                  SetConflict(meta[l], wid, reason, Scanning),
                                  SetError(meta[l], wid, Scanning)}
    PROVE  RowsGrow
<1>1. ASSUME NEW l \in LocalIds PROVE Grown(meta'[l], meta[l], Scanning)
  <2>1. meta[l] \in Row \cup {None}
    BY DEF TypeInv
  <2>2. QED BY <2>1, SameGrows, StatusGrows
<1>2. QED BY <1>1 DEF RowsGrow

LEMMA FlushSteps ==
    ASSUME TypeInv, ScansKnowRows,
           \/ FilterDeletes \/ DropRecords \/ DropFailed \/ ForgetRows
           \/ FilterUpserts \/ WriteFailed \/ CommitBaselines
    PROVE  ScansKnowRows'
<1>1. /\ refresh' = refresh
      /\ \A l \in LocalIds : adi'[l] # None => adi[l] # None
      /\ at' # "reconcile" /\ at # "commit"
  <2>1. buffer.phase \in {"linked", "unlinked"}
    BY DEF TypeInv, Buffers
  <2>2. QED
    BY <2>1 DEF FilterDeletes, DropRecords, DropFailed, ForgetRows,
           FilterUpserts, WriteFailed, CommitBaselines, Flush, Goto, Stop,
           Environment, index
<1>2. RowsGrow
  <2>1. CASE FilterDeletes \/ FilterUpserts
    <3>1. PICK entries : meta' = WithConflicts(entries)
      BY <2>1 DEF FilterDeletes, FilterUpserts
    <3>2. ASSUME NEW l \in LocalIds
          PROVE  \/ meta'[l] = meta[l]
                 \/ \E wid : meta'[l] =
                       SetConflict(meta[l], wid, "local_changed_during_sync",
                                   Scanning)
      BY <3>1 DEF WithConflicts
    <3>3. QED BY <3>2, FlushedRows
  <2>2. CASE DropFailed \/ WriteFailed
    BY <2>2, FlushedRows, SameRowsGrow DEF DropFailed, WriteFailed, MarkErrors
  <2>3. CASE DropRecords
    BY <2>3, SameRowsGrow DEF DropRecords
  <2>4. CASE ForgetRows
    BY <2>4, FlushedRows DEF ForgetRows
  <2>5. CASE CommitBaselines
    BY <2>5, FlushedRows DEF CommitBaselines
  <2>6. QED BY <2>1, <2>2, <2>3, <2>4, <2>5
<1>3. QED BY <1>1, <1>2, WorkingStep

(* What is written to the log is linked before anything else happens to    *)
(* the buffer.                                                             *)
LEMMA WriteAndCommitSteps ==
    ASSUME TypeInv, ScansKnowRows, WriteRecords \/ CommitRows
    PROVE  ScansKnowRows'
<1>1. CASE WriteRecords
  <2>1. /\ UNCHANGED <<meta, refresh, buffer>>
        /\ at = "write" /\ at' = "commit"
    BY <1>1 DEF WriteRecords, Flush, Goto, Environment, index
  <2>2. \A l \in LocalIds : (adi'[l] # None /\ ~Writing(l)') => adi[l] # None
    BY <1>1, <2>1 DEF WriteRecords, Writing
  <2>3. QED BY <2>1, <2>2, SameRowsGrow, WorkingStep
<1>2. CASE CommitRows
  <2>1. /\ UNCHANGED <<adi, refresh>>
        /\ at = "commit" /\ at' = "baselines"
    BY <1>2 DEF CommitRows, Flush, Goto, Environment, index
  <2>2. RowsGrow
    BY <1>2, FlushedRows DEF CommitRows
  <2>3. ASSUME NEW l \in LocalIds, Writing(l) PROVE IsLinked(meta'[l])
    <3> DEFINE mine == {u \in buffer.upserts : u.id = l}
               u == CHOOSE u \in mine : TRUE
    <3>1. mine # {}
      BY <2>3 DEF Writing
    <3>2. meta'[l] = SetSynced(meta[l], u.wid, u.content, u.content, Scanning)
      BY <1>2, <3>1 DEF CommitRows
    <3>3. u \in mine
      BY <3>1, ChosenIn
    <3>4. u.wid \in WavelogIds /\ u.content \in BaseColumn
      BY <3>3 DEF TypeInv, Buffers, Upsert, BaseColumn
    <3> HIDE DEF u
    <3>5. meta[l] \in Row \cup {None} /\ u.wid # None
      BY <3>4, NoneAssumption DEF TypeInv
    <3>6. meta'[l] \in Row /\ GoesTo(meta'[l], u.wid)
      BY <3>2, <3>4, <3>5, ScanningType, SetSyncedRow
    <3>7. QED BY <3>5, <3>6, AbsenceAssumption DEF GoesTo, IsLinked
  <2>4. \A s \in Scanning' : s \in Scanning /\ ScanOf(s)' = ScanOf(s)
    BY <1>2, <2>1 DEF CommitRows, Flush, Scanning, ScanOf, reads
  <2>5. QED BY <2>1, <2>2, <2>3, <2>4, KnownStep
<1>3. QED BY <1>1, <1>2

LEMMA KnownNext == IInv /\ ScansKnowRows /\ [Next]_vars => ScansKnowRows'
<1> SUFFICES ASSUME IInv, ScansKnowRows, [Next]_vars PROVE ScansKnowRows'
  OBVIOUS
<1>1. TypeInv /\ Loops
  BY DEF IInv, Inv
<1>2. CASE User \/ WriteLog \/ WriteMeta
  BY <1>1, <1>2, UserStep, ResolvedStep DEF User
<1>3. CASE Others
  BY <1>1, <1>3, OthersStep
<1>4. CASE IndexScan \/ RefreshScan
  BY <1>4, NewScanStep
<1>5. CASE RefreshReconcile \/ SyncReconcile
  BY <1>1, <1>5, ReconciliationSteps
<1>6. CASE StartPush \/ StartDelta \/ StartFull \/ Scans
  BY <1>1, <1>6, StartAndScanSteps
<1>7. CASE Upload \/ UploadsDone
  BY <1>1, <1>7, ReadingSteps, RowSteps, AnswerSteps DEF Upload
<1>8. CASE LinkedPhase
  BY <1>1, <1>8, ReadingSteps, RowSteps, AnswerSteps DEF LinkedPhase
<1>9. CASE FlushBuffer
  BY <1>1, <1>9, ReadingSteps, FlushSteps, WriteAndCommitSteps DEF FlushBuffer
<1>10. CASE Snapshot \/ Fetch \/ FetchFailed \/ ListLinked \/ UnlinkedPhase
              \/ Finish
  BY <1>1, <1>10, ReadingSteps
<1>11. CASE UNCHANGED vars
  <2>1. UNCHANGED <<adi, meta, running, refresh>>
    BY <1>11 DEF vars, profile, index
  <2>2. QED BY <2>1, SameRowsGrow, RestingStep
<1>12. QED
  BY <1>2, <1>3, <1>4, <1>5, <1>6, <1>7, <1>8, <1>9, <1>10, <1>11
     DEF Next, Sync, FullSync

(* The step of the property.                                               *)
KeepsRow(l) ==
    (/\ adi[l] # None /\ meta[l] # None
     /\ ~Writing(l)
     /\ \/ refresh # None /\ refresh' = None
        \/ at = "reconcile" /\ at' = "snapshot")
       => meta'[l] # None

LEMMA KeepsRowStep ==
    ASSUME IInv, ScansKnowRows, [Next]_vars, NEW l \in LocalIds
    PROVE  KeepsRow(l)
<1>1. TypeInv
  BY DEF IInv, Inv
<1> SUFFICES ASSUME adi[l] # None, meta[l] # None, ~Writing(l),
                    \/ refresh # None /\ refresh' = None
                    \/ at = "reconcile" /\ at' = "snapshot"
             PROVE  meta'[l] # None
  BY DEF KeepsRow
<1>2. CASE RefreshReconcile \/ SyncReconcile
  BY <1>1, <1>2, ReconciliationKeeps
<1>3. CASE Crash
  BY <1>3 DEF Crash, profile
<1>4. CASE IndexScan \/ RefreshScan
  BY <1>4 DEF IndexScan, RefreshScan, running
<1>5. CASE \/ User \/ WriteLog \/ WriteMeta
           \/ RemoteChange \/ ResolveFails \/ LoseRecord
  <2>1. UNCHANGED <<at, refresh>>
    BY <1>5 DEF User, AddQso, StartWrite, ResolveConflict, WriteLog, WriteMeta,
                RemoteChange, ResolveFails, LoseRecord, running, index
  <2>2. QED BY <2>1
<1>6. CASE Cancel \/ StartPush \/ StartDelta \/ StartFull
  <2>1. refresh' = refresh /\ at' # "snapshot"
    BY <1>6 DEF Cancel, Stop, StartPush, StartDelta, StartFull, Start,
                Environment, index
  <2>2. QED BY <2>1
<1>7. CASE Scans \/ Upload \/ UploadsDone
  <2>1. refresh' = refresh /\ at # "reconcile"
    BY <1>7 DEF Scans, Scan, Upload, UploadsDone, PushList, FullList,
                UploadRecorded, UploadMissing, UploadCreated, UploadFailed,
                Take, Environment, index
  <2>2. QED BY <2>1
<1>8. CASE LinkedPhase
  <2>1. refresh' = refresh /\ at # "reconcile"
    BY <1>8 DEF LinkedPhase, LinkedDeletedBoth, LinkedVanished,
                 LinkedConflict, LinkedRemoteDeleted, LinkedBothChanged,
                 LinkedRemoteChanged, LinkedUnchanged, RemoteDeleted,
                 RemotePatched, RequestFailed, Linked, Request, Take, Answered,
                 LinkedDone, Environment, index
  <2>2. QED BY <2>1
<1>9. CASE FlushBuffer \/ UnlinkedPhase
  <2>1. refresh' = refresh /\ at # "reconcile"
    BY <1>9 DEF FlushBuffer, FilterDeletes, DropRecords, DropFailed,
                 ForgetRows, FilterUpserts, Stage, WriteRecords, WriteFailed,
                 CommitRows, CommitBaselines, Flush, UnlinkedPhase,
                 ListUnlinked, UnlinkedItem, Unlinked, UnlinkedDone,
                 Environment, index
  <2>2. QED BY <2>1
<1>10. CASE Snapshot \/ Fetch \/ FetchFailed \/ ListLinked \/ Finish
  <2>1. refresh' = refresh /\ at # "reconcile"
    BY <1>10 DEF Snapshot, Fetch, FetchFailed, ListLinked, Finish,
                 Environment, index
  <2>2. QED BY <2>1
<1>11. CASE UNCHANGED vars
  BY <1>11 DEF vars, running, index
<1>12. QED
  BY <1>2, <1>3, <1>4, <1>5, <1>6, <1>7, <1>8, <1>9, <1>10, <1>11
     DEF Next, Others, Sync, FullSync

LEMMA KnownAlways == Spec => []ScansKnowRows
<1>1. Init => ScansKnowRows
  BY DEF Init, ScansKnowRows, Scanning
<1>2. IInv /\ ScansKnowRows /\ [Next]_vars => ScansKnowRows'
  BY KnownNext
<1>3. QED BY <1>1, <1>2, LinksKeepContacts, PTL DEF Spec

(* Nothing a reconciliation does costs a record its row (reconcile_index,  *)
(* called by every refresh of the view, and by sync): a record that is     *)
(* missing from the scan was logged or changed by someone since, who gave  *)
(* its row the link or the time of creation that protects it.              *)
THEOREM RecordsKeepTheirRows == Spec => ReconcileKeepsRows
<1>1. IInv /\ ScansKnowRows /\ [Next]_vars => [\A l \in LocalIds : KeepsRow(l)]_vars
  BY KeepsRowStep
<1>2. (\A l \in LocalIds : KeepsRow(l)) <=>
      (\A l \in LocalIds :
          (/\ adi[l] # None /\ meta[l] # None
           /\ ~Writing(l)
           /\ \/ refresh # None /\ refresh' = None
              \/ at = "reconcile" /\ at' = "snapshot")
             => meta'[l] # None)
  BY DEF KeepsRow
<1>3. QED
  BY <1>1, <1>2, LinksKeepContacts, KnownAlways, PTL
     DEF Spec, ReconcileKeepsRows

-----------------------------------------------------------------------------
(* Proofs of what a sync may overwrite, when no write of the user overlaps *)
(* it. *)

(* A row that waits for its QSO to be deleted on Wavelog.                  *)
Tomb(row) == IsLinked(row) /\ row.status = "pending_delete"

(* A linked row that is not in trouble knows what was last synchronized.   *)
Based(row) ==
    (IsLinked(row) /\ row.base = None) =>
       row.status \in {"conflict", "error", "pending_delete"}

(* What becomes of a row, unless the user deletes its record.              *)
Steady(new, old) ==
    /\ Tomb(new) => Tomb(old)
    /\ IsLinked(old) => IsLinked(new)
    /\ Based(old) => Based(new)

LEMMA SameSteady == ASSUME NEW row PROVE Steady(row, row)
BY DEF Steady

LEMMA GoneSteady ==
    ASSUME NEW row, ~IsLinked(row) PROVE Steady(None, row)
BY DEF Steady, Tomb, Based, IsLinked

LEMMA EnsureLocalSteady ==
    ASSUME NEW row \in Row \cup {None}, NEW content,
           NEW scanning \in SUBSET Scanners,
           NEW new, new = EnsureLocal(row, content, scanning)
    PROVE  Steady(new, row) /\ (row = None => ~IsLinked(new))
<1>1. CASE row = None
  <2>1. new.wid = None
    BY <1>1, NewRowType DEF EnsureLocal, Status
  <2>2. QED BY <1>1, <2>1 DEF Steady, Tomb, Based, IsLinked
<1>2. CASE row # None /\ new = row
  BY <1>2, SameSteady
<1>3. CASE row # None /\ new # row
  <2>1. /\ row \in Row /\ row.base # None
        /\ new = [row EXCEPT !.status = "modified", !.version = @ + 1]
    BY <1>3 DEF EnsureLocal
  <2> DEFINE v == row.version + 1
  <2> HIDE DEF v
  <2>2. /\ [row EXCEPT !.status = "modified", !.version = v].status = "modified"
        /\ [row EXCEPT !.status = "modified", !.version = v].wid = row.wid
        /\ [row EXCEPT !.status = "modified", !.version = v].base = row.base
    BY <2>1 DEF Row
  <2>3. new.status = "modified" /\ new.wid = row.wid /\ new.base = row.base
    BY <2>1, <2>2 DEF v
  <2>4. new \in Row /\ new # None
    BY EnsureLocalRow, AbsenceAssumption
  <2>5. QED BY <1>3, <2>1, <2>3, <2>4 DEF Steady, Tomb, Based, IsLinked
<1>4. QED BY <1>1, <1>2, <1>3

LEMMA SetStatusSteady ==
    ASSUME NEW row \in Row \cup {None},
           NEW status \in Status \ {"pending_delete"},
           NEW wid \in WavelogIds \cup {None},
           NEW base \in BaseColumn, NEW remoteBase \in BaseColumn,
           NEW reason \in Reason,
           NEW scanning \in SUBSET Scanners,
           NEW new,
           new = SetStatus(row, status, wid, base, remoteBase, reason,
                           scanning),
           base # None \/ status \in {"conflict", "error"}
    PROVE  Steady(new, row) /\ (wid # None => IsLinked(new))
<1> DEFINE old == IF row = None THEN NewRow(status, 0, scanning) ELSE row
           link   == IF wid = None THEN old.wid ELSE wid
           local  == IF base = None THEN old.base ELSE base
           web    == IF remoteBase = None THEN old.remoteBase ELSE remoteBase
<1>1. new = [old EXCEPT !.status = status, !.wid = link, !.base = local,
                        !.remoteBase = web, !.reason = reason]
  BY DEF SetStatus
<1>2. old \in Row /\ (row # None => old = row)
  BY NewRowType
<1>3. base # None => local = base
  OBVIOUS
<1>4. (row # None /\ wid = None) => link = row.wid
  OBVIOUS
<1>5. wid # None => link = wid
  OBVIOUS
<1> HIDE DEF old, link, local, web
<1>6. new.status = status /\ new.wid = link /\ new.base = local
  BY <1>1, <1>2 DEF Row
<1>7. new \in Row /\ new # None
  BY SetStatusRow, AbsenceAssumption
<1>8. Based(new)
  BY <1>3, <1>6 DEF Based
<1>9. ~Tomb(new)
  BY <1>6 DEF Tomb
<1>10. IsLinked(row) => IsLinked(new)
  BY <1>4, <1>5, <1>6, <1>7 DEF IsLinked
<1>11. QED
  BY <1>5, <1>6, <1>7, <1>8, <1>9, <1>10 DEF Steady, IsLinked

LEMMA SetSyncedSteady ==
    ASSUME NEW row \in Row \cup {None}, NEW wid \in WavelogIds \cup {None},
           NEW base \in Content, NEW remoteBase \in BaseColumn,
           NEW scanning \in SUBSET Scanners,
           NEW new, new = SetSynced(row, wid, base, remoteBase, scanning)
    PROVE  Steady(new, row) /\ (wid # None => IsLinked(new))
<1>1. /\ "synced" \in Status \ {"pending_delete"} /\ "" \in Reason
      /\ base \in BaseColumn /\ base # None
  BY AbsenceAssumption DEF Status, Reason, BaseColumn
<1>2. new = SetStatus(row, "synced", wid, base, remoteBase, "", scanning)
  BY DEF SetSynced
<1>3. QED BY <1>1, <1>2, SetStatusSteady

LEMMA SetConflictSteady ==
    ASSUME NEW row \in Row \cup {None}, NEW wid \in WavelogIds \cup {None},
           NEW reason \in Reason, NEW scanning \in SUBSET Scanners,
           NEW new, new = SetConflict(row, wid, reason, scanning)
    PROVE  Steady(new, row) /\ (wid # None => IsLinked(new))
<1>1. "conflict" \in Status \ {"pending_delete"} /\ None \in BaseColumn
  BY DEF Status, BaseColumn
<1>2. new = SetStatus(row, "conflict", wid, None, None, reason, scanning)
  BY DEF SetConflict
<1>3. QED BY <1>1, <1>2, SetStatusSteady

LEMMA SetErrorSteady ==
    ASSUME NEW row \in Row \cup {None}, NEW wid \in WavelogIds \cup {None},
           NEW scanning \in SUBSET Scanners,
           NEW new, new = SetError(row, wid, scanning)
    PROVE  Steady(new, row) /\ (wid # None => IsLinked(new))
<1>1. /\ "error" \in Status \ {"pending_delete"} /\ "" \in Reason
      /\ None \in BaseColumn
  BY DEF Status, Reason, BaseColumn
<1>2. new = SetStatus(row, "error", wid, None, None, "", scanning)
  BY DEF SetError
<1>3. QED BY <1>1, <1>2, SetStatusSteady

LEMMA MarkPendingDeleteBased ==
    ASSUME NEW row \in Row \cup {None}, NEW new, new = MarkPendingDelete(row)
    PROVE  Based(new)
<1>1. CASE row = None \/ row.wid = None
  BY <1>1 DEF MarkPendingDelete, Based, IsLinked
<1>2. CASE row # None /\ row.wid # None
  <2> DEFINE marked ==
               [row EXCEPT !.status = "pending_delete", !.version = @ + 1]
  <2>1. row \in Row /\ new = marked
    BY <1>2 DEF MarkPendingDelete
  <2>2. "pending_delete" \in Status
    BY DEF Status
  <2>3. marked.status = "pending_delete"
    BY <2>1, <2>2, BumpedRow
  <2> HIDE DEF marked
  <2>4. QED BY <2>1, <2>3 DEF Based
<1>3. QED BY <1>1, <1>2

LEMMA SeenSteady ==
    ASSUME NEW row \in Row \cup {None}, NEW scanner, NEW new,
           new = Seen(row, scanner)
    PROVE  Steady(new, row)
<1>1. CASE row = None
  BY <1>1, SameSteady DEF Seen
<1>2. CASE row # None
  <2>1. row \in Row /\ new = [row EXCEPT !.after = row.after \ {scanner}]
    BY <1>2 DEF Seen
  <2>2. new.status = row.status /\ new.wid = row.wid /\ new.base = row.base
    BY <2>1 DEF Row
  <2>3. new # None
    BY <2>1, SeenRow
  <2>4. QED BY <1>2, <2>2, <2>3 DEF Steady, Tomb, Based, IsLinked
<1>3. QED BY <1>1, <1>2

LEMMA SteadyTwice ==
    ASSUME NEW new, NEW row, NEW old, Steady(new, row), Steady(row, old)
    PROVE  Steady(new, old)
BY DEF Steady

LEMMA ReconciledSteady ==
    ASSUME NEW rows \in [LocalIds -> Row \cup {None}],
           NEW stage \in [LocalIds -> Staged \cup {None}],
           NEW log, NEW scanner \in Scanners,
           NEW scanning \in SUBSET Scanners, NEW l \in LocalIds,
           NEW new, new = Reconciled(rows, stage, log, scanner, scanning)[l]
    PROVE  /\ Steady(new, rows[l])
           /\ stage[l] = None /\ ~IsLinked(rows[l]) => ~IsLinked(new)
<1> DEFINE resolved == Resolved(rows, stage, log, scanning)
           kept == IF log[l] # None
                   THEN EnsureLocal(resolved[l], log[l], scanning)
                   ELSE IF resolved[l] = None THEN None
                   ELSE Orphan(resolved[l], scanner)
<1>1. resolved[l] \in Row \cup {None} /\ Steady(resolved[l], rows[l])
  <2>1. CASE /\ stage[l] # None
             /\ log[l] = stage[l].content
             /\ LinkedTo(rows, stage[l].wid) \subseteq {l}
    <3>1. /\ stage[l].wid \in WavelogIds
          /\ stage[l].content \in Content
      BY <2>1 DEF Staged
    <3>2. resolved[l] = SetSynced(rows[l], stage[l].wid, stage[l].content,
                                  stage[l].content, scanning)
      BY <2>1 DEF Resolved
    <3>3. QED
      BY <3>1, <3>2, SetSyncedRow, SetSyncedSteady DEF BaseColumn
  <2>2. QED BY <2>1, SameSteady DEF Resolved
<1> HIDE DEF resolved
<1>2. kept \in Row \cup {None} /\ Steady(kept, resolved[l])
  <2>1. CASE log[l] # None
    <3>1. kept = EnsureLocal(resolved[l], log[l], scanning)
      BY <2>1
    <3> HIDE DEF kept
    <3>2. QED BY <1>1, <3>1, EnsureLocalRow, EnsureLocalSteady
  <2>2. CASE log[l] = None
    <3>1. \/ kept = resolved[l]
          \/ kept = None /\ ~IsLinked(resolved[l])
      BY <2>2 DEF Orphan, IsLinked
    <3> HIDE DEF kept
    <3>2. QED BY <1>1, <3>1, SameSteady, GoneSteady
  <2>3. QED BY <2>1, <2>2
<1>3. new = Seen(kept, scanner)
  BY DEF Reconciled, resolved
<1> HIDE DEF kept
<1>4. Steady(new, kept)
  BY <1>2, <1>3, SeenSteady
<1>5. Steady(new, rows[l])
  BY <1>1, <1>2, <1>4, SteadyTwice
<1>6. (stage[l] = None /\ ~IsLinked(rows[l])) => ~IsLinked(new)
  <2>1. \/ Follows(new, rows[l])
        \/ stage[l] # None
    BY ReconciledRow
  <2>2. QED BY <2>1 DEF Follows, IsLinked
<1>7. QED BY <1>5, <1>6

(* Places only a full sync comes to.                                       *)
FullPlaces == FlushPlaces \cup
    {"reconcile", "snapshot", "fetch", "list", "linked", "answered", "rescan",
     "relist", "unlinked", "lastscan", "finish"}

(* A full sync stays one, and what an answer records has a baseline.       *)
Orderly ==
    /\ at \in FullPlaces => job = "full"
    /\ at = "uploaded" => item.kind = "created"
    /\ item # None => item.kind = "deleted" \/ item.base # None

(* Nobody writes during a sync; and what a writer has deleted is not in    *)
(* the log.                                                                *)
Alone ==
    /\ Orderly
    /\ job # "none" => writer = None
    /\ (writer # None /\ writer.saved /\ writer.kind = "delete") =>
          adi[writer.id] = None

(* A step of the user and others, beside a running sync or not.            *)
LEMMA AloneBeside ==
    ASSUME TypeInv, Alone, ~Overlap,
           \/ AddQso \/ StartWrite \/ WriteLog \/ WriteMeta \/ ResolveConflict
           \/ LoseRecord \/ RemoteChange \/ ResolveFails \/ IndexScan
           \/ RefreshScan
           \/ RefreshReconcile
    PROVE  Alone'
<1>1. UNCHANGED running
  BY DEF AddQso, StartWrite, WriteLog, WriteMeta, ResolveConflict, LoseRecord,
         RemoteChange, ResolveFails, IndexScan, RefreshScan, RefreshReconcile
<1>2. writer' # None => writer # None \/ job = "none"
  BY DEF AddQso, StartWrite, WriteLog, WriteMeta, ResolveConflict, LoseRecord,
         RemoteChange, ResolveFails, IndexScan, RefreshScan, RefreshReconcile
<1>3. (writer' # None /\ writer'.saved /\ writer'.kind = "delete") =>
         adi'[writer'.id] = None
  <2>1. CASE AddQso
    <3>1. PICK k \in FreshIds, c \in Content : adi' = [adi EXCEPT ![k] = c]
      BY <2>1 DEF AddQso
    <3>2. writer' = writer /\ (writer # None => writer.id # k)
      BY <2>1 DEF AddQso, FreshIds
    <3>3. QED BY <3>1, <3>2 DEF Alone, TypeInv
  <2>2. CASE StartWrite
    BY <2>2 DEF StartWrite
  <2>3. CASE WriteLog
    <3>1. CASE adi[writer.id] = None
      BY <2>3, <3>1 DEF WriteLog
    <3>2. CASE adi[writer.id] # None
      <4>1. /\ writer \in Writer
            /\ adi' = [adi EXCEPT ![writer.id] =
                          IF writer.kind = "delete" THEN None
                          ELSE writer.content]
            /\ writer' = [writer EXCEPT !.saved = TRUE]
        BY <2>3, <3>2 DEF WriteLog, TypeInv
      <4>2. writer'.kind = writer.kind /\ writer'.id = writer.id
              /\ writer.id \in LocalIds
        BY <4>1 DEF Writer
      <4>3. QED BY <4>1, <4>2 DEF TypeInv
    <3>3. QED BY <3>1, <3>2
  <2>4. CASE WriteMeta
    BY <2>4 DEF WriteMeta
  <2>5. CASE ResolveConflict
    <3>1. PICK k \in LocalIds :
             CanResolve(k) /\ (KeepLocal(k) \/ TakeWavelog(k))
      BY <2>5 DEF ResolveConflict
    <3>2. adi[k] # None
      BY <3>1 DEF CanResolve
    <3>3. \A l \in LocalIds : adi[l] = None => adi'[l] = None
      BY <3>1, <3>2 DEF KeepLocal, TakeWavelog, TypeInv
    <3>4. writer' = writer
      BY <2>5 DEF ResolveConflict
    <3>5. QED BY <3>3, <3>4 DEF Alone, TypeInv, Writer
  <2>6. CASE \/ LoseRecord \/ RemoteChange \/ ResolveFails \/ IndexScan
             \/ RefreshScan
             \/ RefreshReconcile
    <3>1. writer' = writer
      BY <2>6 DEF LoseRecord, RemoteChange, ResolveFails, IndexScan,
                  RefreshScan,
                  RefreshReconcile
    <3>2. \A l \in LocalIds : adi[l] = None => adi'[l] = None
      BY <2>6 DEF LoseRecord, RemoteChange, ResolveFails, IndexScan,
                  RefreshScan,
                  RefreshReconcile, profile, TypeInv
    <3>3. QED BY <3>1, <3>2 DEF Alone, TypeInv, Writer
  <2>7. QED BY <2>1, <2>2, <2>3, <2>4, <2>5, <2>6
<1>4. QED BY <1>1, <1>2, <1>3 DEF Alone, Orderly, running

(* What a step of a sync must keep.                                        *)
LEMMA OrderlyFrame ==
    ASSUME at' \in FullPlaces => job' = "full",
           item' # None => item'.kind = "deleted" \/ item'.base # None,
           at' = "uploaded" => item'.kind = "created"
    PROVE  Orderly'
BY DEF Orderly

(* Nothing runs any more.                                                  *)
LEMMA OrderlyStops == ASSUME Stop PROVE Orderly'
BY DEF Orderly, Stop, FullPlaces, FlushPlaces

(* The steps of the syncs.                                                 *)
LEMMA OrderlySync ==
    ASSUME TypeInv, Loops, Orderly, Sync
    PROVE  Orderly'
<1>1. CASE Scans
  <2>1. /\ item' = item /\ job' = job /\ at' # "uploaded"
        /\ at # "idle"
        /\ at' \in FullPlaces => job = "full"
    BY <1>1 DEF Scans, Scan, Goto, Environment, Orderly, FullPlaces, FlushPlaces
  <2>2. QED BY <2>1, OrderlyFrame DEF Orderly, Loops
<1>2. CASE PushList \/ FullList \/ \E l \in LocalIds : UploadMissing(l) \/ UploadFailed(l)
  <2>1. /\ item' = item /\ job' = job
        /\ at \in {"candidates", "upload"} /\ at' = "upload"
    BY <1>2 DEF PushList, FullList, UploadMissing, UploadFailed, Take, Goto,
                Environment
  <2>2. QED BY <2>1, OrderlyFrame DEF Orderly, Loops, FullPlaces, FlushPlaces
<1>3. CASE \E l \in LocalIds : UploadCreated(l)
  <2>1. PICK l \in LocalIds : UploadCreated(l)
    BY <1>3
  <2>2. /\ job' = job
        /\ at = "upload" /\ at' = "uploaded"
        /\ item'.kind = "created" /\ item'.base # None
    BY <2>1 DEF UploadCreated, Take, Environment
  <2>3. QED BY <2>2, OrderlyFrame DEF Orderly, Loops, FullPlaces, FlushPlaces
<1>4. CASE UploadRecorded \/ Answered
  <2>1. /\ job' = job /\ item' = None
        /\ \/ at = "uploaded" /\ at' = "upload"
           \/ at = "answered" /\ at' = "linked"
    BY <1>4 DEF UploadRecorded, Answered, Goto, Environment
  <2>2. QED BY <2>1, OrderlyFrame DEF Orderly, Loops, FullPlaces, FlushPlaces
<1>5. CASE UploadsDone
  <2>1. adi' = adi /\ at = "upload"
    BY <1>5 DEF UploadsDone, Environment, profile
  <2>2. CASE job = "full"
    <3>1. job' = job /\ item' = item /\ at' = "finish"
      BY <1>5, <2>2 DEF UploadsDone, Goto
    <3>2. QED BY <2>1, <2>2, <3>1, OrderlyFrame DEF Orderly
  <2>3. CASE job # "full"
    BY <1>5, <2>1, <2>3, OrderlyStops DEF UploadsDone
  <2>4. QED BY <2>2, <2>3
<1>6. CASE FetchFailed \/ Finish
  BY <1>6, OrderlyStops DEF FetchFailed, Finish, Environment, profile
<1>7. CASE SyncReconcile \/ Snapshot \/ Fetch \/ ListLinked
  <2>1. /\ item' = item /\ job' = job
        /\ at \in FullPlaces /\ at' # "uploaded"
    BY <1>7 DEF SyncReconcile, Snapshot, Fetch, ListLinked, Goto, Environment,
                FullPlaces
  <2>2. QED BY <2>1, OrderlyFrame DEF Orderly
<1>8. CASE LinkedDone \/ ListUnlinked \/ UnlinkedDone
  <2>1. /\ item' = item /\ job' = job
        /\ at \in FullPlaces /\ at' # "uploaded"
    BY <1>8 DEF LinkedDone, ListUnlinked, UnlinkedDone, Goto, Environment,
                FullPlaces
  <2>2. QED BY <2>1, OrderlyFrame DEF Orderly
<1>9. CASE \E w \in WavelogIds : UnlinkedItem(w)
  <2>1. PICK w \in WavelogIds : UnlinkedItem(w)
    BY <1>9
  <2>2. /\ item' = item /\ job' = job
        /\ at = "unlinked"
    BY <2>1 DEF UnlinkedItem, Unlinked, Environment
  <2>3. at' \in {"flush", "unlinked"}
    BY <2>1, <2>2 DEF UnlinkedItem, Link, Pull, Incoming, Buffer
  <2>4. QED BY <2>2, <2>3, OrderlyFrame DEF Orderly, FullPlaces
<1>10. CASE \E l \in LocalIds :
               \/ LinkedDeletedBoth(l) \/ LinkedVanished(l) \/ LinkedConflict(l)
               \/ LinkedRemoteDeleted(l) \/ LinkedBothChanged(l)
               \/ LinkedRemoteChanged(l) \/ LinkedUnchanged(l)
               \/ RequestFailed(l)
  <2>1. /\ item' = item /\ job' = job
        /\ at = "linked" /\ at' \in {"linked", "flush"}
    BY <1>10 DEF LinkedDeletedBoth, LinkedVanished, LinkedConflict,
                 LinkedRemoteDeleted, LinkedBothChanged, LinkedRemoteChanged,
                 LinkedUnchanged, RequestFailed, Linked, Request, Conflict,
                 Take, Buffer, Environment
  <2>2. QED BY <2>1, OrderlyFrame DEF Orderly, FullPlaces
<1>11. CASE \E l \in LocalIds : RemoteDeleted(l) \/ RemotePatched(l)
  <2>1. PICK l \in LocalIds : RemoteDeleted(l) \/ RemotePatched(l)
    BY <1>11
  <2>2. /\ job' = job
        /\ at = "linked" /\ at' = "answered"
        /\ item'.kind = "deleted" \/ item'.base # None
    BY <2>1 DEF RemoteDeleted, RemotePatched, ToPatch, Comparable, Present,
                Request, Take, Environment
  <2>3. QED BY <2>2, OrderlyFrame DEF Orderly, FullPlaces
<1>12. CASE FlushBuffer
  <2>1. CASE Stop /\ WriteFailed
    BY <2>1, OrderlyStops DEF WriteFailed, Environment
  <2>2. CASE ~(Stop /\ WriteFailed)
    <3>1. /\ item' = item /\ job' = job
          /\ at \in FlushPlaces
      BY <1>12, <2>2 DEF FlushBuffer, FilterDeletes, DropRecords, DropFailed,
             ForgetRows, FilterUpserts, Stage, WriteRecords, WriteFailed,
             CommitRows, CommitBaselines, Flush, Goto, Environment, FlushPlaces
    <3>2. at' # "uploaded"
      <4>1. buffer.phase \in {"linked", "unlinked"}
        BY DEF TypeInv, Buffers
      <4>2. QED
        BY <1>12, <2>2, <4>1 DEF FlushBuffer, FilterDeletes, DropRecords, DropFailed,
             ForgetRows, FilterUpserts, Stage, WriteRecords, WriteFailed,
             CommitRows, CommitBaselines, Flush, Goto
    <3>3. QED BY <3>1, <3>2, OrderlyFrame DEF Orderly, FullPlaces
  <2>3. QED BY <2>1, <2>2
<1>13. QED
  BY <1>1, <1>2, <1>3, <1>4, <1>5, <1>6, <1>7, <1>8, <1>9, <1>10, <1>11, <1>12
     DEF Sync, Upload, FullSync, LinkedPhase, UnlinkedPhase

LEMMA OrderlyNext ==
    ASSUME TypeInv, Loops, Orderly, [Next]_vars
    PROVE  Orderly'
<1>1. CASE Cancel \/ Crash
  BY <1>1, OrderlyStops DEF Cancel, Crash
<1>2. CASE StartPush \/ StartDelta \/ StartFull
  <2>1. at' = "scan" /\ item' = item
    BY <1>2 DEF StartPush, StartDelta, StartFull, Start
  <2>2. QED BY <2>1 DEF Orderly, FullPlaces, FlushPlaces
<1>3. CASE \/ AddQso \/ StartWrite \/ WriteLog \/ WriteMeta \/ ResolveConflict
           \/ LoseRecord \/ RemoteChange \/ ResolveFails \/ IndexScan
           \/ RefreshScan
           \/ RefreshReconcile \/ UNCHANGED vars
  <2>1. UNCHANGED running
    BY <1>3 DEF AddQso, StartWrite, WriteLog, WriteMeta, ResolveConflict,
           LoseRecord, RemoteChange, ResolveFails, IndexScan, RefreshScan,
           RefreshReconcile, vars
  <2>2. QED BY <2>1 DEF Orderly, running
<1>4. QED
  BY <1>1, <1>2, <1>3, OrderlySync DEF Next, User, Others

(* A sync leaves the writer alone.                                         *)
LEMMA WriterStays == ASSUME Sync PROVE writer' = writer /\ at # "idle"
<1>1. CASE Scans \/ Upload \/ UploadsDone
  BY <1>1 DEF Scans, Scan, Upload, PushList, FullList, UploadRecorded,
         UploadMissing, UploadCreated, UploadFailed, UploadsDone, Take,
         Environment
<1>2. CASE \/ SyncReconcile \/ Snapshot \/ Fetch \/ FetchFailed \/ ListLinked
           \/ Finish \/ UnlinkedPhase
  BY <1>2 DEF SyncReconcile, Snapshot, Fetch, FetchFailed, ListLinked, Finish,
         UnlinkedPhase, ListUnlinked, UnlinkedItem, Unlinked, UnlinkedDone,
         Environment
<1>3. CASE LinkedPhase
  BY <1>3 DEF LinkedPhase, LinkedDeletedBoth, LinkedVanished, LinkedConflict,
         LinkedRemoteDeleted, LinkedBothChanged, LinkedRemoteChanged,
         LinkedUnchanged, RemoteDeleted, RemotePatched, RequestFailed, Linked,
         Request, Take, Answered, LinkedDone, Environment
<1>4. CASE FlushBuffer
  BY <1>4 DEF FlushBuffer, FilterDeletes, DropRecords, DropFailed, ForgetRows,
         FilterUpserts, Stage, WriteRecords, WriteFailed, CommitRows,
         CommitBaselines, Flush, Environment
<1>5. QED BY <1>1, <1>2, <1>3, <1>4 DEF Sync, FullSync

LEMMA AloneNext ==
    ASSUME TypeInv, Loops, Alone, ~Overlap, [Next]_vars
    PROVE  Alone'
<1>1. Orderly'
  BY OrderlyNext DEF Alone
<1>2. CASE Cancel \/ Crash
  BY <1>1, <1>2 DEF Alone, Cancel, Crash, Stop, Environment, profile
<1>3. CASE UNCHANGED vars
  BY <1>1, <1>3 DEF vars, Alone, running, profile
<1>4. CASE StartPush \/ StartDelta \/ StartFull
  <2>1. writer' = None
    BY <1>4 DEF StartPush, StartDelta, StartFull, Start, Environment
  <2>2. QED BY <1>1, <2>1 DEF Alone
<1>5. CASE Sync
  <2>1. writer' = None
    BY <1>5, WriterStays DEF Alone, Loops
  <2>2. QED BY <1>1, <2>1 DEF Alone
<1>6. QED
  BY <1>2, <1>3, <1>4, <1>5, AloneBeside DEF Next, User, Others

BasedRows == \A l \in LocalIds : Based(meta[l]) /\ Based(metas[l])

(* The record of a row that waits for a deletion is not in the log.        *)
Tombs == \A l \in LocalIds : Tomb(meta[l]) \/ Tomb(metas[l]) => adi[l] = None

Upserted == {u.id : u \in buffer.upserts}
Deleted  == {d.id : d \in buffer.deletes}

LinkedLoop ==
    \/ at \in {"linked", "answered"}
    \/ at \in FlushPlaces /\ buffer.phase = "linked"

UnlinkedLoop ==
    \/ at = "unlinked"
    \/ at \in FlushPlaces /\ buffer.phase = "unlinked"

(* What the buffer holds where.                                            *)
Buffered ==
    /\ ~(LinkedLoop \/ UnlinkedLoop) =>
          buffer.upserts = {} /\ buffer.deletes = {}
    /\ \/ at \in {"check", "stage", "write", "commit", "baselines"}
       \/ UnlinkedLoop
       => buffer.deletes = {}
    /\ at = "baselines" => buffer.upserts = {}

(* No deletion is asked for during a full sync.                            *)
KnownTombs ==
    LinkedLoop \/ UnlinkedLoop \/ at \in {"rescan", "relist"} =>
        \A l \in LocalIds : Tomb(meta[l]) => Tomb(metas[l])

(* The log is as it was scanned, but for records that were logged since.   *)
Early ==
    at \in {"reconcile", "snapshot", "fetch", "list"} =>
        \A l \in LocalIds :
            \/ adi[l] \in {None, locals[l]}
            \/ ~IsLinked(meta[l]) /\ staged[l] = None

(* So it is with the records of linked rows the sync has still to look at  *)
(* or to write; and it writes what was last synchronized.                  *)
AsScanned ==
    LinkedLoop =>
        /\ \A l \in todo \cup Deleted : adi[l] \in {None, locals[l]}
        /\ at # "commit" => \A l \in Upserted : adi[l] \in {None, locals[l]}
        /\ \A l \in Upserted \cup Deleted :
              /\ IsLinked(metas[l]) /\ ~Tomb(metas[l])
              /\ locals[l] \in {None, metas[l].base}
        /\ todo \cap Upserted = {}
        /\ at = "forget" => \A l \in Deleted : adi[l] = None
        /\ (at = "answered" /\ item.kind = "deleted") => Tomb(metas[item.id])

(* A row that has lost its link since has lost its record.                 *)
Forgotten ==
    LinkedLoop \/ at \in {"rescan", "relist"} =>
        \A l \in LocalIds :
            (IsLinked(metas[l]) /\ ~IsLinked(meta[l]) /\ ~Writing(l)) =>
                adi[l] = None /\ (at = "relist" => locals[l] = None)

(* What the second loop looks at or writes was not linked.                 *)
NeverLinked ==
    UnlinkedLoop =>
        \A l \in LocalIds :
            locals[l] # None \/ l \in Upserted => ~IsLinked(metas[l])

Scanned ==
    /\ Buffered /\ KnownTombs /\ Early /\ AsScanned /\ Forgotten /\ NeverLinked

RowsSteady == \A l \in LocalIds : Steady(meta'[l], meta[l])

LEMMA SameRowsSteady == ASSUME meta' = meta PROVE RowsSteady
BY SameSteady DEF RowsSteady

LEMMA OneRowSteady ==
    ASSUME TypeInv, NEW k \in LocalIds, NEW new, Steady(new, meta[k]),
           meta' = [meta EXCEPT ![k] = new]
    PROVE  RowsSteady
<1>1. ASSUME NEW l \in LocalIds PROVE Steady(meta'[l], meta[l])
  <2>1. meta'[l] = IF l = k THEN new ELSE meta[l]
    BY DEF TypeInv
  <2>2. QED BY <2>1, SameSteady
<1>2. QED BY <1>1 DEF RowsSteady

(* Rows that are steady or go, in a log in which no record appears.        *)
LEMMA RowsFrame ==
    ASSUME BasedRows, Tombs, ReadRowsKept,
           \A l \in LocalIds :
               meta'[l] = None \/ Steady(meta'[l], meta[l]),
           \A l \in LocalIds : adi[l] = None => adi'[l] = None
    PROVE  BasedRows' /\ Tombs'
<1>1. ASSUME NEW l \in LocalIds
      PROVE  /\ Based(meta'[l]) /\ Based(metas'[l])
             /\ Tomb(meta'[l]) \/ Tomb(metas'[l]) => adi'[l] = None
  <2>1. Based(None) /\ ~Tomb(None)
    BY DEF Based, Tomb, IsLinked
  <2>2. metas'[l] \in {metas[l], meta[l], None}
    BY DEF ReadRowsKept, NoLog
  <2>3. /\ Based(meta'[l])
        /\ Tomb(meta'[l]) => adi'[l] = None
    BY <2>1 DEF BasedRows, Tombs, Steady
  <2>4. /\ Based(metas'[l])
        /\ Tomb(metas'[l]) => adi'[l] = None
    BY <2>1, <2>2 DEF BasedRows, Tombs
  <2>5. QED BY <2>3, <2>4
<1>2. BasedRows'
  BY <1>1 DEF BasedRows, Based, IsLinked
<1>3. Tombs'
  BY <1>1 DEF Tombs, Tomb, IsLinked
<1>4. QED BY <1>2, <1>3

(* Places without such promises.                                           *)
Busy == FlushPlaces \cup
    {"reconcile", "snapshot", "fetch", "list", "linked", "answered", "rescan",
     "relist", "unlinked"}

LEMMA OutsideFrame ==
    ASSUME at' \notin Busy, buffer'.upserts = {}, buffer'.deletes = {}
    PROVE  Scanned'
BY DEF Scanned, Buffered, KnownTombs, Early, AsScanned, Forgotten, NeverLinked,
       Busy, LinkedLoop, UnlinkedLoop, FlushPlaces

LEMMA OutsideBuffer ==
    ASSUME Scanned, at \notin Busy
    PROVE  buffer.upserts = {} /\ buffer.deletes = {}
BY DEF Scanned, Buffered, Busy, LinkedLoop, UnlinkedLoop

LEMMA BesideFrame ==
    ASSUME Scanned, UNCHANGED running, RowsSteady,
           \A l \in LocalIds : adi'[l] \in {adi[l], None},
           \A l \in LocalIds :
               (~IsLinked(meta[l]) /\ staged[l] = None) =>
                   (~IsLinked(meta'[l]) /\ staged'[l] = None),
           TypeInv, Loops
    PROVE  Scanned'
<1>1. /\ LinkedLoop' <=> LinkedLoop
      /\ UnlinkedLoop' <=> UnlinkedLoop
      /\ Upserted' = Upserted /\ Deleted' = Deleted
      /\ \A l \in LocalIds : Writing(l)' <=> Writing(l)
  BY DEF LinkedLoop, UnlinkedLoop, Upserted, Deleted, Writing, running
<1>2. UNCHANGED <<at, todo, locals, metas, buffer, item>>
  BY DEF running, reads
<1>3. Buffered'
  BY <1>1, <1>2 DEF Scanned, Buffered
<1>4. KnownTombs'
  BY <1>1, <1>2 DEF Scanned, KnownTombs, RowsSteady, Steady
<1>5. Early'
  BY <1>2 DEF Scanned, Early, IsLinked
<1>6. AsScanned'
  <2> SUFFICES ASSUME LinkedLoop PROVE AsScanned'
    BY <1>1 DEF AsScanned
  <2>1. \A l \in todo \cup Upserted \cup Deleted : l \in LocalIds
    BY DEF Loops, LinkedLoop, Upserted, Deleted, TypeInv, Buffers, Upsert, Delete
  <2>2. QED BY <1>1, <1>2, <2>1 DEF Scanned, AsScanned
<1>7. Forgotten'
  <2> SUFFICES ASSUME LinkedLoop \/ at \in {"rescan", "relist"},
                      NEW l \in LocalIds, IsLinked(metas[l]),
                      ~IsLinked(meta'[l]), ~Writing(l)
               PROVE  adi'[l] = None /\ (at = "relist" => locals[l] = None)
    BY <1>1, <1>2 DEF Forgotten, IsLinked
  <2>1. ~IsLinked(meta[l])
    BY DEF RowsSteady, Steady
  <2>2. QED BY <2>1 DEF Scanned, Forgotten
<1>8. NeverLinked'
  BY <1>1, <1>2 DEF Scanned, NeverLinked, IsLinked
<1>9. QED BY <1>3, <1>4, <1>5, <1>6, <1>7, <1>8 DEF Scanned

Kept == BasedRows /\ Tombs /\ Scanned

(* New records are none that the sync is at.                               *)
LEMMA AddQsoKeeps ==
    ASSUME TypeInv, Loops, Kept, AddQso
    PROVE  Kept'
<1>1. PICK k \in FreshIds, c \in Content :
         /\ adi' = [adi EXCEPT ![k] = c]
         /\ meta' = [meta EXCEPT ![k] = EnsureLocal(@, c, Scanning)]
  BY DEF AddQso
<1>2. /\ k \in LocalIds /\ meta[k] = None /\ meta[k] \in Row \cup {None}
      /\ staged[k] = None /\ locals[k] = None /\ metas[k] = None
      /\ k \notin Upserted \cup Deleted
  BY DEF FreshIds, Upserted, Deleted
<1> DEFINE new == EnsureLocal(meta[k], c, Scanning)
<1>3. Steady(new, meta[k]) /\ ~IsLinked(new)
  BY <1>2, ScanningType, EnsureLocalSteady
<1> HIDE DEF new
<1>4. meta' = [meta EXCEPT ![k] = new]
  BY <1>1, <1>2 DEF new
<1>5. RowsSteady
  BY <1>2, <1>3, <1>4, OneRowSteady
<1>6. UNCHANGED running /\ UNCHANGED staged
  BY DEF AddQso
<1>7. UNCHANGED <<at, todo, locals, metas, buffer, item>>
  BY <1>6 DEF running, reads
<1>8. meta'[k] = new /\ \A l \in LocalIds : l # k => adi'[l] = adi[l]
  BY <1>1, <1>2, <1>4 DEF TypeInv
<1>9. BasedRows' /\ Tombs'
  <2>1. ASSUME NEW l \in LocalIds
        PROVE  /\ Based(meta'[l])
               /\ Tomb(meta'[l]) \/ Tomb(metas[l]) => adi'[l] = None
    <3>1. CASE l = k
      BY <1>2, <1>3, <1>8, <3>1 DEF Based, Tomb, IsLinked
    <3>2. CASE l # k
      BY <1>5, <1>8, <3>2 DEF Kept, BasedRows, Tombs, RowsSteady, Steady
    <3>3. QED BY <3>1, <3>2
  <2>2. BasedRows'
    BY <1>7, <2>1 DEF Kept, BasedRows, Based, IsLinked
  <2>3. Tombs'
    BY <1>7, <2>1 DEF Tombs, Tomb, IsLinked
  <2>4. QED BY <2>2, <2>3
<1>10. Scanned'
  <2>1. /\ LinkedLoop' <=> LinkedLoop
        /\ UnlinkedLoop' <=> UnlinkedLoop
        /\ Upserted' = Upserted /\ Deleted' = Deleted
        /\ \A l \in LocalIds : Writing(l)' <=> Writing(l)
    BY <1>7 DEF LinkedLoop, UnlinkedLoop, Upserted, Deleted, Writing
  <2>2. Buffered' /\ KnownTombs' /\ NeverLinked'
    BY <1>5, <1>7, <2>1 DEF Kept, Scanned, Buffered, KnownTombs, NeverLinked,
                            IsLinked, RowsSteady, Steady
  <2>3. Early'
    <3> SUFFICES ASSUME at \in {"reconcile", "snapshot", "fetch", "list"},
                        NEW l \in LocalIds
                 PROVE  \/ adi'[l] \in {None, locals[l]}
                        \/ ~IsLinked(meta'[l]) /\ staged[l] = None
      BY <1>6, <1>7 DEF Early, IsLinked
    <3>1. CASE l = k
      BY <1>2, <1>3, <1>8, <3>1
    <3>2. CASE l # k
      <4>1. meta'[l] = meta[l] /\ adi'[l] = adi[l]
        BY <1>2, <1>4, <1>8, <3>2 DEF TypeInv
      <4>2. QED BY <4>1 DEF Kept, Scanned, Early
    <3>3. QED BY <3>1, <3>2
  <2>4. AsScanned'
    <3> SUFFICES ASSUME LinkedLoop PROVE AsScanned'
      BY <2>1 DEF AsScanned
    <3>1. k \notin todo
      BY <1>2 DEF Loops, LinkedLoop, IsLinked
    <3>2. \A l \in todo \cup Upserted \cup Deleted : l \in LocalIds /\ l # k
      BY <1>2, <3>1 DEF Loops, LinkedLoop, Upserted, Deleted, TypeInv, Buffers,
                        Upsert, Delete
    <3>3. \A l \in todo \cup Upserted \cup Deleted : adi'[l] = adi[l]
      BY <1>8, <3>2
    <3>4. QED BY <1>7, <2>1, <3>3 DEF Kept, Scanned, AsScanned
  <2>5. Forgotten'
    <3> SUFFICES ASSUME LinkedLoop \/ at \in {"rescan", "relist"},
                        NEW l \in LocalIds, IsLinked(metas[l]),
                        ~IsLinked(meta'[l]), ~Writing(l)
                 PROVE  adi'[l] = None /\ (at = "relist" => locals[l] = None)
      BY <1>7, <2>1 DEF Forgotten, IsLinked
    <3>1. l # k
      BY <1>2 DEF IsLinked
    <3>2. adi'[l] = adi[l] /\ ~IsLinked(meta[l])
      BY <1>5, <1>8, <3>1 DEF RowsSteady, Steady
    <3>3. QED BY <3>2 DEF Kept, Scanned, Forgotten
  <2>6. QED BY <2>2, <2>3, <2>4, <2>5 DEF Scanned
<1>11. QED BY <1>9, <1>10 DEF Kept

(* The two steps of a write, and its start, fall into no full sync; nor    *)
(* does the resolution of a conflict.                                      *)
LEMMA IdleFrame ==
    ASSUME Kept, at \notin Busy, UNCHANGED running
    PROVE  Scanned'
BY OutsideBuffer, OutsideFrame DEF Kept, running

LEMMA WriteKeeps ==
    ASSUME TypeInv, Loops, Alone, Kept, ~Overlap,
           StartWrite \/ WriteLog \/ WriteMeta
    PROVE  Kept'
<1>1. at \notin Busy /\ UNCHANGED running
  <2>1. job = "none" /\ UNCHANGED running
    BY DEF StartWrite, WriteLog, WriteMeta, Alone, Orderly
  <2>2. QED BY <2>1 DEF Loops, Busy, FlushPlaces
<1>2. Scanned'
  BY <1>1, IdleFrame
<1>3. metas' = metas
  BY <1>1 DEF running, reads
<1>4. CASE StartWrite \/ WriteLog
  <2>1. meta' = meta
    BY <1>4 DEF StartWrite, WriteLog, profile
  <2>2. \A l \in LocalIds : adi[l] = None => adi'[l] = None
    BY <1>4 DEF StartWrite, WriteLog, profile, TypeInv
  <2>3. \A l \in LocalIds : Steady(meta'[l], meta[l])
    BY <2>1, SameSteady
  <2>4. QED BY <1>2, <1>3, <2>2, <2>3, RowsFrame DEF Kept, ReadRowsKept
<1>5. CASE WriteMeta
  <2>1. writer.id \in LocalIds /\ adi' = adi /\ writer # None /\ writer.saved
    BY <1>5 DEF WriteMeta, TypeInv, Writer
  <2> DEFINE old == meta[writer.id]
             new == IF writer.kind = "delete" THEN MarkPendingDelete(old)
                    ELSE EnsureLocal(old, writer.content, Scanning)
  <2>2. old \in Row \cup {None}
    BY <2>1 DEF TypeInv
  <2>3. meta' = [meta EXCEPT ![writer.id] = new]
    BY <1>5 DEF WriteMeta
  <2>4. /\ Based(new)
        /\ Tomb(new) => adi[writer.id] = None
    <3>1. CASE writer.kind = "delete"
      <4>1. adi[writer.id] = None
        BY <2>1, <3>1 DEF Alone, Orderly
      <4>2. new = MarkPendingDelete(old)
        BY <3>1
      <4> HIDE DEF new
      <4>3. QED BY <2>2, <4>1, <4>2, MarkPendingDeleteBased
    <3>2. CASE writer.kind # "delete"
      <4>1. new = EnsureLocal(old, writer.content, Scanning)
        BY <3>2
      <4> HIDE DEF new
      <4>2. Steady(new, old)
        BY <2>2, <4>1, ScanningType, EnsureLocalSteady
      <4>3. QED BY <2>1, <4>2 DEF Kept, BasedRows, Tombs, Steady
    <3>3. QED BY <3>1, <3>2
  <2> HIDE DEF new
  <2>5. ASSUME NEW l \in LocalIds
        PROVE  /\ Based(meta'[l])
               /\ Tomb(meta'[l]) \/ Tomb(metas[l]) => adi'[l] = None
    <3>1. meta'[l] = IF l = writer.id THEN new ELSE meta[l]
      BY <2>1, <2>3 DEF TypeInv
    <3>2. QED BY <2>1, <2>4, <3>1 DEF Kept, BasedRows, Tombs
  <2>6. BasedRows'
    BY <1>3, <2>5 DEF Kept, BasedRows, Based, IsLinked
  <2>7. Tombs'
    BY <1>3, <2>5 DEF Tombs, Tomb, IsLinked
  <2>8. QED BY <1>2, <2>6, <2>7 DEF Kept
<1>6. QED BY <1>4, <1>5

(* Resolving a conflict ends a row, or makes it synced.                    *)
LEMMA ResolvedRows ==
    ASSUME TypeInv, ResolveConflict
    PROVE  \A l \in LocalIds : meta'[l] = None \/ Steady(meta'[l], meta[l])
<1>1. PICK k \in LocalIds :
         CanResolve(k) /\ (KeepLocal(k) \/ TakeWavelog(k))
  BY DEF ResolveConflict
<1>2. /\ adi[k] # None /\ adi[k] \in Content
      /\ meta[k] \in Row /\ meta[k].wid \in WavelogIds
  BY <1>1 DEF CanResolve, IsLinked, TypeInv, Row
<1>3. \/ meta' = [meta EXCEPT ![k] = None]
      \/ \E wid \in WavelogIds \cup {None}, base, web \in Content :
            meta' = [meta EXCEPT ![k] =
                        SetSynced(meta[k], wid, base, web, Scanning)]
  <2>1. CASE TakeWavelog(k)
    BY <1>2, <2>1 DEF TakeWavelog, Live, TypeInv
  <2>2. CASE KeepLocal(k) /\ meta[k].reason = "remote_deleted"
    <3>1. \E w \in NextWavelogId :
             meta' = [meta EXCEPT ![k] =
                         SetSynced(meta[k], w, adi[k], adi[k], Scanning)]
      BY <2>2 DEF KeepLocal
    <3>2. QED BY <1>2, <3>1 DEF NextWavelogId
  <2>3. CASE KeepLocal(k) /\ meta[k].reason # "remote_deleted"
    <3> DEFINE patched == Patched(remote[meta[k].wid], adi[k])
    <3>1. /\ Live(meta[k].wid)
          /\ meta' = [meta EXCEPT ![k] =
                         SetSynced(meta[k], None, adi[k], patched, Scanning)]
      BY <2>3 DEF KeepLocal
    <3>2. patched \in Content
      BY <1>2, <3>1 DEF Patched, Live, TypeInv
    <3> HIDE DEF patched
    <3>3. QED BY <1>2, <3>1, <3>2
  <2>4. QED BY <1>1, <2>1, <2>2, <2>3
<1>4. \A l \in LocalIds : meta'[l] = None \/ Steady(meta'[l], meta[l])
  <2>1. CASE meta' = [meta EXCEPT ![k] = None]
    BY <2>1, SameSteady DEF TypeInv
  <2>2. ASSUME NEW wid \in WavelogIds \cup {None}, NEW base \in Content,
               NEW web \in Content,
               meta' = [meta EXCEPT ![k] =
                           SetSynced(meta[k], wid, base, web, Scanning)]
        PROVE  RowsSteady
    <3> DEFINE new == SetSynced(meta[k], wid, base, web, Scanning)
    <3>1. Steady(new, meta[k])
      BY <1>2, ScanningType, SetSyncedSteady DEF BaseColumn
    <3> HIDE DEF new
    <3>2. meta' = [meta EXCEPT ![k] = new]
      BY <2>2 DEF new
    <3>3. QED BY <3>1, <3>2, OneRowSteady
  <2>3. QED BY <1>3, <2>1, <2>2 DEF RowsSteady
<1>5. QED BY <1>4

LEMMA ResolveKeeps ==
    ASSUME TypeInv, Alone, Kept, ResolveConflict
    PROVE  Kept'
<1>1. at \notin Busy /\ UNCHANGED running
  <2>1. job # "full" /\ UNCHANGED running
    BY DEF ResolveConflict, Modal
  <2>2. QED BY <2>1 DEF Alone, Orderly, FullPlaces, Busy
<1>2. Scanned'
  BY <1>1, IdleFrame
<1>3. PICK k \in LocalIds :
         CanResolve(k) /\ (KeepLocal(k) \/ TakeWavelog(k))
  BY DEF ResolveConflict
<1>4. /\ adi[k] # None /\ adi[k] \in Content
      /\ meta[k] \in Row /\ meta[k].wid \in WavelogIds
  BY <1>3 DEF CanResolve, IsLinked, TypeInv, Row
<1>5. \A l \in LocalIds : adi[l] = None => adi'[l] = None
  BY <1>3, <1>4 DEF KeepLocal, TakeWavelog, TypeInv
<1>7. \A l \in LocalIds : meta'[l] = None \/ Steady(meta'[l], meta[l])
  BY ResolvedRows
<1>8. ReadRowsKept
  BY <1>1 DEF running, reads, ReadRowsKept
<1>9. BasedRows' /\ Tombs'
  BY <1>5, <1>7, <1>8, RowsFrame DEF Kept
<1>10. QED BY <1>2, <1>9 DEF Kept

(* Steps beside a sync that log nothing.                                   *)
LEMMA BesideKeeps ==
    ASSUME TypeInv, Loops, Kept, UNCHANGED running, RowsSteady,
           \A l \in LocalIds : adi'[l] \in {adi[l], None},
           \A l \in LocalIds :
               (~IsLinked(meta[l]) /\ staged[l] = None) =>
                   (~IsLinked(meta'[l]) /\ staged'[l] = None)
    PROVE  Kept'
<1>1. Scanned'
  BY BesideFrame DEF Kept
<1>2. metas' = metas
  BY DEF running, reads
<1>3. BasedRows' /\ Tombs'
  BY <1>2, RowsFrame DEF Kept, ReadRowsKept, RowsSteady
<1>4. QED BY <1>1, <1>3 DEF Kept

LEMMA ReconciledRowsSteady ==
    ASSUME TypeInv, NEW log, NEW scanner \in Scanners,
           meta' = Reconciled(meta, staged, log, scanner, Scanning)
    PROVE  /\ RowsSteady
           /\ \A l \in LocalIds :
                 (~IsLinked(meta[l]) /\ staged[l] = None) => ~IsLinked(meta'[l])
<1>1. /\ meta \in [LocalIds -> Row \cup {None}]
      /\ staged \in [LocalIds -> Staged \cup {None}]
  BY DEF TypeInv
<1>2. ASSUME NEW l \in LocalIds
      PROVE  /\ Steady(meta'[l], meta[l])
             /\ (staged[l] = None /\ ~IsLinked(meta[l])) => ~IsLinked(meta'[l])
  <2>1. meta'[l] = Reconciled(meta, staged, log, scanner, Scanning)[l]
    OBVIOUS
  <2>2. QED BY <1>1, <2>1, ScanningType, ReconciledSteady
<1>3. QED BY <1>2 DEF RowsSteady

LEMMA OtherBesides ==
    ASSUME TypeInv, Loops, Kept,
           LoseRecord \/ RemoteChange \/ ResolveFails \/ IndexScan
             \/ RefreshScan
             \/ RefreshReconcile
    PROVE  Kept'
<1>1. CASE RefreshReconcile
  <2>1. /\ "refresh" \in Scanners
        /\ meta' = Reconciled(meta, staged, refresh, "refresh", Scanning)
        /\ adi' = adi /\ UNCHANGED running
        /\ \A l \in LocalIds : staged'[l] = None
    BY <1>1 DEF RefreshReconcile, Scanners, NothingStaged
  <2>2. /\ RowsSteady
        /\ \A l \in LocalIds :
              (~IsLinked(meta[l]) /\ staged[l] = None) => ~IsLinked(meta'[l])
    BY <2>1, ReconciledRowsSteady
  <2>3. QED BY <2>1, <2>2, BesideKeeps
<1>2. CASE \/ LoseRecord \/ RemoteChange \/ ResolveFails
           \/ IndexScan \/ RefreshScan
  <2>1. /\ UNCHANGED <<meta, staged>> /\ UNCHANGED running
        /\ \A l \in LocalIds : adi'[l] \in {adi[l], None}
    BY <1>2 DEF LoseRecord, RemoteChange, ResolveFails, IndexScan,
                RefreshScan, profile,
                TypeInv
  <2>2. QED BY <2>1, SameRowsSteady, BesideKeeps
<1>3. QED BY <1>1, <1>2

(* Nothing runs any more.                                                  *)
LEMMA StopKeeps ==
    ASSUME Kept, Stop, UNCHANGED <<adi, meta>>
    PROVE  Kept'
<1>1. /\ at' \notin Busy /\ buffer'.upserts = {} /\ buffer'.deletes = {}
      /\ metas' = NoLog
  BY DEF Stop, Busy, FlushPlaces, NoBuffer
<1>2. Scanned'
  BY <1>1, OutsideFrame
<1>3. BasedRows' /\ Tombs'
  BY <1>1, SameSteady, RowsFrame DEF Kept, ReadRowsKept
<1>4. QED BY <1>2, <1>3 DEF Kept

(* Steps between places at which no loop is on.                            *)
LEMMA OutsideKeeps ==
    ASSUME Kept, at \notin Busy, at' \notin Busy,
           buffer' = buffer, UNCHANGED <<adi, metas>>,
           \A l \in LocalIds : meta'[l] = None \/ Steady(meta'[l], meta[l])
    PROVE  Kept'
<1>1. Scanned'
  BY OutsideBuffer, OutsideFrame DEF Kept
<1>2. BasedRows' /\ Tombs'
  BY RowsFrame DEF Kept, ReadRowsKept
<1>3. QED BY <1>1, <1>2 DEF Kept

LEMMA StartKeeps ==
    ASSUME Loops, Kept,
           \/ StartPush \/ StartDelta \/ StartFull
           \/ PushList \/ FullList \/ Scan("lastscan", "candidates")
           \/ Scan("scan", "candidates")
           \/ \E l \in LocalIds : UploadCreated(l)
    PROVE  Kept'
<1>1. /\ at \notin Busy /\ at' \notin Busy
      /\ buffer' = buffer /\ UNCHANGED <<adi, metas>> /\ meta' = meta
  BY DEF StartPush, StartDelta, StartFull, Start, PushList, FullList, Scan,
         UploadCreated, Take, Goto, profile, reads, Loops, Busy, FlushPlaces
<1>2. QED BY <1>1, SameSteady, OutsideKeeps

(* So does an upload, or it notes an error.                                *)
LEMMA UploadedRows ==
    ASSUME TypeInv, Loops, Orderly,
           \/ UploadRecorded
           \/ \E l \in LocalIds : UploadMissing(l) \/ UploadFailed(l)
    PROVE  \A l \in LocalIds : meta'[l] = None \/ Steady(meta'[l], meta[l])
<1>1. CASE UploadRecorded
  <2> DEFINE new == SetSynced(meta[item.id], item.wid, item.base,
                              item.remoteBase, Scanning)
  <2>1. /\ item \in Answer /\ item # None /\ item.kind = "created"
        /\ meta' = [meta EXCEPT ![item.id] = new]
    BY <1>1 DEF UploadRecorded, Loops, TypeInv, Orderly
  <2>2. /\ item.id \in LocalIds /\ item.wid \in WavelogIds
        /\ item.base \in Content /\ item.remoteBase \in BaseColumn
        /\ meta[item.id] \in Row \cup {None}
    BY <2>1 DEF Answer, Orderly, BaseColumn, TypeInv
  <2>3. Steady(new, meta[item.id])
    BY <2>2, ScanningType, SetSyncedSteady
  <2> HIDE DEF new
  <2>4. RowsSteady
    BY <2>1, <2>2, <2>3, OneRowSteady
  <2>5. QED BY <2>4 DEF RowsSteady
<1>2. ASSUME NEW l \in LocalIds, UploadMissing(l)
      PROVE  \A k \in LocalIds : meta'[k] = None \/ Steady(meta'[k], meta[k])
  BY <1>2, SameSteady DEF UploadMissing, TypeInv
<1>3. ASSUME NEW l \in LocalIds, UploadFailed(l)
      PROVE  \A k \in LocalIds : meta'[k] = None \/ Steady(meta'[k], meta[k])
  <2> DEFINE new == SetError(meta[l], None, Scanning)
  <2>1. meta' = [meta EXCEPT ![l] = new] /\ meta[l] \in Row \cup {None}
    BY <1>3 DEF UploadFailed, TypeInv
  <2>2. Steady(new, meta[l])
    BY <2>1, ScanningType, SetErrorSteady
  <2> HIDE DEF new
  <2>3. RowsSteady
    BY <2>1, <2>2, OneRowSteady
  <2>4. QED BY <2>3 DEF RowsSteady
<1>4. QED BY <1>1, <1>2, <1>3

LEMMA UploadKeeps ==
    ASSUME TypeInv, Loops, Alone, Kept,
           \/ UploadRecorded
           \/ \E l \in LocalIds : UploadMissing(l) \/ UploadFailed(l)
    PROVE  Kept'
<1>1. /\ at \notin Busy /\ at' \notin Busy
      /\ buffer' = buffer /\ UNCHANGED <<adi, metas>>
  BY DEF UploadRecorded, UploadMissing, UploadFailed, Take, Goto, reads, Busy,
         FlushPlaces
<1>2. \A l \in LocalIds : meta'[l] = None \/ Steady(meta'[l], meta[l])
  BY UploadedRows DEF Alone
<1>3. QED BY <1>1, <1>2, OutsideKeeps

LEMMA StopsKeep ==
    ASSUME Kept,
           UploadsDone \/ FetchFailed \/ Finish \/ Cancel \/ Crash
    PROVE  Kept'
<1>1. CASE UploadsDone /\ job = "full"
  <2>1. /\ at \notin Busy /\ at' \notin Busy
        /\ buffer' = buffer /\ UNCHANGED <<adi, metas, meta>>
    BY <1>1 DEF UploadsDone, Goto, reads, profile, Busy, FlushPlaces
  <2>2. QED BY <2>1, SameSteady, OutsideKeeps
<1>2. CASE ~(UploadsDone /\ job = "full")
  <2>1. Stop /\ UNCHANGED <<adi, meta>>
    BY <1>2 DEF UploadsDone, FetchFailed, Finish, Cancel, Crash, profile
  <2>2. QED BY <2>1, StopKeeps
<1>3. QED BY <1>1, <1>2

(* From the scan of the log to the reading of the rows.                    *)
LEMMA EarlyKeeps ==
    ASSUME TypeInv, Loops, Kept,
           \/ Scan("scan", "reconcile") \/ SyncReconcile \/ Snapshot \/ Fetch
    PROVE  Kept'
<1>1. /\ at \in {"scan", "reconcile", "snapshot", "fetch"}
      /\ at' \in {"reconcile", "snapshot", "fetch", "list"}
      /\ UNCHANGED <<adi, metas, buffer>>
  BY DEF Scan, SyncReconcile, Snapshot, Fetch, Goto, profile, reads
<1>2. ~LinkedLoop /\ ~UnlinkedLoop /\ ~LinkedLoop' /\ ~UnlinkedLoop'
  BY <1>1 DEF LinkedLoop, UnlinkedLoop, FlushPlaces
<1>3. Buffered' /\ KnownTombs' /\ AsScanned' /\ Forgotten' /\ NeverLinked'
  BY <1>1, <1>2 DEF Kept, Scanned, Buffered, KnownTombs, AsScanned, Forgotten,
                    NeverLinked, FlushPlaces
<1>4. RowsSteady /\ Early'
  <2>1. CASE Scan("scan", "reconcile")
    <3>1. locals' = adi /\ meta' = meta
      BY <2>1 DEF Scan, profile
    <3>2. QED BY <1>1, <3>1, SameRowsSteady DEF Early
  <2>2. CASE SyncReconcile
    <3>1. /\ "sync" \in Scanners
          /\ meta' = Reconciled(meta, staged, locals, "sync", Scanning)
          /\ at = "reconcile" /\ locals' = locals
          /\ \A l \in LocalIds : staged'[l] = None
      BY <2>2 DEF SyncReconcile, Scanners, reads, NothingStaged
    <3>2. /\ RowsSteady
          /\ \A l \in LocalIds :
                (~IsLinked(meta[l]) /\ staged[l] = None) => ~IsLinked(meta'[l])
      BY <3>1, ReconciledRowsSteady
    <3>3. QED BY <1>1, <3>1, <3>2 DEF Kept, Scanned, Early, IsLinked
  <2>3. CASE Snapshot \/ Fetch
    <3>1. UNCHANGED <<locals, meta, staged>> /\ at \in {"snapshot", "fetch"}
      BY <2>3 DEF Snapshot, Fetch, profile
    <3>2. QED BY <1>1, <3>1, SameRowsSteady DEF Kept, Scanned, Early, IsLinked
  <2>4. QED BY <2>1, <2>2, <2>3
<1>5. BasedRows' /\ Tombs'
  BY <1>1, <1>4, RowsFrame DEF Kept, ReadRowsKept, RowsSteady
<1>6. QED BY <1>3, <1>4, <1>5 DEF Kept, Scanned

LEMMA ListLinkedKeeps ==
    ASSUME TypeInv, Loops, Kept, ListLinked
    PROVE  Kept'
<1>1. /\ at = "list" /\ at' = "linked" /\ metas' = meta
      /\ todo' = {l \in LocalIds : IsLinked(meta[l])}
      /\ UNCHANGED <<adi, meta, locals, buffer, item>>
  BY DEF ListLinked, Goto, profile
<1>2. /\ buffer.phase = "linked"
      /\ buffer.upserts = {} /\ buffer.deletes = {}
  BY <1>1 DEF Loops, Kept, Scanned, Buffered, LinkedLoop, UnlinkedLoop,
              FlushPlaces
<1>3. ~UnlinkedLoop'
  BY <1>1 DEF UnlinkedLoop, FlushPlaces
<1>4. Buffered' /\ Early' /\ NeverLinked'
  BY <1>1, <1>2, <1>3 DEF Buffered, Early, NeverLinked
<1>5. KnownTombs' /\ Forgotten'
  BY <1>1 DEF KnownTombs, Forgotten, Tomb, IsLinked
<1>6. AsScanned'
  <2>1. Upserted' = {} /\ Deleted' = {}
    BY <1>1, <1>2 DEF Upserted, Deleted
  <2>2. \A l \in todo' : adi[l] \in {None, locals[l]}
    BY <1>1 DEF Kept, Scanned, Early
  <2>3. QED BY <1>1, <2>1, <2>2 DEF AsScanned
<1>7. BasedRows' /\ Tombs'
  BY <1>1, SameSteady, RowsFrame DEF Kept, ReadRowsKept
<1>8. QED BY <1>4, <1>5, <1>6, <1>7 DEF Kept, Scanned

-----------------------------------------------------------------------------
(* Proofs of the steps of the loop over linked rows. *)

(* Rows are steady, or go when their record is gone.                       *)
RowsStay ==
    \A l \in LocalIds :
        \/ Steady(meta'[l], meta[l])
        \/ meta'[l] = None /\ adi'[l] = None

(* Writes a sync may buffer: of a linked row, and of what was last         *)
(* synchronized.                                                           *)
MayWrite(l) ==
    /\ IsLinked(metas[l]) /\ ~Tomb(metas[l])
    /\ locals[l] \in {None, metas[l].base}

LEMMA LinkedItemKeeps ==
    ASSUME TypeInv, Loops, Kept, RowsStay, at = "linked",
           NEW l \in LocalIds, l \in todo, todo' = todo \ {l},
           UNCHANGED <<adi, locals, metas>>,
           buffer'.phase = buffer.phase,
           \/ Upserted' = Upserted /\ Deleted' = Deleted
           \/ /\ Upserted' \subseteq Upserted \cup {l}
              /\ Deleted' \subseteq Deleted \cup {l}
              /\ MayWrite(l),
           at' \in {"linked", "flush", "answered"},
           (at' = "answered" /\ item'.kind = "deleted") =>
               Tomb(metas[item'.id])
    PROVE  Kept'
<1>1. buffer.phase = "linked"
  BY DEF Loops
<1>2. /\ LinkedLoop /\ ~UnlinkedLoop
      /\ LinkedLoop' /\ ~UnlinkedLoop'
  BY <1>1 DEF LinkedLoop, UnlinkedLoop, FlushPlaces
<1>3. ReadRowsKept /\ BasedRows' /\ Tombs'
  BY RowsFrame DEF Kept, ReadRowsKept, RowsStay
<1>4. Buffered' /\ Early' /\ NeverLinked'
  BY <1>2 DEF Buffered, Early, NeverLinked
<1>5. \A k \in LocalIds : ~Writing(k) /\ ~Writing(k)'
  BY DEF Writing
<1>6. KnownTombs'
  <2> SUFFICES ASSUME NEW k \in LocalIds, Tomb(meta'[k])
               PROVE  Tomb(metas[k])
    BY DEF KnownTombs, Tomb, IsLinked
  <2>1. Tomb(meta[k])
    BY DEF RowsStay, Steady, Tomb, IsLinked
  <2>2. QED BY <1>2, <2>1 DEF Kept, Scanned, KnownTombs
<1>7. Forgotten'
  <2> SUFFICES ASSUME NEW k \in LocalIds, IsLinked(metas[k]),
                      ~IsLinked(meta'[k])
               PROVE  adi[k] = None
    BY DEF Forgotten, IsLinked
  <2>1. ~IsLinked(meta[k]) \/ adi[k] = None
    BY DEF RowsStay, Steady
  <2>2. QED BY <1>2, <1>5, <2>1 DEF Kept, Scanned, Forgotten
<1>8. AsScanned'
  <2>1. AsScanned
    BY DEF Kept, Scanned
  <2>2. adi[l] \in {None, locals[l]}
    BY <1>2, <2>1 DEF AsScanned
  <2>3. \A k \in Upserted' \cup Deleted' :
           adi[k] \in {None, locals[k]} /\ MayWrite(k)
    BY <1>2, <2>1, <2>2 DEF AsScanned, MayWrite
  <2>4. todo' \cap Upserted' = {}
    BY <1>2, <2>1 DEF AsScanned
  <2>5. \A k \in todo' : adi[k] \in {None, locals[k]}
    BY <1>2, <2>1 DEF AsScanned
  <2>6. QED BY <2>3, <2>4, <2>5 DEF AsScanned, MayWrite, Tomb, IsLinked
<1>9. QED BY <1>3, <1>4, <1>6, <1>7, <1>8 DEF Kept, Scanned

(* What a linked row gets that is no conflict: nothing, or a write.        *)
LEMMA TakenLinked ==
    ASSUME Loops, NEW l \in LocalIds, Linked(l) \/ Request(l)
    PROVE  /\ at = "linked" /\ l \in todo /\ todo' = todo \ {l}
           /\ UNCHANGED <<adi, locals, metas>>
           /\ IsLinked(metas[l]) /\ buffer.phase = "linked"
<1>1. /\ at = "linked" /\ l \in todo /\ todo' = todo \ {l}
      /\ UNCHANGED <<adi, locals, metas>>
  BY DEF Linked, Request, Take
<1>2. QED BY <1>1 DEF Loops

(* A record the sync takes for unchanged is as it was last synchronized.   *)
LEMMA UnchangedMayWrite ==
    ASSUME TypeInv, Kept, NEW l \in LocalIds, IsLinked(metas[l]), Present(l),
           metas[l].status # "conflict", ~LocalChanged(l)
    PROVE  MayWrite(l)
<1>1. metas[l] \in Row /\ metas[l].status \in Status
  BY DEF TypeInv, IsLinked, Row
<1>2. Based(metas[l])
  BY DEF Kept, BasedRows
<1>3. metas[l].status \notin {"pending_delete", "conflict"}
  BY DEF Present
<1>4. metas[l].base # None
  BY <1>2, <1>3 DEF Based, LocalChanged
<1>5. QED BY <1>3, <1>4 DEF LocalChanged, MayWrite, Tomb

LEMMA BufferedIds ==
    ASSUME NEW b, NEW e, buffer' = b,
           \/ b = [buffer EXCEPT !.upserts = @ \cup {e}]
           \/ b = [buffer EXCEPT !.deletes = @ \cup {e}]
           \/ b = [buffer EXCEPT !.statuses = @ \cup {e}],
           buffer \in Buffers
    PROVE  /\ buffer'.phase = buffer.phase
           /\ Upserted' \subseteq Upserted \cup {e.id}
           /\ Deleted' \subseteq Deleted \cup {e.id}
           /\ b = [buffer EXCEPT !.statuses = @ \cup {e}] =>
                 Upserted' = Upserted /\ Deleted' = Deleted
BY DEF Upserted, Deleted, Buffers

LEMMA LinkedWriteKeeps ==
    ASSUME TypeInv, Loops, Kept, NEW l \in LocalIds, Linked(l), meta' = meta,
           NEW b, NEW e, Buffer(b), e.id = l,
           \/ b = [buffer EXCEPT !.upserts = @ \cup {e}]
           \/ b = [buffer EXCEPT !.deletes = @ \cup {e}],
           MayWrite(l)
    PROVE  Kept'
<1>1. /\ at = "linked" /\ l \in todo /\ todo' = todo \ {l}
      /\ UNCHANGED <<adi, locals, metas>>
  BY TakenLinked
<1>2. RowsStay
  BY SameSteady DEF RowsStay
<1>3. /\ buffer'.phase = buffer.phase
      /\ Upserted' \subseteq Upserted \cup {l}
      /\ Deleted' \subseteq Deleted \cup {l}
  BY BufferedIds DEF Buffer, TypeInv
<1>4. at' \in {"linked", "flush"}
  BY <1>1 DEF Buffer
<1>5. QED BY <1>1, <1>2, <1>3, <1>4, LinkedItemKeeps

(* The row goes or gets a status, and nothing is buffered.                 *)
LEMMA LinkedRowKeeps ==
    ASSUME TypeInv, Loops, Kept, RowsStay, NEW l \in LocalIds,
           Linked(l) \/ Request(l), buffer' = buffer,
           at' \in {"linked", "answered"},
           (at' = "answered" /\ item'.kind = "deleted") =>
               Tomb(metas[item'.id])
    PROVE  Kept'
<1>1. /\ at = "linked" /\ l \in todo /\ todo' = todo \ {l}
      /\ UNCHANGED <<adi, locals, metas>>
  BY TakenLinked
<1>2. Upserted' = Upserted /\ Deleted' = Deleted
  BY DEF Upserted, Deleted
<1>3. QED BY <1>1, <1>2, LinkedItemKeeps

LEMMA StatusOfLinked ==
    ASSUME TypeInv, Loops, NEW l \in LocalIds, l \in todo, at = "linked",
           \/ \E reason \in Reason : Conflict(l, reason)
           \/ meta' = [meta EXCEPT ![l] =
                          SetError(meta[l], metas[l].wid, Scanning)]
    PROVE  RowsSteady
<1>1. /\ meta[l] \in Row \cup {None} /\ metas[l].wid \in WavelogIds
  BY DEF TypeInv, Loops, IsLinked, Row
<1>2. CASE meta' = [meta EXCEPT ![l] =
                       SetError(meta[l], metas[l].wid, Scanning)]
  <2> DEFINE new == SetError(meta[l], metas[l].wid, Scanning)
  <2>1. Steady(new, meta[l])
    BY <1>1, ScanningType, SetErrorSteady
  <2> HIDE DEF new
  <2>2. meta' = [meta EXCEPT ![l] = new]
    BY <1>2 DEF new
  <2>3. QED BY <2>1, <2>2, OneRowSteady
<1>3. ASSUME NEW reason \in Reason, Conflict(l, reason)
      PROVE  RowsSteady
  <2> DEFINE new == SetConflict(meta[l], metas[l].wid, reason, Scanning)
  <2>1. Steady(new, meta[l])
    BY <1>1, ScanningType, SetConflictSteady
  <2> HIDE DEF new
  <2>2. meta' = [meta EXCEPT ![l] = new]
    BY <1>3 DEF new, Conflict
  <2>3. QED BY <2>1, <2>2, OneRowSteady
<1>4. QED BY <1>2, <1>3

(* A record that was not scanned, or whose deletion waits, is not in the   *)
(* log.                                                                    *)
LEMMA NotInLog ==
    ASSUME Kept, NEW l \in LocalIds, l \in todo, LinkedLoop,
           locals[l] = None \/ Tomb(metas[l])
    PROVE  adi[l] = None
BY DEF Kept, Scanned, AsScanned, Tombs

LEMMA LinkedKeeps ==
    ASSUME TypeInv, Loops, Kept, NEW l \in LocalIds,
           \/ LinkedDeletedBoth(l) \/ LinkedVanished(l) \/ LinkedConflict(l)
           \/ LinkedRemoteDeleted(l) \/ LinkedBothChanged(l)
           \/ LinkedRemoteChanged(l) \/ LinkedUnchanged(l)
    PROVE  Kept'
<1>1. Linked(l)
  BY DEF LinkedDeletedBoth, LinkedVanished, LinkedConflict,
         LinkedRemoteDeleted, LinkedBothChanged, LinkedRemoteChanged,
         LinkedUnchanged
<1>2. /\ at = "linked" /\ l \in todo /\ todo' = todo \ {l}
      /\ UNCHANGED <<adi, locals, metas>>
      /\ IsLinked(metas[l]) /\ buffer.phase = "linked"
  BY <1>1, TakenLinked
<1>3. LinkedLoop
  BY <1>2 DEF LinkedLoop
<1>4. ASSUME meta' = [meta EXCEPT ![l] = None], UNCHANGED <<at, buffer>>,
             locals[l] = None \/ Tomb(metas[l])
      PROVE  Kept'
  <2>1. adi[l] = None
    BY <1>2, <1>3, <1>4, NotInLog
  <2>2. RowsStay
    BY <1>2, <1>4, <2>1, SameSteady DEF RowsStay, TypeInv
  <2>3. QED BY <1>1, <1>2, <1>4, <2>2, LinkedRowKeeps
<1>5. ASSUME RowsSteady, UNCHANGED <<at, buffer>>
      PROVE  Kept'
  BY <1>1, <1>2, <1>5, LinkedRowKeeps DEF RowsStay, RowsSteady
<1>6. CASE LinkedDeletedBoth(l)
  BY <1>2, <1>4, <1>6 DEF LinkedDeletedBoth, Tomb
<1>7. CASE LinkedVanished(l)
  <2>1. CASE view[metas[l].wid] = None
    BY <1>4, <1>7, <2>1 DEF LinkedVanished
  <2>2. CASE view[metas[l].wid] # None
    <3> DEFINE e == [id |-> l, content |-> view[metas[l].wid],
                     wid |-> metas[l].wid, checked |-> FALSE]
               b == [buffer EXCEPT !.upserts = @ \cup {e}]
    <3>1. Buffer(b) /\ meta' = meta
      BY <1>7, <2>2 DEF LinkedVanished
    <3>2. MayWrite(l)
      BY <1>2, <1>7 DEF LinkedVanished, MayWrite, Tomb
    <3>3. e.id = l
      OBVIOUS
    <3> HIDE DEF e
    <3>4. QED BY <1>1, <3>1, <3>2, <3>3, LinkedWriteKeeps
  <2>3. QED BY <2>1, <2>2
<1>8. CASE LinkedConflict(l)
  BY <1>5, <1>8, SameRowsSteady DEF LinkedConflict
<1>9. ASSUME NEW reason \in Reason, Conflict(l, reason)
      PROVE  Kept'
  <2>1. RowsSteady
    BY <1>2, <1>9, StatusOfLinked
  <2>2. QED BY <1>5, <1>9, <2>1 DEF Conflict
<1>10. "remote_deleted" \in Reason /\ "both_changed" \in Reason
         /\ "local_changed_during_sync" \in Reason
  BY DEF Reason
<1>11. CASE LinkedRemoteDeleted(l)
  <2>1. CASE \E reason \in Reason : Conflict(l, reason)
    BY <1>9, <2>1
  <2>2. CASE ~\E reason \in Reason : Conflict(l, reason)
    <3> DEFINE e == [id |-> l, wid |-> metas[l].wid]
               b == [buffer EXCEPT !.deletes = @ \cup {e}]
    <3>1. Buffer(b) /\ meta' = meta /\ ~LocalChanged(l)
      BY <1>10, <1>11, <2>2 DEF LinkedRemoteDeleted
    <3>2. MayWrite(l)
      BY <1>2, <1>11, <3>1, UnchangedMayWrite DEF LinkedRemoteDeleted
    <3>3. e.id = l
      OBVIOUS
    <3> HIDE DEF e
    <3>4. QED BY <1>1, <3>1, <3>2, <3>3, LinkedWriteKeeps
  <2>3. QED BY <2>1, <2>2
<1>12. CASE LinkedBothChanged(l)
  BY <1>9, <1>10, <1>12 DEF LinkedBothChanged
<1>13. CASE LinkedRemoteChanged(l)
  <2>1. CASE \E reason \in Reason : Conflict(l, reason)
    BY <1>9, <2>1
  <2>2. CASE ~\E reason \in Reason : Conflict(l, reason)
    <3> DEFINE e == [id |-> l, content |-> view[metas[l].wid],
                     wid |-> metas[l].wid, checked |-> TRUE]
               b == [buffer EXCEPT !.upserts = @ \cup {e}]
    <3>1. Buffer(b) /\ meta' = meta /\ ~LocalChanged(l) /\ Comparable(l)
      BY <1>10, <1>13, <2>2 DEF LinkedRemoteChanged
    <3>2. MayWrite(l)
      BY <1>2, <3>1, UnchangedMayWrite DEF Comparable
    <3>3. e.id = l
      OBVIOUS
    <3> HIDE DEF e
    <3>4. QED BY <1>1, <3>1, <3>2, <3>3, LinkedWriteKeeps
  <2>3. QED BY <2>1, <2>2
<1>14. CASE LinkedUnchanged(l)
  <2> DEFINE e == [id |-> l, wid |-> metas[l].wid, base |-> locals[l],
                   remoteBase |-> view[metas[l].wid]]
             b == [buffer EXCEPT !.statuses = @ \cup {e}]
  <2>1. Buffer(b) /\ meta' = meta
    BY <1>14 DEF LinkedUnchanged
  <2>2. /\ buffer'.phase = buffer.phase
        /\ Upserted' = Upserted /\ Deleted' = Deleted
    BY <2>1, BufferedIds DEF Buffer, TypeInv
  <2>3. at' \in {"linked", "flush"}
    BY <1>2, <2>1 DEF Buffer
  <2>4. RowsStay
    BY <2>1, SameSteady DEF RowsStay
  <2>5. QED BY <1>2, <2>2, <2>3, <2>4, LinkedItemKeeps
<1>15. QED
  BY <1>6, <1>7, <1>8, <1>11, <1>12, <1>13, <1>14

LEMMA RequestKeeps ==
    ASSUME TypeInv, Loops, Kept, NEW l \in LocalIds,
           RemoteDeleted(l) \/ RemotePatched(l) \/ RequestFailed(l)
    PROVE  Kept'
<1>1. Request(l) /\ buffer' = buffer
  BY DEF RemoteDeleted, RemotePatched, RequestFailed, Request
<1>2. /\ at = "linked" /\ l \in todo /\ IsLinked(metas[l])
  BY <1>1, TakenLinked
<1>3. CASE RemoteDeleted(l)
  <2>1. /\ meta' = meta /\ at' = "answered" /\ item'.id = l
        /\ metas[l].status = "pending_delete"
    BY <1>3 DEF RemoteDeleted, ToDelete
  <2>2. RowsStay
    BY <2>1, SameSteady DEF RowsStay
  <2>3. QED BY <1>1, <1>2, <2>1, <2>2, LinkedRowKeeps DEF Tomb
<1>4. CASE RemotePatched(l)
  <2>1. /\ meta' = meta /\ at' = "answered" /\ item'.kind = "patched"
    BY <1>4 DEF RemotePatched
  <2>2. RowsStay
    BY <2>1, SameSteady DEF RowsStay
  <2>3. QED BY <1>1, <2>1, <2>2, LinkedRowKeeps
<1>5. CASE RequestFailed(l)
  <2>1. /\ meta' = [meta EXCEPT ![l] =
                       SetError(meta[l], metas[l].wid, Scanning)]
        /\ at' = at
    BY <1>5 DEF RequestFailed
  <2>2. RowsSteady
    BY <1>2, <2>1, StatusOfLinked
  <2>3. QED BY <1>1, <1>2, <2>1, <2>2, LinkedRowKeeps DEF RowsStay, RowsSteady
<1>6. QED BY <1>3, <1>4, <1>5

(* An answer to a request ends a row, or makes it synced.                  *)
LEMMA AnsweredSteady ==
    ASSUME TypeInv, Loops, Orderly, Answered
    PROVE  \A l \in LocalIds :
               \/ Steady(meta'[l], meta[l])
               \/ meta'[l] = None /\ l = item.id /\ item.kind = "deleted"
<1>1. item \in Answer /\ item # None
  BY DEF Answered, Loops, TypeInv
<1>2. item.id \in LocalIds /\ meta[item.id] \in Row \cup {None}
  BY <1>1 DEF Answer, TypeInv
<1>3. CASE item.kind = "deleted"
  BY <1>3, SameSteady DEF Answered, TypeInv
<1>4. CASE item.kind # "deleted"
  <2> DEFINE new == SetSynced(meta[item.id], item.wid, item.base,
                              item.remoteBase, Scanning)
  <2>1. meta' = [meta EXCEPT ![item.id] = new]
    BY <1>4 DEF Answered
  <2>2. /\ item.wid \in WavelogIds
        /\ item.base \in Content /\ item.remoteBase \in BaseColumn
    BY <1>1, <1>4 DEF Answer, Orderly, BaseColumn
  <2>3. Steady(new, meta[item.id])
    BY <1>2, <2>2, ScanningType, SetSyncedSteady
  <2> HIDE DEF new
  <2>4. RowsSteady
    BY <1>2, <2>1, <2>3, OneRowSteady
  <2>5. QED BY <2>4 DEF RowsSteady
<1>5. QED BY <1>3, <1>4

(* The answer to a deletion: the row goes whose record has gone.           *)
LEMMA AnsweredRows ==
    ASSUME TypeInv, Loops, Alone, Kept, Answered
    PROVE  RowsStay
<1>1. /\ item \in Answer /\ item # None /\ at = "answered" /\ adi' = adi
      /\ LinkedLoop
  BY DEF Answered, Loops, TypeInv, LinkedLoop
<1>2. item.id \in LocalIds
  BY <1>1 DEF Answer
<1>3. item.kind = "deleted" => adi[item.id] = None
  BY <1>1, <1>2 DEF Kept, Scanned, AsScanned, Tombs
<1>4. QED BY <1>1, <1>3, AnsweredSteady DEF RowsStay, Alone

(* Steps within a loop that take writes back or drop their records.        *)
LEMMA LoopKeeps ==
    ASSUME TypeInv, Loops, Kept, RowsStay,
           LinkedLoop <=> LinkedLoop', UnlinkedLoop <=> UnlinkedLoop',
           at' \notin {"commit", "reconcile", "snapshot", "fetch", "list",
                       "rescan", "relist"},
           LinkedLoop \/ UnlinkedLoop,
           UNCHANGED <<todo, locals, metas>>,
           Upserted' \subseteq Upserted, Deleted' \subseteq Deleted,
           at = "commit" => Upserted' = {},
           \A l \in LocalIds : Writing(l) => IsLinked(meta'[l]),
           \A l \in LocalIds : adi'[l] \in {adi[l], None},
           at' = "forget" => \A l \in Deleted' : adi'[l] = None,
           at' \in {"check", "stage", "write", "baselines"} => Deleted' = {},
           at' = "baselines" => Upserted' = {},
           at' # "answered"
    PROVE  Kept'
<1>1. BasedRows' /\ Tombs'
  BY RowsFrame DEF Kept, ReadRowsKept, RowsStay
<1>2. \A l \in LocalIds : ~Writing(l)'
  BY DEF Writing
<1>3. Early'
  BY DEF Early
<1>4. Buffered'
  <2>1. UnlinkedLoop => Deleted = {}
    BY DEF Kept, Scanned, Buffered, Deleted
  <2>2. (Deleted' = {} => buffer'.deletes = {})
          /\ (Upserted' = {} => buffer'.upserts = {})
    <3>1. /\ \A d \in buffer'.deletes : d.id \in Deleted'
          /\ \A u \in buffer'.upserts : u.id \in Upserted'
      BY DEF Deleted, Upserted
    <3>2. QED BY <3>1
  <2>3. QED BY <2>1, <2>2 DEF Buffered
<1>5. KnownTombs'
  <2> SUFFICES ASSUME NEW l \in LocalIds, Tomb(meta'[l])
               PROVE  Tomb(metas[l])
    BY DEF KnownTombs, Tomb, IsLinked
  <2>1. Tomb(meta[l])
    BY DEF RowsStay, Steady, Tomb, IsLinked
  <2>2. QED BY <2>1 DEF Kept, Scanned, KnownTombs
<1>6. Forgotten'
  <2> SUFFICES ASSUME LinkedLoop, NEW l \in LocalIds, IsLinked(metas[l]),
                      ~IsLinked(meta'[l])
               PROVE  adi'[l] = None
    BY DEF Forgotten, IsLinked
  <2>1. (~IsLinked(meta[l]) /\ ~Writing(l)) \/ adi'[l] = None
    BY DEF RowsStay, Steady
  <2>2. QED BY <2>1 DEF Kept, Scanned, Forgotten
<1>7. NeverLinked'
  BY DEF Kept, Scanned, NeverLinked, IsLinked
<1>8. AsScanned'
  <2> SUFFICES ASSUME LinkedLoop PROVE AsScanned'
    BY DEF AsScanned
  <2>1. \A l \in todo \cup Upserted \cup Deleted : l \in LocalIds
    BY DEF Loops, LinkedLoop, Upserted, Deleted, TypeInv, Buffers, Upsert, Delete
  <2>2. \A l \in todo \cup Upserted' \cup Deleted' : adi'[l] \in {None, locals[l]}
    BY <2>1 DEF Kept, Scanned, AsScanned
  <2>3. QED BY <2>1, <2>2 DEF Kept, Scanned, AsScanned, Tomb, IsLinked
<1>9. QED
  BY <1>1, <1>3, <1>4, <1>5, <1>6, <1>7, <1>8 DEF Kept, Scanned

(* Rows the flush marks or links.                                          *)
LEMMA FlushedSteady ==
    ASSUME TypeInv, NEW l \in LocalIds,
           \/ meta'[l] = meta[l]
           \/ \E wid \in WavelogIds :
                 \/ \E base, web \in Content :
                       meta'[l] = SetSynced(meta[l], wid, base, web, Scanning)
                 \/ \E reason \in Reason :
                       meta'[l] = SetConflict(meta[l], wid, reason, Scanning)
                 \/ meta'[l] = SetError(meta[l], wid, Scanning)
    PROVE  Steady(meta'[l], meta[l]) /\ (meta'[l] = meta[l] \/ IsLinked(meta'[l]))
<1>1. meta[l] \in Row \cup {None}
  BY DEF TypeInv
<1>2. CASE meta'[l] = meta[l]
  BY <1>2, SameSteady
<1>3. ASSUME NEW wid \in WavelogIds, NEW base \in Content, NEW web \in Content,
             meta'[l] = SetSynced(meta[l], wid, base, web, Scanning)
      PROVE  Steady(meta'[l], meta[l]) /\ IsLinked(meta'[l])
  BY <1>1, <1>3, ScanningType, SetSyncedSteady, NoneAssumption DEF BaseColumn
<1>4. ASSUME NEW wid \in WavelogIds, NEW reason \in Reason,
             meta'[l] = SetConflict(meta[l], wid, reason, Scanning)
      PROVE  Steady(meta'[l], meta[l]) /\ IsLinked(meta'[l])
  BY <1>1, <1>4, ScanningType, SetConflictSteady, NoneAssumption
<1>5. ASSUME NEW wid \in WavelogIds,
             meta'[l] = SetError(meta[l], wid, Scanning)
      PROVE  Steady(meta'[l], meta[l]) /\ IsLinked(meta'[l])
  BY <1>1, <1>5, ScanningType, SetErrorSteady, NoneAssumption
<1>6. QED BY <1>2, <1>3, <1>4, <1>5

LEMMA FlushedSteadyRows ==
    ASSUME TypeInv,
           \/ DropFailed \/ FilterDeletes \/ FilterUpserts
           \/ WriteFailed /\ buffer.phase = "linked"
           \/ CommitRows \/ CommitBaselines
    PROVE  \A l \in LocalIds :
               /\ Steady(meta'[l], meta[l])
               /\ meta'[l] = meta[l] \/ IsLinked(meta'[l])
<1>0. /\ \A e \in buffer.upserts \cup buffer.deletes \cup buffer.statuses :
            e.wid \in WavelogIds
      /\ \A u \in buffer.upserts : u.content \in Content
      /\ \A b \in buffer.statuses : b.base \in Content /\ b.remoteBase \in Content
  BY DEF TypeInv, Buffers, Upsert, Delete, Baseline
<1> SUFFICES ASSUME NEW l \in LocalIds
             PROVE  /\ Steady(meta'[l], meta[l])
                    /\ meta'[l] = meta[l] \/ IsLinked(meta'[l])
  OBVIOUS
<1>1. ASSUME NEW entries, entries \subseteq buffer.upserts \cup buffer.deletes,
             meta' = WithConflicts(entries) \/ MarkErrors(entries)
      PROVE  /\ Steady(meta'[l], meta[l])
             /\ meta'[l] = meta[l] \/ IsLinked(meta'[l])
  <2> DEFINE changed == {e \in entries : e.id = l /\ ChangedDuringSync(l)}
             mine == {e \in entries : e.id = l}
  <2>1. "local_changed_during_sync" \in Reason
    BY DEF Reason
  <2>2. CASE meta' = WithConflicts(entries) /\ changed # {}
    <3> DEFINE e == CHOOSE e \in changed : TRUE
    <3>1. /\ e \in changed
          /\ meta'[l] = SetConflict(meta[l], e.wid,
                                    "local_changed_during_sync", Scanning)
      BY <2>2, ChosenIn DEF WithConflicts
    <3> HIDE DEF e
    <3>2. e.wid \in WavelogIds
      BY <1>0, <1>1, <3>1
    <3>3. QED BY <2>1, <3>1, <3>2, FlushedSteady
  <2>3. CASE MarkErrors(entries) /\ mine # {}
    <3> DEFINE e == CHOOSE e \in mine : TRUE
    <3>1. /\ e \in mine
          /\ meta'[l] = SetError(meta[l], e.wid, Scanning)
      BY <2>3, ChosenIn DEF MarkErrors
    <3> HIDE DEF e
    <3>2. e.wid \in WavelogIds
      BY <1>0, <1>1, <3>1
    <3>3. QED BY <3>1, <3>2, FlushedSteady
  <2>4. CASE \/ meta' = WithConflicts(entries) /\ changed = {}
             \/ MarkErrors(entries) /\ mine = {}
    <3>1. meta'[l] = meta[l]
      BY <2>4 DEF WithConflicts, MarkErrors
    <3>2. QED BY <3>1, FlushedSteady
  <2>5. QED BY <1>1, <2>2, <2>3, <2>4
<1>2. CASE DropFailed \/ FilterDeletes
  BY <1>1, <1>2 DEF DropFailed, FilterDeletes
<1>3. CASE FilterUpserts
  <2> DEFINE watched == {u \in buffer.upserts : u.checked}
  <2>1. meta' = WithConflicts(watched)
    BY <1>3 DEF FilterUpserts
  <2>2. watched \subseteq buffer.upserts \cup buffer.deletes
    OBVIOUS
  <2> HIDE DEF watched
  <2>3. QED BY <1>1, <2>1, <2>2
<1>4. CASE WriteFailed /\ buffer.phase = "linked"
  BY <1>1, <1>4 DEF WriteFailed
<1>5. CASE CommitRows
  <2> DEFINE mine == {u \in buffer.upserts : u.id = l}
  <2>1. CASE mine = {}
    <3>1. meta'[l] = meta[l]
      BY <1>5, <2>1 DEF CommitRows
    <3>2. QED BY <3>1, FlushedSteady
  <2>2. CASE mine # {}
    <3> DEFINE u == CHOOSE u \in mine : TRUE
    <3>1. /\ u \in mine
          /\ meta'[l] = SetSynced(meta[l], u.wid, u.content, u.content, Scanning)
      BY <1>5, <2>2, ChosenIn DEF CommitRows
    <3> HIDE DEF u
    <3>2. u.wid \in WavelogIds /\ u.content \in Content
      BY <1>0, <3>1
    <3>3. QED BY <3>1, <3>2, FlushedSteady
  <2>3. QED BY <2>1, <2>2
<1>6. CASE CommitBaselines
  <2> DEFINE mine == {b \in buffer.statuses : b.id = l /\
                        (versions[l] # None => ~ChangedDuringSync(l))}
  <2>1. CASE mine = {}
    <3>1. meta'[l] = meta[l]
      BY <1>6, <2>1 DEF CommitBaselines
    <3>2. QED BY <3>1, FlushedSteady
  <2>2. CASE mine # {}
    <3> DEFINE b == CHOOSE b \in mine : TRUE
    <3>1. /\ b \in mine
          /\ meta'[l] = SetSynced(meta[l], b.wid, b.base, b.remoteBase, Scanning)
      BY <1>6, <2>2, ChosenIn DEF CommitBaselines
    <3> HIDE DEF b
    <3>2. b.wid \in WavelogIds /\ b.base \in Content /\ b.remoteBase \in Content
      BY <1>0, <3>1
    <3>3. QED BY <3>1, <3>2, FlushedSteady
  <2>3. QED BY <2>1, <2>2
<1>7. QED BY <1>2, <1>3, <1>4, <1>5, <1>6

(* The steps of the flush but the writing of records.                      *)
LEMMA FlushKeeps ==
    ASSUME TypeInv, Loops, Kept,
           \/ FilterDeletes \/ DropRecords \/ DropFailed \/ ForgetRows
           \/ FilterUpserts \/ Stage \/ CommitRows
           \/ WriteFailed /\ buffer.phase = "linked"
    PROVE  Kept'
<1>1. /\ at \in FlushPlaces /\ at' \in FlushPlaces /\ at' # "commit"
      /\ UNCHANGED <<todo, locals, metas>>
      /\ buffer'.phase = buffer.phase
      /\ buffer'.upserts \subseteq buffer.upserts
      /\ buffer'.deletes \subseteq buffer.deletes
  <2>1. buffer \in Buffers
    BY DEF TypeInv
  <2>2. QED
    BY <2>1 DEF FilterDeletes, DropRecords, DropFailed, ForgetRows,
           FilterUpserts, Stage, CommitRows, WriteFailed, Flush, Goto, reads,
           Buffers, FlushPlaces
<1>2. /\ LinkedLoop <=> LinkedLoop'
      /\ UnlinkedLoop <=> UnlinkedLoop'
      /\ LinkedLoop \/ UnlinkedLoop
      /\ at' \notin {"commit", "reconcile", "snapshot", "fetch", "list",
                     "rescan", "relist", "answered"}
  <2>1. buffer.phase \in {"linked", "unlinked"}
    BY DEF TypeInv, Buffers
  <2>2. /\ at \notin {"linked", "answered", "unlinked"}
        /\ at' \notin {"linked", "answered", "unlinked"}
        /\ at' \notin {"reconcile", "snapshot", "fetch", "list", "rescan",
                       "relist"}
    BY <1>1 DEF FlushPlaces
  <2>3. QED BY <1>1, <2>1, <2>2 DEF LinkedLoop, UnlinkedLoop
<1>3. Upserted' \subseteq Upserted /\ Deleted' \subseteq Deleted
  BY <1>1 DEF Upserted, Deleted
<1>4. \A l \in LocalIds : adi'[l] \in {adi[l], None}
  BY DEF FilterDeletes, DropRecords, DropFailed, ForgetRows, FilterUpserts,
         Stage, CommitRows, WriteFailed
<1>5. RowsStay
  <2>1. CASE DropRecords \/ Stage
    <3>1. meta' = meta
      BY <2>1 DEF DropRecords, Stage
    <3>2. QED BY <3>1, SameSteady DEF RowsStay
  <2>2. CASE ForgetRows
    <3>1. at = "forget" /\ adi' = adi
      BY <2>2 DEF ForgetRows, Flush
    <3>2. \A l \in Deleted : adi[l] = None
      <4>1. CASE LinkedLoop
        BY <3>1, <4>1 DEF Kept, Scanned, AsScanned
      <4>2. CASE UnlinkedLoop
        BY <4>2 DEF Kept, Scanned, Buffered, Deleted
      <4>3. QED BY <1>2, <4>1, <4>2
    <3>3. \A l \in LocalIds :
             meta'[l] = meta[l] \/ (meta'[l] = None /\ l \in Deleted)
      BY <2>2 DEF ForgetRows, Deleted
    <3>4. QED BY <3>1, <3>2, <3>3, SameSteady DEF RowsStay
  <2>3. CASE ~(DropRecords \/ Stage \/ ForgetRows)
    BY <2>3, FlushedSteadyRows DEF RowsStay
  <2>4. QED BY <2>1, <2>2, <2>3
<1>6. at = "commit" => CommitRows
  BY DEF FilterDeletes, DropRecords, DropFailed, ForgetRows, FilterUpserts,
         Stage, WriteFailed, Flush
<1>7. CommitRows => buffer'.upserts = {}
  BY DEF CommitRows, TypeInv, Buffers
<1>8. at = "commit" => Upserted' = {}
  BY <1>6, <1>7 DEF Upserted
<1>9. \A l \in LocalIds : Writing(l) => IsLinked(meta'[l])
  <2> SUFFICES ASSUME NEW l \in LocalIds, Writing(l)
               PROVE  IsLinked(meta'[l])
    OBVIOUS
  <2> DEFINE mine == {u \in buffer.upserts : u.id = l}
             u == CHOOSE u \in mine : TRUE
  <2>1. mine # {} /\ CommitRows
    BY <1>6 DEF Writing
  <2>2. meta'[l] = SetSynced(meta[l], u.wid, u.content, u.content, Scanning)
    BY <2>1 DEF CommitRows
  <2>3. u \in mine
    BY <2>1, ChosenIn
  <2>4. u.wid \in WavelogIds /\ u.content \in Content
    BY <2>3 DEF TypeInv, Buffers, Upsert
  <2> HIDE DEF u
  <2>5. meta[l] \in Row \cup {None} /\ u.wid # None
    BY <2>4, NoneAssumption DEF TypeInv
  <2>6. QED BY <2>2, <2>4, <2>5, ScanningType, SetSyncedSteady DEF BaseColumn
<1>10. at' = "forget" => \A l \in Deleted' : adi'[l] = None
  <2>1. at' = "forget" => DropRecords
    BY DEF FilterDeletes, DropFailed, ForgetRows, FilterUpserts, Stage,
           CommitRows, WriteFailed, Flush, Goto
  <2>2. DropRecords => \A l \in Deleted' : adi'[l] = None
    BY DEF DropRecords, Deleted, TypeInv, Buffers, Delete
  <2>3. QED BY <2>1, <2>2
<1>11. at' \in {"check", "stage", "write", "baselines"} => Deleted' = {}
  <2> SUFFICES ASSUME at' \in {"check", "stage", "write", "baselines"}
               PROVE  buffer'.deletes = {}
    BY DEF Deleted
  <2>1. CASE FilterDeletes
    BY <2>1 DEF FilterDeletes, Flush, Goto, TypeInv, Buffers
  <2>2. CASE DropRecords
    BY <2>2 DEF DropRecords, Flush, Goto
  <2>3. CASE DropFailed \/ ForgetRows
    BY <2>3 DEF DropFailed, ForgetRows, TypeInv, Buffers
  <2>4. CASE \/ FilterUpserts \/ Stage \/ CommitRows
             \/ WriteFailed /\ buffer.phase = "linked"
    <3>1. at \in {"check", "stage", "write", "commit"}
      BY <2>4 DEF FilterUpserts, Stage, CommitRows, WriteFailed, Flush
    <3>2. buffer.deletes = {}
      BY <3>1 DEF Kept, Scanned, Buffered
    <3>3. QED BY <1>1, <3>2
  <2>5. QED BY <2>1, <2>2, <2>3, <2>4
<1>12. at' = "baselines" => Upserted' = {}
  <2> SUFFICES ASSUME at' = "baselines" PROVE buffer'.upserts = {}
    BY DEF Upserted
  <2>1. \/ FilterUpserts
        \/ CommitRows
        \/ WriteFailed /\ buffer.phase = "linked"
    BY DEF FilterDeletes, DropRecords, DropFailed, ForgetRows, Stage, Flush,
           Goto
  <2>2. QED
    BY <2>1 DEF FilterUpserts, CommitRows, WriteFailed, Flush, Goto, TypeInv,
                Buffers
<1>13. QED
  BY <1>1, <1>2, <1>3, <1>4, <1>5, <1>8, <1>9, <1>10, <1>11, <1>12, LoopKeeps

(* Then the loop goes on, or the next part of the sync begins.             *)
LEMMA BaselinesKeep ==
    ASSUME TypeInv, Loops, Kept, CommitBaselines
    PROVE  Kept'
<1>1. /\ at = "baselines" /\ UNCHANGED <<adi, todo, locals, metas>>
      /\ buffer'.phase = buffer.phase
      /\ buffer'.upserts = buffer.upserts /\ buffer'.deletes = buffer.deletes
      /\ buffer.phase \in {"linked", "unlinked"}
  BY DEF CommitBaselines, Flush, reads, TypeInv, Buffers
<1>2. buffer.upserts = {} /\ buffer.deletes = {}
  BY <1>1 DEF Kept, Scanned, Buffered
<1>3. at' \in {buffer.phase, "rescan", "lastscan"}
        /\ (at' = "rescan" => buffer.phase = "linked")
  BY <1>1 DEF CommitBaselines, Flush, Goto
<1>4. RowsStay
  BY FlushedSteadyRows DEF RowsStay
<1>5. Upserted' = {} /\ Deleted' = {}
  BY <1>1, <1>2 DEF Upserted, Deleted
<1>6. CASE at' = buffer.phase
  <2>1. /\ LinkedLoop <=> buffer.phase = "linked"
        /\ LinkedLoop' <=> buffer.phase = "linked"
        /\ UnlinkedLoop <=> buffer.phase = "unlinked"
        /\ UnlinkedLoop' <=> buffer.phase = "unlinked"
    BY <1>1, <1>6 DEF LinkedLoop, UnlinkedLoop, FlushPlaces
  <2>2. \A l \in LocalIds : ~Writing(l)
    BY <1>1 DEF Writing
  <2>3. at' \in {"linked", "unlinked"}
    BY <1>1, <1>6
  <2>4. QED BY <1>1, <1>4, <1>5, <2>1, <2>2, <2>3, LoopKeeps
<1>7. BasedRows' /\ Tombs'
  BY <1>1, <1>4, RowsFrame DEF Kept, ReadRowsKept, RowsStay
<1>8. CASE at' = "lastscan"
  <2>1. Scanned'
    BY <1>1, <1>2, <1>8, OutsideFrame DEF Busy, FlushPlaces
  <2>2. QED BY <1>7, <2>1 DEF Kept
<1>9. CASE at' = "rescan"
  <2>1. ~LinkedLoop' /\ ~UnlinkedLoop' /\ LinkedLoop
    BY <1>1, <1>3, <1>9 DEF LinkedLoop, UnlinkedLoop, FlushPlaces
  <2>2. Buffered' /\ Early' /\ AsScanned' /\ NeverLinked'
    BY <1>1, <1>2, <1>9, <2>1 DEF Buffered, Early, AsScanned, NeverLinked
  <2>3. KnownTombs'
    <3> SUFFICES ASSUME NEW l \in LocalIds, Tomb(meta'[l])
                 PROVE  Tomb(metas[l])
      BY <1>1 DEF KnownTombs, Tomb, IsLinked
    <3>1. Tomb(meta[l])
      BY <1>4 DEF RowsStay, Steady, Tomb, IsLinked
    <3>2. QED BY <2>1, <3>1 DEF Kept, Scanned, KnownTombs
  <2>4. Forgotten'
    <3> SUFFICES ASSUME NEW l \in LocalIds, IsLinked(metas[l]),
                        ~IsLinked(meta'[l])
                 PROVE  adi[l] = None
      BY <1>1, <1>9 DEF Forgotten, IsLinked
    <3>1. (~IsLinked(meta[l]) /\ ~Writing(l)) \/ adi[l] = None
      BY <1>1, <1>4 DEF RowsStay, Steady, Writing
    <3>2. QED BY <2>1, <3>1 DEF Kept, Scanned, Forgotten
  <2>5. QED BY <1>7, <2>2, <2>3, <2>4 DEF Kept, Scanned
<1>10. QED BY <1>3, <1>6, <1>8, <1>9

(* The records are written that may be.                                    *)
LEMMA WriteRecordsKeeps ==
    ASSUME TypeInv, Loops, Kept, WriteRecords
    PROVE  Kept'
<1>1. /\ at = "write" /\ at' = "commit"
      /\ UNCHANGED <<meta, todo, locals, metas, buffer, item>>
  BY DEF WriteRecords, Flush, Goto, reads
<1>2. \A l \in LocalIds : l \notin Upserted => adi'[l] = adi[l]
  BY DEF WriteRecords, Upserted
<1>3. /\ LinkedLoop <=> LinkedLoop'
      /\ UnlinkedLoop <=> UnlinkedLoop'
      /\ LinkedLoop \/ UnlinkedLoop
      /\ Upserted' = Upserted /\ Deleted' = Deleted
      /\ buffer.deletes = {} /\ Deleted = {}
  BY <1>1 DEF LinkedLoop, UnlinkedLoop, Upserted, Deleted, FlushPlaces, TypeInv,
              Buffers, Kept, Scanned, Buffered
<1>4. ASSUME NEW l \in LocalIds, l \in Upserted
      PROVE  ~Tomb(meta[l]) /\ ~Tomb(metas[l])
  <2>1. ~Tomb(metas[l])
    <3>1. CASE LinkedLoop
      BY <1>4, <3>1 DEF Kept, Scanned, AsScanned
    <3>2. CASE UnlinkedLoop
      BY <1>4, <3>2 DEF Kept, Scanned, NeverLinked, Tomb
    <3>3. QED BY <1>3, <3>1, <3>2
  <2>2. QED BY <1>3, <2>1 DEF Kept, Scanned, KnownTombs
<1>5. BasedRows'
  BY <1>1 DEF Kept, BasedRows, Based, IsLinked
<1>6. Tombs'
  <2>1. \A l \in LocalIds : Tomb(meta[l]) \/ Tomb(metas[l]) => adi'[l] = None
    BY <1>2, <1>4 DEF Kept, Tombs
  <2>2. QED BY <1>1, <2>1 DEF Tombs, Tomb, IsLinked
<1>7. Buffered' /\ Early' /\ NeverLinked'
  BY <1>1, <1>3 DEF Kept, Scanned, Buffered, Early, NeverLinked, IsLinked
<1>8. KnownTombs'
  BY <1>1, <1>3 DEF Kept, Scanned, KnownTombs, Tomb, IsLinked
<1>9. Forgotten'
  <2> SUFFICES ASSUME LinkedLoop, NEW l \in LocalIds, IsLinked(metas[l]),
                      ~IsLinked(meta[l]), ~Writing(l)'
               PROVE  adi'[l] = None
    BY <1>1, <1>3 DEF Forgotten, IsLinked
  <2>1. l \notin Upserted /\ ~Writing(l)
    BY <1>1 DEF Writing, Upserted
  <2>2. QED BY <1>2, <2>1 DEF Kept, Scanned, Forgotten
<1>10. AsScanned'
  <2> SUFFICES ASSUME LinkedLoop PROVE AsScanned'
    BY <1>3 DEF AsScanned
  <2>1. \A l \in todo : l \in LocalIds /\ l \notin Upserted
    BY DEF Loops, LinkedLoop, Kept, Scanned, AsScanned
  <2>2. \A l \in todo : adi'[l] \in {None, locals[l]}
    BY <1>2, <2>1 DEF Kept, Scanned, AsScanned
  <2>3. QED
    BY <1>1, <1>3, <2>2 DEF Kept, Scanned, AsScanned, Tomb, IsLinked
<1>11. QED
  BY <1>5, <1>6, <1>7, <1>8, <1>9, <1>10 DEF Kept, Scanned

(* An answer is recorded; a loop ends.                                     *)
LEMMA LoopEndKeeps ==
    ASSUME TypeInv, Loops, Alone, Kept,
           Answered \/ LinkedDone \/ UnlinkedDone
    PROVE  Kept'
<1>1. /\ at \in {"answered", "linked", "unlinked"}
      /\ at' \in {"linked", "flush"}
      /\ UNCHANGED <<adi, todo, locals, metas, buffer>>
      /\ at = "answered" => at' = "linked"
      /\ at # "answered" => at' = "flush" /\ meta' = meta
  BY DEF Answered, LinkedDone, UnlinkedDone, Goto, reads, profile
<1>2. buffer.phase = IF at = "unlinked" THEN "unlinked" ELSE "linked"
  BY <1>1 DEF Loops
<1>3. /\ LinkedLoop <=> LinkedLoop'
      /\ UnlinkedLoop <=> UnlinkedLoop'
      /\ LinkedLoop \/ UnlinkedLoop
      /\ Upserted' = Upserted /\ Deleted' = Deleted
  BY <1>1, <1>2 DEF LinkedLoop, UnlinkedLoop, Upserted, Deleted, FlushPlaces
<1>4. RowsStay
  <2>1. CASE Answered
    BY <2>1, AnsweredRows
  <2>2. CASE LinkedDone \/ UnlinkedDone
    <3>1. meta' = meta
      BY <2>2 DEF LinkedDone, UnlinkedDone, profile
    <3>2. QED BY <3>1, SameSteady DEF RowsStay
  <2>3. QED BY <2>1, <2>2
<1>5. \A l \in LocalIds : ~Writing(l)
  BY <1>1 DEF Writing
<1>6. QED BY <1>1, <1>3, <1>4, <1>5, LoopKeeps

-----------------------------------------------------------------------------
(* Proofs of the steps between the loops, and of the loop over the rest.   *)

LEMMA RescanKeeps ==
    ASSUME TypeInv, Loops, Kept, Scan("rescan", "relist")
    PROVE  Kept'
<1>1. /\ at = "rescan" /\ at' = "relist" /\ locals' = adi
      /\ UNCHANGED <<adi, meta, metas, buffer>>
  BY DEF Scan, Goto, profile
<1>2. ~LinkedLoop /\ ~UnlinkedLoop /\ ~LinkedLoop' /\ ~UnlinkedLoop'
  BY <1>1 DEF LinkedLoop, UnlinkedLoop, FlushPlaces
<1>3. Buffered' /\ Early' /\ AsScanned' /\ NeverLinked'
  BY <1>1, <1>2 DEF Kept, Scanned, Buffered, Early, AsScanned, NeverLinked
<1>4. KnownTombs'
  BY <1>1 DEF Kept, Scanned, KnownTombs, Tomb, IsLinked
<1>5. Forgotten'
  BY <1>1 DEF Kept, Scanned, Forgotten, IsLinked, Writing
<1>6. BasedRows' /\ Tombs'
  BY <1>1, SameSteady, RowsFrame DEF Kept, ReadRowsKept
<1>7. QED BY <1>3, <1>4, <1>5, <1>6 DEF Kept, Scanned

LEMMA RelistKeeps ==
    ASSUME TypeInv, Loops, Kept, ListUnlinked
    PROVE  Kept'
<1>1. /\ at = "relist" /\ at' = "unlinked"
      /\ locals' = [l \in LocalIds |->
                       IF IsLinked(meta[l]) THEN None ELSE locals[l]]
      /\ buffer' = [NoBuffer EXCEPT !.phase = "unlinked"]
      /\ UNCHANGED <<adi, meta, metas>>
  BY DEF ListUnlinked, Goto, profile
<1>2. buffer'.phase = "unlinked" /\ buffer'.upserts = {} /\ buffer'.deletes = {}
  BY <1>1 DEF NoBuffer
<1>3. ~LinkedLoop' /\ UnlinkedLoop' /\ Upserted' = {}
  BY <1>1, <1>2 DEF LinkedLoop, UnlinkedLoop, FlushPlaces, Upserted
<1>4. Buffered' /\ Early' /\ AsScanned' /\ Forgotten'
  BY <1>1, <1>2, <1>3 DEF Buffered, Early, AsScanned, Forgotten
<1>5. KnownTombs'
  BY <1>1 DEF Kept, Scanned, KnownTombs, Tomb, IsLinked
<1>6. NeverLinked'
  <2>1. ASSUME NEW l \in LocalIds, locals'[l] # None
        PROVE  ~IsLinked(metas[l])
    <3>1. ~IsLinked(meta[l]) /\ locals[l] # None
      BY <1>1, <2>1
    <3>2. ~Writing(l)
      BY <1>1 DEF Writing
    <3>3. QED BY <1>1, <3>1, <3>2 DEF Kept, Scanned, Forgotten
  <2>2. QED BY <1>1, <1>3, <2>1 DEF NeverLinked, IsLinked
<1>7. BasedRows' /\ Tombs'
  BY <1>1, SameSteady, RowsFrame DEF Kept, ReadRowsKept
<1>8. QED BY <1>4, <1>5, <1>6, <1>7 DEF Kept, Scanned

LEMMA UnlinkedItemKeeps ==
    ASSUME TypeInv, Loops, Kept, NEW w \in WavelogIds, UnlinkedItem(w)
    PROVE  Kept'
<1>1. /\ at = "unlinked" /\ UNCHANGED <<adi, meta, metas>>
      /\ buffer.phase = "unlinked"
  BY DEF UnlinkedItem, Unlinked, profile, Loops
<1>2. \/ UNCHANGED <<locals, at, buffer>>
      \/ \E l \in LocalIds :
            /\ Incoming(l, w)
            /\ locals[l] # None \/ metas[l] = None
            /\ \A k \in LocalIds : locals'[k] \in {locals[k], None}
  <2>1. CASE Link(w)
    BY <2>1 DEF Link, Matches, TypeInv
  <2>2. CASE Pull(w)
    BY <2>2 DEF Pull, FreshIds
  <2>3. QED BY <2>1, <2>2 DEF UnlinkedItem
<1>3. /\ at' \in {"unlinked", "flush"}
      /\ buffer'.phase = "unlinked" /\ buffer'.deletes = buffer.deletes
      /\ \A k \in LocalIds : locals'[k] \in {locals[k], None}
      /\ \A k \in LocalIds :
            k \in Upserted' => k \in Upserted \/ locals[k] # None \/ metas[k] = None
  <2>1. CASE UNCHANGED <<locals, at, buffer>>
    BY <1>1, <2>1 DEF Upserted
  <2>2. ASSUME NEW l \in LocalIds, Incoming(l, w),
               locals[l] # None \/ metas[l] = None,
               \A k \in LocalIds : locals'[k] \in {locals[k], None}
        PROVE  <1>3!:
    <3> DEFINE e == [id |-> l, content |-> view[w], wid |-> w,
                     checked |-> FALSE]
               b == [buffer EXCEPT !.upserts = @ \cup {e}]
    <3>1. Buffer(b) /\ e.id = l
      BY <2>2 DEF Incoming
    <3> HIDE DEF e
    <3>2. Upserted' \subseteq Upserted \cup {l}
      BY <3>1, BufferedIds DEF Buffer, TypeInv
    <3>3. buffer'.phase = buffer.phase /\ buffer'.deletes = buffer.deletes
      BY <3>1 DEF Buffer, TypeInv, Buffers
    <3>4. at' \in {"unlinked", "flush"}
      BY <1>1, <3>1 DEF Buffer
    <3>5. QED BY <1>1, <2>2, <3>2, <3>3, <3>4
  <2>3. QED BY <1>2, <2>1, <2>2
<1>4. UnlinkedLoop /\ UnlinkedLoop' /\ ~LinkedLoop'
  BY <1>1, <1>3 DEF LinkedLoop, UnlinkedLoop, FlushPlaces
<1>5. Buffered' /\ Early' /\ AsScanned' /\ Forgotten'
  BY <1>3, <1>4 DEF Kept, Scanned, Buffered, Early, AsScanned, Forgotten
<1>6. KnownTombs'
  BY <1>1, <1>4 DEF Kept, Scanned, KnownTombs, Tomb, IsLinked
<1>7. NeverLinked'
  BY <1>1, <1>3, <1>4 DEF Kept, Scanned, NeverLinked, IsLinked
<1>8. BasedRows' /\ Tombs'
  BY <1>1, SameSteady, RowsFrame DEF Kept, ReadRowsKept
<1>9. QED BY <1>5, <1>6, <1>7, <1>8 DEF Kept, Scanned

-----------------------------------------------------------------------------

LEMMA KeptNext ==
    ASSUME TypeInv, Loops, Alone, Kept, ~Overlap, [Next]_vars
    PROVE  Kept'
<1>1. CASE AddQso \/ StartWrite \/ WriteLog \/ WriteMeta \/ ResolveConflict
  BY <1>1, AddQsoKeeps, WriteKeeps, ResolveKeeps
<1>2. CASE \/ LoseRecord \/ RemoteChange \/ ResolveFails \/ IndexScan
           \/ RefreshScan
           \/ RefreshReconcile
  BY <1>2, OtherBesides
<1>3. CASE StartPush \/ StartDelta \/ StartFull
  BY <1>3, StartKeeps
<1>4. CASE Cancel \/ Crash \/ UploadsDone \/ FetchFailed \/ Finish
  BY <1>4, StopsKeep
<1>5. CASE Scans
  BY <1>5, StartKeeps, EarlyKeeps, RescanKeeps DEF Scans
<1>6. CASE Upload
  BY <1>6, StartKeeps, UploadKeeps DEF Upload
<1>7. CASE SyncReconcile \/ Snapshot \/ Fetch \/ ListLinked
  BY <1>7, EarlyKeeps, ListLinkedKeeps
<1>8. CASE LinkedPhase
  BY <1>8, LinkedKeeps, RequestKeeps, LoopEndKeeps DEF LinkedPhase
<1>9. CASE FlushBuffer
  <2>1. CASE WriteFailed /\ buffer.phase # "linked"
    BY <2>1, StopKeeps DEF WriteFailed
  <2>2. QED
    BY <1>9, <2>1, FlushKeeps, BaselinesKeep, WriteRecordsKeeps DEF FlushBuffer
<1>10. CASE UnlinkedPhase
  BY <1>10, RelistKeeps, LoopEndKeeps, UnlinkedItemKeeps DEF UnlinkedPhase
<1>11. CASE UNCHANGED vars
  <2>1. /\ UNCHANGED <<adi, meta, staged>> /\ UNCHANGED running
    BY <1>11 DEF vars, profile
  <2>2. QED BY <2>1, SameRowsSteady, BesideKeeps DEF IsLinked
<1>12. QED
  BY <1>1, <1>2, <1>3, <1>4, <1>5, <1>6, <1>7, <1>8, <1>9, <1>10, <1>11
     DEF Next, User, Others, Sync, FullSync

LEMMA KeptInit == Init => Alone /\ Kept
<1> SUFFICES ASSUME Init PROVE Alone /\ Kept
  OBVIOUS
<1>1. PICK start \in Starts :
         adi = start.adi /\ meta = start.meta /\ remote = start.remote
  BY DEF Init
<1>2. /\ writer = None /\ job = "none" /\ at = "idle" /\ item = None
      /\ metas = NoLog
      /\ buffer.upserts = {} /\ buffer.deletes = {}
  BY DEF Init, NoBuffer
<1>3. Alone
  BY <1>2 DEF Alone, Orderly, FullPlaces, FlushPlaces
<1>4. \A l \in LocalIds :
         /\ Based(meta[l]) /\ ~Tomb(meta[l])
         /\ Based(metas[l]) /\ ~Tomb(metas[l])
  BY <1>1, <1>2, StartsAssumption DEF Based, Tomb, IsLinked, NoLog
<1>5. BasedRows /\ Tombs
  BY <1>4 DEF BasedRows, Tombs
<1>6. Scanned
  BY <1>2 DEF Scanned, Buffered, KnownTombs, Early, AsScanned, Forgotten,
              NeverLinked, LinkedLoop, UnlinkedLoop, FlushPlaces
<1>7. QED BY <1>3, <1>5, <1>6 DEF Kept

(* The step of the property.                                               *)
Survives(l) ==
    (at \in {"write", "drop"} /\ at' \notin {at, "idle"}
       /\ adi[l] # None /\ adi'[l] # adi[l])
       => (metas[l] = None \/ metas[l].wid = None
             \/ adi[l] = metas[l].base)

LEMMA SurvivesStep ==
    ASSUME TypeInv, Loops, Kept, [Next]_vars, NEW l \in LocalIds
    PROVE  Survives(l)
<1> SUFFICES ASSUME at \in {"write", "drop"}, at' \notin {at, "idle"},
                    adi[l] # None, adi'[l] # adi[l], IsLinked(metas[l])
             PROVE  adi[l] = metas[l].base
  BY DEF Survives, IsLinked
<1>1. DropRecords \/ WriteRecords
  <2>1. CASE \/ AddQso \/ StartWrite \/ WriteLog \/ WriteMeta
             \/ ResolveConflict \/ LoseRecord \/ RemoteChange
             \/ ResolveFails \/ IndexScan
             \/ RefreshScan \/ RefreshReconcile \/ UNCHANGED vars
    <3>1. at' = at
      BY <2>1 DEF AddQso, StartWrite, WriteLog, WriteMeta, ResolveConflict,
                  LoseRecord, RemoteChange, ResolveFails, IndexScan,
                  RefreshScan,
                  RefreshReconcile, running, vars
    <3>2. QED BY <3>1
  <2>2. CASE \/ StartPush \/ StartDelta \/ StartFull \/ Cancel \/ Crash
             \/ Scans \/ Upload \/ UploadsDone \/ SyncReconcile \/ Snapshot
             \/ Fetch \/ FetchFailed \/ ListLinked \/ LinkedPhase
             \/ UnlinkedPhase \/ Finish
    <3>1. adi' = adi
      BY <2>2 DEF StartPush, StartDelta, StartFull, Start, Cancel, Crash, Scans,
             Scan, Upload, PushList, FullList, UploadRecorded, UploadMissing,
             UploadCreated, UploadFailed, UploadsDone, SyncReconcile, Snapshot,
             Fetch, FetchFailed, ListLinked, LinkedPhase, LinkedDeletedBoth,
             LinkedVanished, LinkedConflict, LinkedRemoteDeleted,
             LinkedBothChanged, LinkedRemoteChanged, LinkedUnchanged,
             RemoteDeleted, RemotePatched, RequestFailed, Linked, Request,
             Answered, LinkedDone, UnlinkedPhase, ListUnlinked, UnlinkedItem,
             Unlinked, UnlinkedDone, Finish, profile
    <3>2. QED BY <3>1
  <2>3. CASE FlushBuffer
    BY <2>3 DEF FlushBuffer, FilterDeletes, DropFailed, ForgetRows,
           FilterUpserts, Stage, WriteFailed, CommitRows, CommitBaselines
  <2>4. QED
    BY <2>1, <2>2, <2>3 DEF Next, User, Others, Sync, FullSync
<1>2. /\ l \in Upserted \cup Deleted
      /\ at \in {"write", "drop"}
      /\ LinkedLoop \/ UnlinkedLoop
  <2>1. l \in Upserted \cup Deleted
    BY <1>1 DEF DropRecords, WriteRecords, Upserted, Deleted
  <2>2. QED BY <2>1 DEF LinkedLoop, UnlinkedLoop, FlushPlaces, TypeInv, Buffers
<1>3. LinkedLoop
  <2>1. UnlinkedLoop => Deleted = {} /\ l \notin Upserted
    BY DEF Kept, Scanned, Buffered, NeverLinked, Deleted
  <2>2. QED BY <1>2, <2>1
<1>4. adi[l] \in {None, locals[l]} /\ locals[l] \in {None, metas[l].base}
  BY <1>2, <1>3 DEF Kept, Scanned, AsScanned
<1>5. QED BY <1>4

LEMMA KeptAlways == ~Overlap => (Spec => [](Alone /\ Kept))
<1> SUFFICES ASSUME ~Overlap PROVE Spec => [](Alone /\ Kept)
  OBVIOUS
<1>1. IInv /\ (Alone /\ Kept) /\ [Next]_vars => (Alone /\ Kept)'
  <2> SUFFICES ASSUME IInv, Alone, Kept, [Next]_vars PROVE (Alone /\ Kept)'
    OBVIOUS
  <2>1. TypeInv /\ Loops
    BY DEF IInv, Inv
  <2>2. QED BY <2>1, AloneNext, KeptNext
<1>2. QED BY <1>1, KeptInit, LinksKeepContacts, PTL DEF Spec

(* A change made here is not lost silently (sync, SyncWriteBuffer.flush):  *)
(* what a full sync overwrites or deletes in the log was never linked or   *)
(* is what was last synchronized, when no write of the user overlaps the   *)
(* sync.                                                                   *)
THEOREM ChangesHereAreKept == ~Overlap => (Spec => ChangesHereSurvive)
<1> SUFFICES ASSUME ~Overlap PROVE Spec => ChangesHereSurvive
  OBVIOUS
<1>1. IInv /\ (Alone /\ Kept) /\ [Next]_vars =>
         [\A l \in LocalIds : Survives(l)]_vars
  <2> SUFFICES ASSUME IInv, Kept, [Next]_vars
               PROVE  \A l \in LocalIds : Survives(l)
    OBVIOUS
  <2>1. TypeInv /\ Loops
    BY DEF IInv, Inv
  <2>2. QED BY <2>1, SurvivesStep
<1>2. (\A l \in LocalIds : Survives(l)) <=>
      (\A l \in LocalIds :
          (at \in {"write", "drop"} /\ at' \notin {at, "idle"}
             /\ adi[l] # None /\ adi'[l] # adi[l])
             => (metas[l] = None \/ metas[l].wid = None
                   \/ adi[l] = metas[l].base))
  BY DEF Survives
<1>3. QED
  BY <1>1, <1>2, KeptAlways, LinksKeepContacts, PTL
     DEF Spec, ChangesHereSurvive

-----------------------------------------------------------------------------
(* Proofs of what a sync may overwrite while the user edits. *)

(* Rows keep their links and baselines in every step but a deletion.       *)
RowsBased ==
    \A l \in LocalIds :
        \/ meta'[l] = None
        \/ Steady(meta'[l], meta[l])
        \/ Based(meta'[l])

LEMMA SameRowsBased == ASSUME meta' = meta PROVE RowsBased
BY SameSteady DEF RowsBased

LEMMA UserRowsBased ==
    ASSUME TypeInv, AddQso \/ WriteMeta
    PROVE  RowsBased
<1>1. CASE AddQso
  <2>1. PICK k \in FreshIds, c \in Content :
           meta' = [meta EXCEPT ![k] = EnsureLocal(@, c, Scanning)]
    BY <1>1 DEF AddQso
  <2>2. k \in LocalIds /\ meta[k] \in Row \cup {None}
    BY DEF FreshIds, TypeInv
  <2> DEFINE new == EnsureLocal(meta[k], c, Scanning)
  <2>3. Steady(new, meta[k])
    BY <2>2, ScanningType, EnsureLocalSteady
  <2> HIDE DEF new
  <2>4. meta' = [meta EXCEPT ![k] = new]
    BY <2>1, <2>2 DEF new
  <2>5. QED BY <2>2, <2>3, <2>4, OneRowSteady DEF RowsSteady, RowsBased
<1>2. CASE WriteMeta
  <2>1. writer.id \in LocalIds
    BY <1>2 DEF WriteMeta, TypeInv, Writer
  <2> DEFINE old == meta[writer.id]
             new == IF writer.kind = "delete" THEN MarkPendingDelete(old)
                    ELSE EnsureLocal(old, writer.content, Scanning)
  <2>2. old \in Row \cup {None}
    BY <2>1 DEF TypeInv
  <2>3. meta' = [meta EXCEPT ![writer.id] = new]
    BY <1>2 DEF WriteMeta
  <2>4. Based(new) \/ Steady(new, old)
    <3>1. CASE writer.kind = "delete"
      <4>1. new = MarkPendingDelete(old)
        BY <3>1
      <4> HIDE DEF new
      <4>2. QED BY <2>2, <4>1, MarkPendingDeleteBased
    <3>2. CASE writer.kind # "delete"
      <4>1. new = EnsureLocal(old, writer.content, Scanning)
        BY <3>2
      <4> HIDE DEF new
      <4>2. QED BY <2>2, <4>1, ScanningType, EnsureLocalSteady
    <3>3. QED BY <3>1, <3>2
  <2> HIDE DEF new
  <2>5. QED BY <2>1, <2>3, <2>4, SameSteady DEF RowsBased, TypeInv
<1>3. QED BY <1>1, <1>2

LEMMA LinkedRowsBased ==
    ASSUME TypeInv, Loops, NEW l \in LocalIds,
           \/ LinkedDeletedBoth(l) \/ LinkedVanished(l) \/ LinkedConflict(l)
           \/ LinkedRemoteDeleted(l) \/ LinkedBothChanged(l)
           \/ LinkedRemoteChanged(l) \/ LinkedUnchanged(l)
           \/ RemoteDeleted(l) \/ RemotePatched(l) \/ RequestFailed(l)
    PROVE  RowsBased
<1>1. Linked(l) \/ Request(l)
  BY DEF LinkedDeletedBoth, LinkedVanished, LinkedConflict,
         LinkedRemoteDeleted, LinkedBothChanged, LinkedRemoteChanged,
         LinkedUnchanged, RemoteDeleted, RemotePatched, RequestFailed
<1>2. at = "linked" /\ l \in todo
  BY <1>1, TakenLinked
<1>3. "remote_deleted" \in Reason /\ "both_changed" \in Reason
         /\ "local_changed_during_sync" \in Reason
  BY DEF Reason
<1>4. \/ meta' = meta
      \/ meta' = [meta EXCEPT ![l] = None]
      \/ \E reason \in Reason : Conflict(l, reason)
      \/ meta' = [meta EXCEPT ![l] = SetError(meta[l], metas[l].wid, Scanning)]
  BY <1>3 DEF LinkedDeletedBoth, LinkedVanished, LinkedConflict,
         LinkedRemoteDeleted, LinkedBothChanged, LinkedRemoteChanged,
         LinkedUnchanged, RemoteDeleted, RemotePatched, RequestFailed
<1>5. CASE meta' = meta
  BY <1>5, SameRowsBased
<1>6. CASE meta' = [meta EXCEPT ![l] = None]
  BY <1>6, SameSteady DEF RowsBased, TypeInv
<1>7. QED
  BY <1>2, <1>4, <1>5, <1>6, StatusOfLinked DEF RowsSteady, RowsBased

LEMMA FlushRowsBased ==
    ASSUME TypeInv, FlushBuffer
    PROVE  RowsBased
<1>1. CASE DropRecords \/ Stage \/ WriteRecords
           \/ (WriteFailed /\ buffer.phase # "linked")
  <2>1. meta' = meta
    BY <1>1 DEF DropRecords, Stage, WriteRecords, WriteFailed
  <2>2. QED BY <2>1, SameRowsBased
<1>2. CASE ForgetRows
  BY <1>2, SameSteady DEF ForgetRows, RowsBased
<1>3. CASE \/ DropFailed \/ FilterDeletes \/ FilterUpserts
           \/ WriteFailed /\ buffer.phase = "linked"
           \/ CommitRows \/ CommitBaselines
  BY <1>3, FlushedSteadyRows DEF RowsBased
<1>4. QED BY <1>1, <1>2, <1>3 DEF FlushBuffer

LEMMA NextRowsBased ==
    ASSUME TypeInv, Loops, Orderly, [Next]_vars
    PROVE  RowsBased
<1>1. CASE AddQso \/ WriteMeta
  BY <1>1, UserRowsBased
<1>2. CASE ResolveConflict
  BY <1>2, ResolvedRows DEF RowsBased
<1>3. CASE \/ StartWrite \/ WriteLog \/ LoseRecord \/ RemoteChange
           \/ ResolveFails \/ IndexScan
           \/ RefreshScan \/ Cancel \/ Crash \/ UNCHANGED vars
           \/ StartPush \/ StartDelta \/ StartFull
  <2>1. meta' = meta
    BY <1>3 DEF StartWrite, WriteLog, LoseRecord, RemoteChange, ResolveFails,
           IndexScan,
           RefreshScan, Cancel, Crash, vars, profile, StartPush, StartDelta,
           StartFull, Start
  <2>2. QED BY <2>1, SameRowsBased
<1>4. CASE RefreshReconcile \/ SyncReconcile
  <2>1. "sync" \in Scanners /\ "refresh" \in Scanners
    BY DEF Scanners
  <2>2. \/ meta' = Reconciled(meta, staged, refresh, "refresh", Scanning)
        \/ meta' = Reconciled(meta, staged, locals, "sync", Scanning)
    BY <1>4 DEF RefreshReconcile, SyncReconcile
  <2>3. RowsSteady
    BY <2>1, <2>2, ReconciledRowsSteady
  <2>4. QED BY <2>3 DEF RowsSteady, RowsBased
<1>5. CASE \/ Scans \/ PushList \/ FullList \/ UploadsDone \/ Snapshot \/ Fetch
           \/ FetchFailed \/ ListLinked \/ LinkedDone \/ UnlinkedPhase \/ Finish
           \/ \E l \in LocalIds : UploadCreated(l)
  <2>1. meta' = meta
    BY <1>5 DEF Scans, Scan, PushList, FullList, UploadsDone, Snapshot, Fetch,
           FetchFailed, ListLinked, LinkedDone, UnlinkedPhase, ListUnlinked,
           UnlinkedItem, Unlinked, UnlinkedDone, Finish, UploadCreated, profile
  <2>2. QED BY <2>1, SameRowsBased
<1>6. CASE UploadRecorded \/ \E l \in LocalIds : UploadMissing(l) \/ UploadFailed(l)
  BY <1>6, UploadedRows DEF RowsBased
<1>7. CASE Answered
  BY <1>7, AnsweredSteady DEF RowsBased
<1>8. CASE FlushBuffer
  BY <1>8, FlushRowsBased
<1>9. CASE LinkedPhase /\ ~Answered /\ ~LinkedDone
  BY <1>9, LinkedRowsBased DEF LinkedPhase
<1>10. QED
  BY <1>1, <1>2, <1>3, <1>4, <1>5, <1>6, <1>7, <1>8, <1>9
     DEF Next, User, Others, Sync, Upload, FullSync

LEMMA ReadRowsNext ==
    ASSUME [Next]_vars PROVE ReadRowsKept
<1>1. CASE \/ AddQso \/ StartWrite \/ WriteLog \/ WriteMeta \/ ResolveConflict
           \/ LoseRecord \/ RemoteChange \/ ResolveFails \/ IndexScan
           \/ RefreshScan
           \/ RefreshReconcile \/ UNCHANGED vars
           \/ StartPush \/ StartDelta \/ StartFull
  BY <1>1 DEF AddQso, StartWrite, WriteLog, WriteMeta, ResolveConflict,
         LoseRecord, RemoteChange, ResolveFails, IndexScan, RefreshScan,
         RefreshReconcile,
         vars, running, reads, StartPush, StartDelta, StartFull, Start,
         ReadRowsKept
<1>2. CASE Cancel \/ Crash \/ UploadsDone \/ FetchFailed \/ Finish
  BY <1>2 DEF Cancel, Crash, UploadsDone, FetchFailed, Finish, Stop, reads,
         ReadRowsKept
<1>3. CASE Scans \/ Upload
  BY <1>3 DEF Scans, Scan, Upload, PushList, FullList, UploadRecorded,
         UploadMissing, UploadCreated, UploadFailed, Take, reads, ReadRowsKept
<1>4. CASE SyncReconcile \/ Snapshot \/ Fetch \/ ListLinked \/ UnlinkedPhase
  BY <1>4 DEF SyncReconcile, Snapshot, Fetch, ListLinked, UnlinkedPhase,
         ListUnlinked, UnlinkedItem, Unlinked, UnlinkedDone, reads,
         ReadRowsKept
<1>5. CASE LinkedPhase
  BY <1>5 DEF LinkedPhase, LinkedDeletedBoth, LinkedVanished, LinkedConflict,
         LinkedRemoteDeleted, LinkedBothChanged, LinkedRemoteChanged,
         LinkedUnchanged, RemoteDeleted, RemotePatched, RequestFailed, Linked,
         Request, Take, Answered, LinkedDone, reads, ReadRowsKept
<1>6. CASE FlushBuffer
  BY <1>6 DEF FlushBuffer, FilterDeletes, DropRecords, DropFailed, ForgetRows,
         FilterUpserts, Stage, WriteRecords, WriteFailed, CommitRows,
         CommitBaselines, Flush, Stop, reads, ReadRowsKept
<1>7. QED
  BY <1>1, <1>2, <1>3, <1>4, <1>5, <1>6
     DEF Next, User, Others, Sync, FullSync

LEMMA BasedNext ==
    ASSUME TypeInv, Loops, Orderly, BasedRows, [Next]_vars
    PROVE  BasedRows'
<1>1. RowsBased /\ ReadRowsKept
  BY NextRowsBased, ReadRowsNext
<1>2. Based(None)
  BY DEF Based, IsLinked
<1>3. ASSUME NEW l \in LocalIds
      PROVE  Based(meta'[l]) /\ Based(metas'[l])
  <2>1. metas'[l] \in {metas[l], meta[l], None}
    BY <1>1 DEF ReadRowsKept, NoLog
  <2>2. QED BY <1>1, <1>2, <2>1 DEF RowsBased, BasedRows, Steady
<1>4. QED BY <1>3 DEF BasedRows, Based, IsLinked

(* Ids of writes that are filtered, and of baselines to be refreshed.      *)
Checked   == {u.id : u \in {v \in buffer.upserts : v.checked}}
Confirmed == {b.id : b \in buffer.statuses}

LoopPlaces == FlushPlaces \cup {"linked", "answered", "unlinked"}

(* The loop over linked rows buffers one write for each at most, of rows   *)
(* it has taken up; the other loop buffers no deletion and nothing that    *)
(* has to be filtered.                                                     *)
OneByOne ==
    /\ at \notin LoopPlaces =>
          buffer.upserts = {} /\ buffer.deletes = {} /\ buffer.statuses = {}
    /\ at \in {"check", "stage", "write", "commit", "baselines"} =>
          buffer.deletes = {}
    /\ at = "baselines" => buffer.upserts = {}
    /\ buffer.phase = "unlinked" => buffer.deletes = {} /\ Checked = {}
    /\ LinkedLoop =>
          /\ todo \cap (Upserted \cup Deleted \cup Confirmed) = {}
          /\ Upserted \cap Deleted = {}
    /\ at = "answered" => item.id \notin todo \cup Upserted \cup Deleted

(* Outside the loops.                                                      *)
LEMMA OutsideOneByOne ==
    ASSUME at' \notin LoopPlaces,
           buffer'.upserts = {}, buffer'.deletes = {}, buffer'.statuses = {}
    PROVE  OneByOne'
BY DEF OneByOne, LoopPlaces, FlushPlaces, LinkedLoop, Checked

LEMMA StopOneByOne == ASSUME Stop PROVE OneByOne'
BY OutsideOneByOne DEF Stop, NoBuffer, LoopPlaces, FlushPlaces

LEMMA SameOneByOne ==
    ASSUME OneByOne, UNCHANGED <<at, todo, buffer, item>>
    PROVE  OneByOne'
BY DEF OneByOne, LinkedLoop, Upserted, Deleted, Confirmed, Checked

(* The first loop goes on with less to do and no more in the buffer.       *)
LEMMA LoopOneByOne ==
    ASSUME OneByOne, buffer \in Buffers, at \in LoopPlaces \ {"unlinked"},
           at' \in LoopPlaces,
           at' \in FlushPlaces \/ at' = buffer'.phase,
           buffer'.phase = buffer.phase,
           todo' \subseteq todo,
           Upserted' \subseteq Upserted, Deleted' \subseteq Deleted,
           Confirmed' \subseteq Confirmed, Checked' \subseteq Checked,
           at' \in {"check", "stage", "write", "commit", "baselines"} =>
               buffer'.deletes = {},
           at' = "baselines" => buffer'.upserts = {}
    PROVE  OneByOne'
<1>1. buffer.phase \in {"linked", "unlinked"}
  BY DEF Buffers
<1>2. /\ at' # "answered" /\ (LinkedLoop' => buffer.phase = "linked")
      /\ (LinkedLoop' => LinkedLoop)
  BY <1>1 DEF LinkedLoop, FlushPlaces, LoopPlaces
<1>3. Deleted = {} => buffer'.deletes = {}
  <2>1. \A d \in buffer'.deletes : d.id \in Deleted'
    BY DEF Deleted
  <2>2. QED BY <2>1
<1>4. buffer.deletes = {} => Deleted = {}
  BY DEF Deleted
<1>5. QED BY <1>1, <1>2, <1>3, <1>4 DEF OneByOne

(* What is buffered of a linked row that has been taken up.                *)
LEMMA TakenOneByOne ==
    ASSUME OneByOne, buffer \in Buffers, buffer.phase = "linked",
           at = "linked", NEW l, l \in todo, todo' = todo \ {l},
           buffer'.phase = "linked",
           \/ UNCHANGED buffer
           \/ /\ Upserted' \subseteq Upserted \cup {l}
              /\ Deleted' = Deleted /\ Confirmed' = Confirmed
           \/ /\ Deleted' \subseteq Deleted \cup {l}
              /\ Upserted' = Upserted /\ Confirmed' = Confirmed
           \/ /\ Confirmed' \subseteq Confirmed \cup {l}
              /\ Upserted' = Upserted /\ Deleted' = Deleted,
           at' \in {"linked", "flush", "answered"},
           at' = "answered" => item'.id = l /\ UNCHANGED buffer
    PROVE  OneByOne'
<1>1. LinkedLoop
  BY DEF LinkedLoop
<1>2. /\ todo \cap (Upserted \cup Deleted \cup Confirmed) = {}
      /\ Upserted \cap Deleted = {}
  BY <1>1 DEF OneByOne
<1>3. UNCHANGED buffer => UNCHANGED <<Upserted, Deleted, Confirmed>>
  BY DEF Upserted, Deleted, Confirmed
<1>4. /\ todo' \cap (Upserted' \cup Deleted' \cup Confirmed') = {}
      /\ Upserted' \cap Deleted' = {}
  BY <1>2, <1>3
<1>5. at' = "answered" => item'.id \notin todo' \cup Upserted' \cup Deleted'
  BY <1>2, <1>3
<1>6. at' \in LoopPlaces
        /\ at' \notin {"check", "stage", "write", "commit", "baselines"}
  BY DEF LoopPlaces, FlushPlaces
<1>7. QED BY <1>4, <1>5, <1>6 DEF OneByOne

(* What one more write or baseline adds to the buffer.                     *)
LEMMA BufferedMore ==
    ASSUME buffer \in Buffers, NEW b, NEW e, buffer' = b,
           \/ b = [buffer EXCEPT !.upserts = @ \cup {e}]
           \/ b = [buffer EXCEPT !.deletes = @ \cup {e}]
           \/ b = [buffer EXCEPT !.statuses = @ \cup {e}]
    PROVE  /\ buffer'.phase = buffer.phase
           /\ \/ /\ Upserted' \subseteq Upserted \cup {e.id}
                 /\ Deleted' = Deleted /\ Confirmed' = Confirmed
              \/ /\ Deleted' \subseteq Deleted \cup {e.id}
                 /\ Upserted' = Upserted /\ Confirmed' = Confirmed
              \/ /\ Confirmed' \subseteq Confirmed \cup {e.id}
                 /\ Upserted' = Upserted /\ Deleted' = Deleted
           /\ Checked' \subseteq Checked \cup {e.id}
<1>1. CASE b = [buffer EXCEPT !.upserts = @ \cup {e}]
  BY <1>1 DEF Upserted, Deleted, Confirmed, Checked, Buffers
<1>2. CASE b = [buffer EXCEPT !.deletes = @ \cup {e}]
  BY <1>2 DEF Upserted, Deleted, Confirmed, Checked, Buffers
<1>3. CASE b = [buffer EXCEPT !.statuses = @ \cup {e}]
  BY <1>3 DEF Upserted, Deleted, Confirmed, Checked, Buffers
<1>4. QED BY <1>1, <1>2, <1>3

(* What the first loop buffers for a row: at most one write or baseline,   *)
(* and one that is filtered, or a deletion, only if the record seems to be *)
(* unchanged.                                                              *)
BuffersFor(l) ==
    /\ buffer'.phase = buffer.phase
    /\ at' \in {"linked", "flush"}
    /\ \/ UNCHANGED buffer
       \/ /\ Upserted' \subseteq Upserted \cup {l}
          /\ Deleted' = Deleted /\ Confirmed' = Confirmed
       \/ /\ Deleted' \subseteq Deleted \cup {l}
          /\ Upserted' = Upserted /\ Confirmed' = Confirmed
       \/ /\ Confirmed' \subseteq Confirmed \cup {l}
          /\ Upserted' = Upserted /\ Deleted' = Deleted
    /\ Checked' \subseteq Checked \cup {l}
    /\ LocalChanged(l) => Deleted' = Deleted /\ Checked' = Checked
    /\ UNCHANGED buffer \/ meta' = meta

LEMMA LinkedBuffers ==
    ASSUME TypeInv, Loops, NEW l \in LocalIds,
           \/ LinkedDeletedBoth(l) \/ LinkedVanished(l) \/ LinkedConflict(l)
           \/ LinkedRemoteDeleted(l) \/ LinkedBothChanged(l)
           \/ LinkedRemoteChanged(l) \/ LinkedUnchanged(l)
    PROVE  BuffersFor(l)
<1> DEFINE up(c) == [id |-> l, content |-> view[metas[l].wid],
                     wid |-> metas[l].wid, checked |-> c]
           de == [id |-> l, wid |-> metas[l].wid]
           st == [id |-> l, wid |-> metas[l].wid, base |-> locals[l],
                  remoteBase |-> view[metas[l].wid]]
<1>1. at = "linked" /\ buffer \in Buffers
  BY DEF LinkedDeletedBoth, LinkedVanished, LinkedConflict,
         LinkedRemoteDeleted, LinkedBothChanged, LinkedRemoteChanged,
         LinkedUnchanged, Linked, Take, TypeInv
<1>2. \/ UNCHANGED <<at, buffer>>
      \/ /\ Buffer([buffer EXCEPT !.upserts = @ \cup {up(TRUE)}])
         /\ ~LocalChanged(l) /\ meta' = meta
      \/ /\ Buffer([buffer EXCEPT !.upserts = @ \cup {up(FALSE)}])
         /\ meta' = meta
      \/ /\ Buffer([buffer EXCEPT !.deletes = @ \cup {de}])
         /\ ~LocalChanged(l) /\ meta' = meta
      \/ /\ Buffer([buffer EXCEPT !.statuses = @ \cup {st}])
         /\ meta' = meta
  BY DEF LinkedDeletedBoth, LinkedVanished, LinkedConflict,
         LinkedRemoteDeleted, LinkedBothChanged, LinkedRemoteChanged,
         LinkedUnchanged, Conflict
<1>3. /\ up(TRUE).id = l /\ up(FALSE).id = l /\ de.id = l /\ st.id = l
      /\ up(FALSE).checked = FALSE
  OBVIOUS
<1> HIDE DEF up, de, st
<1>4. CASE UNCHANGED <<at, buffer>>
  BY <1>1, <1>4 DEF BuffersFor, Checked, Deleted
<1>5. CASE /\ Buffer([buffer EXCEPT !.upserts = @ \cup {up(TRUE)}])
           /\ ~LocalChanged(l) /\ meta' = meta
  <2>1. buffer' = [buffer EXCEPT !.upserts = @ \cup {up(TRUE)}]
          /\ at' \in {"linked", "flush"}
    BY <1>1, <1>5 DEF Buffer
  <2> DEFINE e == up(TRUE)
             b == [buffer EXCEPT !.upserts = @ \cup {e}]
  <2>2. e.id = l /\ buffer' = b /\ b = [buffer EXCEPT !.upserts = @ \cup {e}]
    BY <1>3, <2>1
  <2> HIDE DEF e, b
  <2>3. QED BY <1>1, <1>5, <2>1, <2>2, BufferedMore DEF BuffersFor
<1>6. CASE /\ Buffer([buffer EXCEPT !.upserts = @ \cup {up(FALSE)}])
           /\ meta' = meta
  <2>1. buffer' = [buffer EXCEPT !.upserts = @ \cup {up(FALSE)}]
          /\ at' \in {"linked", "flush"}
    BY <1>1, <1>6 DEF Buffer
  <2> DEFINE e == up(FALSE)
             b == [buffer EXCEPT !.upserts = @ \cup {e}]
  <2>2. e.id = l /\ buffer' = b /\ b = [buffer EXCEPT !.upserts = @ \cup {e}]
    BY <1>3, <2>1
  <2>3. Checked' = Checked
    <3>1. buffer'.upserts = buffer.upserts \cup {e} /\ e.checked = FALSE
      BY <1>1, <1>3, <2>1 DEF Buffers
    <3> HIDE DEF e, b
    <3>2. QED BY <3>1 DEF Checked
  <2>4. b.upserts = buffer.upserts \cup {e} /\ b.deletes = buffer.deletes
    BY <1>1 DEF Buffers
  <2> HIDE DEF e, b
  <2>5. Deleted' = Deleted
    BY <2>2, <2>4 DEF Deleted
  <2>6. QED BY <1>1, <1>6, <2>1, <2>2, <2>3, <2>5, BufferedMore DEF BuffersFor
<1>7. CASE /\ Buffer([buffer EXCEPT !.deletes = @ \cup {de}])
           /\ ~LocalChanged(l) /\ meta' = meta
  <2>1. buffer' = [buffer EXCEPT !.deletes = @ \cup {de}]
          /\ at' \in {"linked", "flush"}
    BY <1>1, <1>7 DEF Buffer
  <2> DEFINE b == [buffer EXCEPT !.deletes = @ \cup {de}]
  <2>2. buffer' = b /\ b = [buffer EXCEPT !.deletes = @ \cup {de}]
    BY <2>1
  <2> HIDE DEF b
  <2>3. QED BY <1>1, <1>3, <1>7, <2>1, <2>2, BufferedMore DEF BuffersFor
<1>8. CASE /\ Buffer([buffer EXCEPT !.statuses = @ \cup {st}])
           /\ meta' = meta
  <2>1. buffer' = [buffer EXCEPT !.statuses = @ \cup {st}]
          /\ at' \in {"linked", "flush"}
    BY <1>1, <1>8 DEF Buffer
  <2> DEFINE b == [buffer EXCEPT !.statuses = @ \cup {st}]
  <2>2. buffer' = b /\ b = [buffer EXCEPT !.statuses = @ \cup {st}]
    BY <2>1
  <2>3. b.upserts = buffer.upserts /\ b.deletes = buffer.deletes
    BY <1>1 DEF Buffers
  <2> HIDE DEF b
  <2>4. Deleted' = Deleted /\ Checked' = Checked
    BY <2>2, <2>3 DEF Deleted, Checked
  <2>5. QED BY <1>1, <1>3, <1>8, <2>1, <2>2, <2>4, BufferedMore DEF BuffersFor
<1>9. QED BY <1>2, <1>4, <1>5, <1>6, <1>7, <1>8

LEMMA LinkedOneByOne ==
    ASSUME TypeInv, Loops, OneByOne, NEW l \in LocalIds,
           \/ LinkedDeletedBoth(l) \/ LinkedVanished(l) \/ LinkedConflict(l)
           \/ LinkedRemoteDeleted(l) \/ LinkedBothChanged(l)
           \/ LinkedRemoteChanged(l) \/ LinkedUnchanged(l)
           \/ RemoteDeleted(l) \/ RemotePatched(l) \/ RequestFailed(l)
    PROVE  OneByOne'
<1>1. Linked(l) \/ Request(l)
  BY DEF LinkedDeletedBoth, LinkedVanished, LinkedConflict,
         LinkedRemoteDeleted, LinkedBothChanged, LinkedRemoteChanged,
         LinkedUnchanged, RemoteDeleted, RemotePatched, RequestFailed
<1>2. /\ at = "linked" /\ l \in todo /\ todo' = todo \ {l}
      /\ buffer.phase = "linked" /\ buffer \in Buffers
  BY <1>1, TakenLinked DEF TypeInv
<1>3. CASE RemoteDeleted(l) \/ RemotePatched(l)
  <2>1. at' = "answered" /\ item'.id = l /\ UNCHANGED buffer
    BY <1>3 DEF RemoteDeleted, RemotePatched, Request
  <2>2. QED BY <1>2, <2>1, TakenOneByOne
<1>4. CASE RequestFailed(l)
  <2>1. UNCHANGED <<at, buffer>>
    BY <1>4 DEF RequestFailed, Request
  <2>2. QED BY <1>2, <2>1, TakenOneByOne
<1>5. CASE \/ LinkedDeletedBoth(l) \/ LinkedVanished(l) \/ LinkedConflict(l)
           \/ LinkedRemoteDeleted(l) \/ LinkedBothChanged(l)
           \/ LinkedRemoteChanged(l) \/ LinkedUnchanged(l)
  <2>1. BuffersFor(l)
    BY <1>5, LinkedBuffers
  <2>2. QED BY <1>2, <2>1, TakenOneByOne DEF BuffersFor
<1>6. QED BY <1>3, <1>4, <1>5

(* The flushes take out of the buffer what they have written or given up.  *)
LEMMA FlushOneByOne ==
    ASSUME TypeInv, Loops, OneByOne, FlushBuffer
    PROVE  OneByOne'
<1>1. CASE WriteFailed /\ buffer.phase # "linked"
  BY <1>1, StopOneByOne DEF WriteFailed
<1>2. CASE ~(WriteFailed /\ buffer.phase # "linked") /\ ~CommitBaselines
  <2>1. /\ at \in FlushPlaces /\ at' \in FlushPlaces
        /\ UNCHANGED <<todo>>
    BY <1>2 DEF FlushBuffer, FilterDeletes, DropRecords, DropFailed,
           ForgetRows, FilterUpserts, Stage, WriteRecords, WriteFailed,
           CommitRows, Flush, Goto, reads, FlushPlaces
  <2>2. /\ buffer'.phase = buffer.phase
        /\ buffer'.upserts \subseteq buffer.upserts
        /\ buffer'.deletes \subseteq buffer.deletes
        /\ buffer'.statuses = buffer.statuses
    BY <1>2 DEF FlushBuffer, FilterDeletes, DropRecords, DropFailed,
           ForgetRows, FilterUpserts, Stage, WriteRecords, WriteFailed,
           CommitRows, TypeInv, Buffers
  <2>3. /\ Upserted' \subseteq Upserted /\ Deleted' \subseteq Deleted
        /\ Confirmed' \subseteq Confirmed /\ Checked' \subseteq Checked
    BY <2>2 DEF Upserted, Deleted, Confirmed, Checked
  <2>4. /\ at' \in {"check", "stage", "write", "commit", "baselines"} =>
               buffer'.deletes = {}
        /\ at' = "baselines" => buffer'.upserts = {}
    <3>1. CASE FilterDeletes \/ DropRecords \/ DropFailed \/ ForgetRows
      BY <3>1 DEF FilterDeletes, DropRecords, DropFailed, ForgetRows, Flush,
             Goto, TypeInv, Buffers
    <3>2. CASE FilterUpserts \/ Stage \/ WriteRecords \/ CommitRows
               \/ (WriteFailed /\ buffer.phase = "linked")
      BY <2>2, <3>2 DEF FilterUpserts, Stage, WriteRecords, CommitRows,
             WriteFailed, Flush, Goto, TypeInv, Buffers, OneByOne
    <3>3. QED BY <1>2, <3>1, <3>2 DEF FlushBuffer
  <2>5. QED
    BY <2>1, <2>2, <2>3, <2>4, LoopOneByOne
       DEF LoopPlaces, FlushPlaces, TypeInv
<1>3. CASE CommitBaselines
  <2>1. /\ at = "baselines" /\ todo' = todo
        /\ at' = IF todo # {} THEN buffer.phase
                 ELSE IF buffer.phase = "linked" THEN "rescan" ELSE "lastscan"
        /\ buffer' = [buffer EXCEPT !.statuses = {}]
    BY <1>3 DEF CommitBaselines, Flush, Goto, reads
  <2>2. /\ buffer \in Buffers
        /\ buffer'.phase = buffer.phase /\ buffer'.statuses = {}
        /\ buffer'.upserts = buffer.upserts /\ buffer'.deletes = buffer.deletes
        /\ buffer.upserts = {} /\ buffer.deletes = {}
    BY <2>1 DEF TypeInv, Buffers, OneByOne
  <2>3. /\ Upserted' = Upserted /\ Deleted' = Deleted
        /\ Confirmed' = {} /\ Checked' = Checked
    BY <2>2 DEF Upserted, Deleted, Confirmed, Checked
  <2>4. CASE todo # {}
    <3>1. at' = buffer'.phase /\ at' \in {"linked", "unlinked"}
      BY <2>1, <2>2, <2>4 DEF Buffers
    <3>2. QED
      BY <2>1, <2>2, <2>3, <3>1, LoopOneByOne DEF LoopPlaces, FlushPlaces
  <2>5. CASE todo = {}
    <3>1. at' \notin LoopPlaces
      BY <2>1, <2>5 DEF LoopPlaces, FlushPlaces
    <3>2. QED BY <2>2, <3>1, OutsideOneByOne
  <2>6. QED BY <2>4, <2>5
<1>4. QED BY <1>1, <1>2, <1>3

(* The second loop.                                                        *)
LEMMA UnlinkedOneByOne ==
    ASSUME TypeInv, Loops, OneByOne, UnlinkedPhase
    PROVE  OneByOne'
<1>1. CASE ListUnlinked
  <2>1. /\ at' = "unlinked" /\ buffer' = [NoBuffer EXCEPT !.phase = "unlinked"]
        /\ item' = item
    BY <1>1 DEF ListUnlinked, Goto
  <2>2. /\ buffer'.phase = "unlinked" /\ buffer'.upserts = {}
        /\ buffer'.deletes = {} /\ buffer'.statuses = {}
    BY <2>1 DEF NoBuffer
  <2>3. QED
    BY <2>1, <2>2 DEF OneByOne, LoopPlaces, FlushPlaces, LinkedLoop, Checked
<1>2. CASE UnlinkedDone
  <2>1. at = "unlinked" /\ at' = "flush" /\ buffer' = buffer
    BY <1>2 DEF UnlinkedDone, Goto
  <2>2. buffer.phase = "unlinked" /\ Checked' = Checked
    BY <2>1 DEF Loops, Checked
  <2>3. QED
    BY <2>1, <2>2 DEF OneByOne, LoopPlaces, FlushPlaces, LinkedLoop
<1>3. ASSUME NEW w \in WavelogIds, UnlinkedItem(w)
      PROVE  OneByOne'
  <2>1. at = "unlinked" /\ buffer.phase = "unlinked" /\ buffer \in Buffers
    BY <1>3 DEF UnlinkedItem, Unlinked, Loops, TypeInv
  <2>2. \/ UNCHANGED <<at, buffer>>
        \/ \E l \in LocalIds : Incoming(l, w)
    BY <1>3 DEF UnlinkedItem, Link, Pull, Matches, FreshIds
  <2>3. /\ at' \in {"unlinked", "flush"} /\ buffer'.phase = "unlinked"
        /\ buffer'.deletes = buffer.deletes /\ Checked' = Checked
    <3>1. CASE UNCHANGED <<at, buffer>>
      BY <2>1, <3>1 DEF Checked
    <3>2. ASSUME NEW l \in LocalIds, Incoming(l, w)
          PROVE  /\ at' \in {"unlinked", "flush"}
                 /\ buffer'.phase = "unlinked"
                 /\ buffer'.deletes = buffer.deletes /\ Checked' = Checked
      <4> DEFINE e == [id |-> l, content |-> view[w], wid |-> w,
                       checked |-> FALSE]
      <4>1. /\ buffer' = [buffer EXCEPT !.upserts = @ \cup {e}]
            /\ at' \in {"unlinked", "flush"}
        BY <2>1, <3>2 DEF Incoming, Buffer
      <4>2. e.checked = FALSE
        OBVIOUS
      <4> HIDE DEF e
      <4>3. /\ buffer'.upserts = buffer.upserts \cup {e}
            /\ buffer'.phase = buffer.phase
            /\ buffer'.deletes = buffer.deletes
        BY <2>1, <4>1 DEF Buffers
      <4>4. Checked' = Checked
        BY <4>2, <4>3 DEF Checked
      <4>5. QED BY <2>1, <4>1, <4>3, <4>4
    <3>3. QED BY <2>2, <3>1, <3>2
  <2>4. QED
    BY <2>1, <2>3 DEF OneByOne, LoopPlaces, FlushPlaces, LinkedLoop
<1>4. QED BY <1>1, <1>2, <1>3 DEF UnlinkedPhase

LEMMA OneByOneNext ==
    ASSUME TypeInv, Loops, OneByOne, [Next]_vars
    PROVE  OneByOne'
<1>1. CASE \/ AddQso \/ StartWrite \/ WriteLog \/ WriteMeta \/ ResolveConflict
           \/ LoseRecord \/ RemoteChange \/ ResolveFails \/ IndexScan
           \/ RefreshScan
           \/ RefreshReconcile \/ UNCHANGED vars
  <2>1. UNCHANGED running
    BY <1>1 DEF AddQso, StartWrite, WriteLog, WriteMeta, ResolveConflict,
           LoseRecord, RemoteChange, ResolveFails, IndexScan, RefreshScan,
           RefreshReconcile, vars
  <2>2. QED BY <2>1, SameOneByOne DEF running, reads
<1>2. CASE \/ FetchFailed \/ Finish \/ Cancel \/ Crash
           \/ (UploadsDone /\ job # "full")
  BY <1>2, StopOneByOne DEF FetchFailed, Finish, Cancel, Crash, UploadsDone
<1>3. CASE \/ StartPush \/ StartDelta \/ StartFull
           \/ (UploadsDone /\ job = "full") \/ Scans \/ Upload
           \/ SyncReconcile \/ Snapshot \/ Fetch
  <2>1. /\ at \notin LoopPlaces /\ at' \notin LoopPlaces /\ buffer' = buffer
    BY <1>3 DEF StartPush, StartDelta, StartFull, Start, UploadsDone, Scans,
           Scan, Upload, PushList, FullList, UploadRecorded, UploadMissing,
           UploadCreated, UploadFailed, Take, SyncReconcile, Snapshot, Fetch,
           Goto, Loops, LoopPlaces, FlushPlaces
  <2>2. QED BY <2>1, OutsideOneByOne DEF OneByOne
<1>4. CASE ListLinked \/ LinkedDone \/ Answered
  <2>1. /\ at' \in {"linked", "flush"} /\ buffer' = buffer
        /\ at \in {"list", "linked", "answered"}
    BY <1>4 DEF ListLinked, LinkedDone, Answered, Goto
  <2>2. buffer.phase = "linked" /\ buffer \in Buffers
    BY <2>1 DEF Loops, TypeInv
  <2>3. CASE ListLinked
    <3>1. buffer.upserts = {} /\ buffer.deletes = {} /\ buffer.statuses = {}
      BY <2>3 DEF ListLinked, OneByOne, LoopPlaces, FlushPlaces
    <3>2. /\ Upserted' = {} /\ Deleted' = {} /\ Confirmed' = {}
          /\ at' = "linked"
      BY <2>1, <2>3, <3>1 DEF Upserted, Deleted, Confirmed, ListLinked, Goto
    <3>3. QED BY <2>1, <2>2, <3>1, <3>2 DEF OneByOne, LoopPlaces, FlushPlaces
  <2>4. CASE LinkedDone \/ Answered
    <3>1. todo' = todo /\ at \in {"linked", "answered"}
      BY <2>4 DEF LinkedDone, Answered, reads
    <3>2. /\ Upserted' = Upserted /\ Deleted' = Deleted
          /\ Confirmed' = Confirmed /\ Checked' = Checked
      BY <2>1 DEF Upserted, Deleted, Confirmed, Checked
    <3>3. QED
      BY <2>1, <2>2, <3>1, <3>2, LoopOneByOne DEF LoopPlaces, FlushPlaces
  <2>5. QED BY <1>4, <2>3, <2>4
<1>5. CASE LinkedPhase /\ ~Answered /\ ~LinkedDone
  BY <1>5, LinkedOneByOne DEF LinkedPhase
<1>6. CASE FlushBuffer
  BY <1>6, FlushOneByOne
<1>7. CASE UnlinkedPhase
  BY <1>7, UnlinkedOneByOne
<1>8. QED
  BY <1>1, <1>2, <1>3, <1>4, <1>5, <1>6, <1>7
     DEF Next, User, Others, Sync, FullSync

-----------------------------------------------------------------------------
(* Rows that keep their link, and their status as long as their version    *)
(* stays. *)

Aged(new, old) ==
    /\ IsLinked(new) <=> IsLinked(old)
    /\ IsLinked(old) =>
          \/ new.version > old.version
          \/ /\ new.version = old.version
             /\ new.status = old.status /\ new.base = old.base

LEMMA AgedSame == ASSUME NEW row PROVE Aged(row, row)
BY DEF Aged

LEMMA AgedTwice ==
    ASSUME NEW new \in Row \cup {None}, NEW row \in Row \cup {None},
           NEW old \in Row \cup {None}, Aged(new, row), Aged(row, old)
    PROVE  Aged(new, old)
<1>1. CASE ~IsLinked(old)
  BY <1>1 DEF Aged
<1>2. CASE IsLinked(old)
  <2>1. IsLinked(new) /\ IsLinked(row)
    BY <1>2 DEF Aged
  <2>2. new.version \in Nat /\ row.version \in Nat /\ old.version \in Nat
    BY <1>2, <2>1 DEF IsLinked, Row
  <2>3. QED BY <1>2, <2>1, <2>2 DEF Aged
<1>3. QED BY <1>1, <1>2

LEMMA AgedUnlinked ==
    ASSUME NEW new, NEW old, ~IsLinked(new), ~IsLinked(old)
    PROVE  Aged(new, old)
BY DEF Aged

(* An edit gives a synced row a new version.                               *)
LEMMA EnsureLocalAged ==
    ASSUME NEW row \in Row \cup {None}, NEW content,
           NEW scanning \in SUBSET Scanners,
           NEW new, new = EnsureLocal(row, content, scanning)
    PROVE  /\ Aged(new, row)
           /\ (/\ IsLinked(row) /\ row.status = "synced" /\ row.base # None
               /\ new.version = row.version) => content = row.base
<1>1. CASE row = None
  <2>1. ~IsLinked(new)
    BY <1>1, EnsureLocalSteady
  <2>2. QED BY <1>1, <2>1 DEF Aged, IsLinked
<1>2. CASE row # None /\ row.status = "synced" /\ row.base \notin {None, content}
  <2>1. /\ row \in Row /\ row.version \in Nat
        /\ new = [row EXCEPT !.status = "modified", !.version = @ + 1]
    BY <1>2 DEF EnsureLocal, Row
  <2> DEFINE v == row.version + 1
  <2>2. v > row.version /\ v # row.version
    BY <2>1
  <2> HIDE DEF v
  <2>3. /\ [row EXCEPT !.status = "modified", !.version = v].version = v
        /\ [row EXCEPT !.status = "modified", !.version = v].wid = row.wid
    BY <2>1 DEF Row
  <2>4. new.version = v /\ new.wid = row.wid
    BY <2>1, <2>3 DEF v
  <2>5. new \in Row /\ new # None
    BY <1>2, EnsureLocalRow, AbsenceAssumption
  <2>6. QED BY <1>2, <2>2, <2>4, <2>5 DEF Aged, IsLinked
<1>3. CASE row # None /\ ~(row.status = "synced" /\ row.base \notin {None, content})
  <2>1. new = row
    BY <1>3 DEF EnsureLocal
  <2>2. QED BY <1>3, <2>1, AgedSame
<1>4. QED BY <1>1, <1>2, <1>3

LEMMA MarkPendingDeleteAged ==
    ASSUME NEW row \in Row \cup {None},
           NEW new, new = MarkPendingDelete(row)
    PROVE  /\ Aged(new, row)
           /\ IsLinked(new) => new.status = "pending_delete"
<1>1. CASE ~IsLinked(row)
  BY <1>1 DEF MarkPendingDelete, IsLinked, Aged
<1>2. CASE IsLinked(row)
  <2>1. /\ row \in Row /\ row.version \in Nat
        /\ new = [row EXCEPT !.status = "pending_delete", !.version = @ + 1]
    BY <1>2 DEF MarkPendingDelete, IsLinked, Row
  <2> DEFINE v == row.version + 1
  <2>2. v > row.version /\ v \in Nat
    BY <2>1
  <2> HIDE DEF v
  <2> DEFINE r == [row EXCEPT !.status = "pending_delete", !.version = v]
  <2>3. /\ r.version = v /\ r.wid = row.wid /\ r.status = "pending_delete"
        /\ r \in Row
    BY <2>1, <2>2 DEF Row, Status
  <2>4. new = r
    BY <2>1 DEF v
  <2> HIDE DEF r
  <2>5. QED BY <1>2, <2>2, <2>3, <2>4, AbsenceAssumption DEF Aged, IsLinked
<1>3. QED BY <1>1, <1>2

LEMMA SeenAged ==
    ASSUME NEW row \in Row \cup {None}, NEW scanner,
           NEW new, new = Seen(row, scanner)
    PROVE  Aged(new, row)
<1>1. CASE row = None
  BY <1>1, AgedSame DEF Seen
<1>2. CASE row # None
  <2>1. /\ row \in Row
        /\ new = [row EXCEPT !.after = @ \ {scanner}]
    BY <1>2 DEF Seen
  <2> DEFINE a == row.after \ {scanner}
  <2>2. a \in SUBSET Scanners
    BY <2>1 DEF Row
  <2> HIDE DEF a
  <2> DEFINE r == [row EXCEPT !.after = a]
  <2>3. /\ r.version = row.version /\ r.wid = row.wid /\ r.base = row.base
        /\ r.status = row.status /\ r \in Row
    BY <2>1, <2>2 DEF Row
  <2>4. new = r
    BY <2>1 DEF a
  <2> HIDE DEF r
  <2>5. QED BY <1>2, <2>3, <2>4, AbsenceAssumption DEF Aged, IsLinked
<1>3. QED BY <1>1, <1>2

(* So does a reconciliation, with rows of which no write is staged.        *)
LEMMA ReconciledAged ==
    ASSUME NEW rows \in [LocalIds -> Row \cup {None}],
           NEW stage \in [LocalIds -> Staged \cup {None}],
           NEW log, NEW scanner \in Scanners,
           NEW scanning \in SUBSET Scanners, NEW l \in LocalIds,
           stage[l] = None,
           NEW new, new = Reconciled(rows, stage, log, scanner, scanning)[l]
    PROVE  Aged(new, rows[l])
<1> DEFINE resolved == Resolved(rows, stage, log, scanning)
           kept == IF log[l] # None
                   THEN EnsureLocal(resolved[l], log[l], scanning)
                   ELSE IF resolved[l] = None THEN None
                   ELSE Orphan(resolved[l], scanner)
<1>1. resolved[l] = rows[l] /\ rows[l] \in Row \cup {None}
  BY DEF Resolved
<1>2. new = Seen(kept, scanner)
  BY DEF Reconciled, resolved
<1> HIDE DEF resolved
<1>3. kept \in Row \cup {None} /\ Aged(kept, rows[l])
  <2>1. CASE log[l] # None
    <3>1. kept = EnsureLocal(resolved[l], log[l], scanning)
      BY <2>1
    <3> HIDE DEF kept
    <3>2. QED BY <1>1, <3>1, EnsureLocalRow, EnsureLocalAged
  <2>2. CASE log[l] = None
    <3>1. \/ kept = resolved[l]
          \/ kept = None /\ ~IsLinked(resolved[l])
      BY <2>2 DEF Orphan, IsLinked
    <3> HIDE DEF kept
    <3>2. ~IsLinked(None)
      BY DEF IsLinked
    <3>3. QED BY <1>1, <3>1, <3>2, AgedSame, AgedUnlinked
  <2>3. QED BY <2>1, <2>2
<1> HIDE DEF kept
<1>4. Aged(new, kept)
  BY <1>2, <1>3, SeenAged
<1>5. new \in Row \cup {None}
  <2>1. CASE kept = None
    BY <1>2, <2>1 DEF Seen
  <2>2. CASE kept # None
    <3>1. kept \in Row /\ new = [kept EXCEPT !.after = @ \ {scanner}]
      BY <1>2, <1>3, <2>2 DEF Seen
    <3>2. QED BY <3>1 DEF Row
  <2>3. QED BY <2>1, <2>2
<1>6. QED BY <1>1, <1>3, <1>4, <1>5, AgedTwice

-----------------------------------------------------------------------------
(* Proofs of which edits the filters of a flush notice. *)

VersionsRead == versions \in [LocalIds -> Nat \cup {None}]

(* Nothing is staged before the loop over linked rows, and in it what is   *)
(* staged is about to be written.                                          *)
StagedLate ==
    /\ at \in {"snapshot", "fetch", "list"} => staged = NothingStaged
    /\ LinkedLoop =>
          \A l \in LocalIds :
              staged[l] # None => at \in {"write", "commit"} /\ l \in Upserted

(* The linked rows of which this sync has not changed anything yet.        *)
Ahead ==
    IF ~LinkedLoop THEN {}
    ELSE todo \cup
         (IF at \in {"linked", "answered", "flush"} THEN Deleted ELSE {}) \cup
         (IF at \in {"linked", "answered", "flush", "drop", "forget", "check"}
          THEN Checked ELSE {})

NotOlder(row, l) ==
    (IsLinked(row) /\ versions[l] # None) => row.version >= versions[l]

(* The user's edit is in the log and not yet in the metadata.              *)
EditSaved(l) ==
    /\ writer # None /\ writer.id = l /\ writer.saved /\ writer.kind = "edit"
    /\ adi[l] = writer.content

(* If the version of a row stays that shows edits, then no edit has come   *)
(* into the log, or it is still to come into the metadata.                 *)
Noticed(l) ==
    (/\ IsLinked(meta[l]) /\ meta[l].status = "synced" /\ meta[l].base # None
     /\ versions[l] # None
     /\ meta[l].version = versions[l] /\ since[l] = meta[l].base)
       => adi[l] \in {None, since[l]} \/ EditSaved(l)

EarlyRows ==
    at \in {"fetch", "list"} =>
        \A l \in LocalIds : NotOlder(meta[l], l) /\ Noticed(l)

AheadRows ==
    \A l \in Ahead :
        /\ IsLinked(metas[l])
        /\ Aged(meta[l], metas[l]) /\ NotOlder(metas[l], l) /\ Noticed(l)

(* Deletions, and writes that are filtered, are of records that seemed to  *)
(* be unchanged.                                                           *)
Unchanged == LinkedLoop => \A l \in Deleted \cup Checked : ~LocalChanged(l)

Noted == VersionsRead /\ StagedLate /\ EarlyRows /\ AheadRows /\ Unchanged

-----------------------------------------------------------------------------
LEMMA AheadIds ==
    ASSUME TypeInv, Loops, OneByOne
    PROVE  /\ Ahead \subseteq LocalIds
           /\ \A l \in Ahead : l \in Upserted =>
                 at \notin {"stage", "write", "commit", "baselines"}
<1> SUFFICES ASSUME LinkedLoop
             PROVE  /\ Ahead \subseteq LocalIds
                    /\ \A l \in Ahead : l \in Upserted =>
                          at \notin {"stage", "write", "commit", "baselines"}
  BY DEF Ahead
<1>1. \A l \in todo \cup Deleted \cup Checked : l \in LocalIds
  BY DEF Loops, LinkedLoop, Deleted, Checked, TypeInv, Buffers, Upsert, Delete
<1>2. todo \cap Upserted = {}
  BY DEF OneByOne
<1>3. QED BY <1>1, <1>2 DEF Ahead

LEMMA NothingStagedAhead ==
    ASSUME TypeInv, Loops, OneByOne, StagedLate, NEW l \in Ahead
    PROVE  staged[l] = None
<1>1. LinkedLoop /\ l \in LocalIds
  BY AheadIds DEF Ahead
<1>2. QED BY <1>1, AheadIds DEF StagedLate

(* A row that ages is no older than before.                                *)
LEMMA NotOlderFrame ==
    ASSUME VersionsRead, NEW l \in LocalIds,
           NEW new \in Row \cup {None}, NEW old \in Row \cup {None},
           Aged(new, old), NotOlder(old, l)
    PROVE  NotOlder(new, l)
<1> SUFFICES ASSUME IsLinked(new), versions[l] # None
             PROVE  new.version >= versions[l]
  BY DEF NotOlder
<1>1. IsLinked(old)
  BY DEF Aged
<1>2. /\ versions[l] \in Nat /\ new.version \in Nat /\ old.version \in Nat
      /\ old.version >= versions[l]
  BY <1>1 DEF VersionsRead, IsLinked, Row, NotOlder
<1>3. QED BY <1>1, <1>2 DEF Aged

(* A row that ages and has the version that was read had it before, and    *)
(* its status.                                                             *)
LEMMA SameVersion ==
    ASSUME VersionsRead, NEW l \in LocalIds,
           NEW new \in Row \cup {None}, NEW old \in Row \cup {None},
           Aged(new, old), NotOlder(old, l),
           IsLinked(new), versions[l] # None, new.version = versions[l]
    PROVE  /\ IsLinked(old) /\ old.version = new.version
           /\ old.status = new.status /\ old.base = new.base
<1>1. IsLinked(old)
  BY DEF Aged
<1>2. /\ versions[l] \in Nat /\ new.version \in Nat /\ old.version \in Nat
      /\ old.version >= versions[l]
  BY <1>1 DEF VersionsRead, IsLinked, Row, NotOlder
<1>3. ~(new.version > old.version)
  BY <1>2
<1>4. QED BY <1>1, <1>2, <1>3 DEF Aged

(* What is noticed of a row stays noticed.                                 *)
LEMMA NoticedFrame ==
    ASSUME TypeInv, TypeInv', VersionsRead, NEW l \in LocalIds,
           NotOlder(meta[l], l), Noticed(l), Aged(meta'[l], meta[l]),
           UNCHANGED <<versions, since>>,
           \/ adi'[l] \in {adi[l], None} /\ writer' = writer
           \/ WriteLog
           \/ WriteMeta
    PROVE  Noticed(l)'
<1> SUFFICES ASSUME IsLinked(meta'[l]), meta'[l].status = "synced",
                    meta'[l].base # None, versions[l] # None,
                    meta'[l].version = versions[l], since[l] = meta'[l].base
             PROVE  adi'[l] \in {None, since[l]} \/ EditSaved(l)'
  BY DEF Noticed, IsLinked
<1>1. meta[l] \in Row \cup {None} /\ meta'[l] \in Row \cup {None}
  BY DEF TypeInv
<1>2. /\ IsLinked(meta[l]) /\ meta[l].version = meta'[l].version
      /\ meta[l].status = "synced" /\ meta[l].base = meta'[l].base
  BY <1>1, SameVersion
<1>3. adi[l] \in {None, since[l]} \/ EditSaved(l)
  BY <1>2 DEF Noticed
<1>4. CASE adi'[l] \in {adi[l], None} /\ writer' = writer
  BY <1>3, <1>4 DEF EditSaved
<1>5. CASE WriteLog
  <2>1. CASE writer.id # l
    <3>1. adi'[l] = adi[l] /\ ~EditSaved(l)
      BY <1>5, <2>1 DEF WriteLog, TypeInv, EditSaved
    <3>2. QED BY <1>3, <3>1
  <2>2. CASE writer.id = l /\ adi[l] = None
    BY <1>5, <2>2 DEF WriteLog
  <2>3. CASE writer.id = l /\ adi[l] # None
    <3>1. /\ writer \in Writer
          /\ adi' = [adi EXCEPT ![l] = IF writer.kind = "delete" THEN None
                                       ELSE writer.content]
          /\ writer' = [writer EXCEPT !.saved = TRUE]
      BY <1>5, <2>3 DEF WriteLog, TypeInv
    <3>2. /\ writer'.id = l /\ writer'.saved /\ writer'.kind = writer.kind
          /\ writer'.content = writer.content
          /\ writer.kind \in {"edit", "delete"}
          /\ writer' \in Writer
      BY <2>3, <3>1 DEF Writer
    <3>3. writer' # None
      BY <3>2, AbsenceAssumption
    <3>4. adi'[l] = IF writer.kind = "delete" THEN None ELSE writer.content
      BY <3>1 DEF TypeInv
    <3>5. QED BY <3>2, <3>3, <3>4 DEF EditSaved
  <2>4. QED BY <2>1, <2>2, <2>3
<1>6. CASE WriteMeta
  <2>1. adi' = adi
    BY <1>6 DEF WriteMeta
  <2>2. CASE adi[l] \in {None, since[l]}
    BY <2>1, <2>2
  <2>3. CASE EditSaved(l)
    <3>1. /\ writer.id = l /\ writer.kind = "edit" /\ adi[l] = writer.content
      BY <2>3 DEF EditSaved
    <3> DEFINE new == EnsureLocal(meta[l], writer.content, Scanning)
    <3>2. meta' = [meta EXCEPT ![l] = new]
      BY <1>6, <3>1 DEF WriteMeta
    <3>3. meta'[l] = new
      BY <3>2 DEF TypeInv
    <3>4. new.version = meta[l].version => writer.content = meta[l].base
      BY <1>1, <1>2, ScanningType, EnsureLocalAged
    <3> HIDE DEF new
    <3>5. writer.content = meta[l].base
      BY <1>2, <3>3, <3>4
    <3>6. QED BY <1>2, <2>1, <3>1, <3>5
  <2>4. QED BY <1>3, <2>2, <2>3
<1>7. QED BY <1>4, <1>5, <1>6

(* Places at which what was noticed counts.                                *)
Watching == at \in {"snapshot", "fetch", "list"} \/ LinkedLoop

(* A step beside the sync: rows of which nothing is staged age, and what   *)
(* is noticed of them stays noticed.                                       *)
LEMMA BesideRow ==
    ASSUME TypeInv, TypeInv', VersionsRead, UNCHANGED running,
           \/ AddQso \/ WriteLog \/ WriteMeta \/ LoseRecord \/ RemoteChange
           \/ ResolveFails
           \/ IndexScan \/ RefreshScan \/ RefreshReconcile \/ UNCHANGED vars,
           NEW l \in LocalIds, staged[l] = None
    PROVE  /\ Aged(meta'[l], meta[l])
           /\ NotOlder(meta[l], l) /\ Noticed(l) => Noticed(l)'
<1>1. meta[l] \in Row \cup {None} /\ UNCHANGED <<versions, since>>
  BY DEF TypeInv, running, reads, snapshot
<1>2. CASE AddQso
  <2>1. PICK k \in FreshIds, c \in Content :
           /\ meta' = [meta EXCEPT ![k] = EnsureLocal(@, c, Scanning)]
           /\ adi' = [adi EXCEPT ![k] = c]
    BY <1>2 DEF AddQso
  <2>2. CASE l = k
    <3> DEFINE new == EnsureLocal(meta[l], c, Scanning)
    <3>1. meta[l] = None /\ meta'[l] = new
      BY <2>1, <2>2 DEF FreshIds, TypeInv
    <3>2. Aged(new, meta[l])
      BY <1>1, ScanningType, EnsureLocalAged
    <3> HIDE DEF new
    <3>3. ~IsLinked(meta'[l])
      BY <3>1, <3>2 DEF Aged, IsLinked
    <3>4. QED BY <3>1, <3>2, <3>3 DEF Noticed, IsLinked
  <2>3. CASE l # k
    <3>1. meta'[l] = meta[l] /\ adi'[l] = adi[l] /\ writer' = writer
      BY <1>2, <2>1, <2>3 DEF AddQso, TypeInv
    <3>2. QED BY <1>1, <3>1, AgedSame, NoticedFrame
  <2>4. QED BY <2>2, <2>3
<1>3. CASE WriteLog
  <2>1. meta' = meta
    BY <1>3 DEF WriteLog
  <2>2. QED BY <1>1, <1>3, <2>1, AgedSame, NoticedFrame
<1>4. CASE WriteMeta
  <2>1. Aged(meta'[l], meta[l])
    <3>1. CASE writer.id # l
      <4>1. meta'[l] = meta[l]
        BY <1>4, <3>1 DEF WriteMeta, TypeInv
      <4>2. QED BY <4>1, AgedSame
    <3>2. CASE writer.id = l /\ writer.kind = "delete"
      <4>1. meta'[l] = MarkPendingDelete(meta[l])
        BY <1>4, <3>2 DEF WriteMeta, TypeInv
      <4>2. QED BY <1>1, <4>1, MarkPendingDeleteAged
    <3>3. CASE writer.id = l /\ writer.kind # "delete"
      <4>1. meta'[l] = EnsureLocal(meta[l], writer.content, Scanning)
        BY <1>4, <3>3 DEF WriteMeta, TypeInv
      <4>2. QED BY <1>1, <4>1, ScanningType, EnsureLocalAged
    <3>4. QED BY <3>1, <3>2, <3>3
  <2>2. QED BY <1>1, <1>4, <2>1, NoticedFrame
<1>5. CASE RefreshReconcile
  <2>1. /\ meta' = Reconciled(meta, staged, refresh, "refresh", Scanning)
        /\ "refresh" \in Scanners /\ adi' = adi /\ writer' = writer
    BY <1>5 DEF RefreshReconcile, Scanners
  <2>2. /\ meta \in [LocalIds -> Row \cup {None}]
        /\ staged \in [LocalIds -> Staged \cup {None}]
        /\ meta'[l] = Reconciled(meta, staged, refresh, "refresh", Scanning)[l]
    BY <2>1 DEF TypeInv
  <2>3. Aged(meta'[l], meta[l])
    BY <2>1, <2>2, ScanningType, ReconciledAged
  <2>4. QED BY <1>1, <2>1, <2>3, NoticedFrame
<1>6. CASE \/ LoseRecord \/ RemoteChange \/ ResolveFails \/ IndexScan
           \/ RefreshScan
           \/ UNCHANGED vars
  <2>1. /\ meta' = meta /\ adi'[l] \in {adi[l], None} /\ writer' = writer
    BY <1>6 DEF LoseRecord, RemoteChange, ResolveFails, IndexScan,
                RefreshScan, profile, vars,
                TypeInv
  <2>2. QED BY <1>1, <2>1, AgedSame, NoticedFrame
<1>7. QED BY <1>2, <1>3, <1>4, <1>5, <1>6

LEMMA SameAhead ==
    ASSUME UNCHANGED running
    PROVE  /\ Ahead' = Ahead /\ (LinkedLoop' <=> LinkedLoop)
           /\ Deleted' = Deleted /\ Checked' = Checked /\ Upserted' = Upserted
           /\ \A l : LocalChanged(l)' <=> LocalChanged(l)
           /\ UNCHANGED <<at, metas, versions, since>>
BY DEF running, reads, snapshot, Ahead, LinkedLoop, Deleted, Checked, Upserted,
       LocalChanged

LEMMA BesideNoted ==
    ASSUME TypeInv, TypeInv', Loops, Orderly, OneByOne, Noted,
           \/ AddQso \/ StartWrite \/ WriteLog \/ WriteMeta \/ ResolveConflict
           \/ LoseRecord \/ RemoteChange \/ ResolveFails \/ IndexScan
           \/ RefreshScan
           \/ RefreshReconcile \/ UNCHANGED vars
    PROVE  Noted'
<1>1. UNCHANGED running
  BY DEF AddQso, StartWrite, WriteLog, WriteMeta, ResolveConflict, LoseRecord,
         RemoteChange, ResolveFails, IndexScan, RefreshScan, RefreshReconcile,
         vars
<1>2. /\ Ahead' = Ahead /\ (LinkedLoop' <=> LinkedLoop)
      /\ Deleted' = Deleted /\ Checked' = Checked /\ Upserted' = Upserted
      /\ \A l : LocalChanged(l)' <=> LocalChanged(l)
      /\ UNCHANGED <<at, metas, versions, since>>
  BY <1>1, SameAhead
<1>3. VersionsRead' /\ Unchanged'
  BY <1>2 DEF Noted, VersionsRead, Unchanged
<1>4. CASE ~Watching
  BY <1>2, <1>3, <1>4 DEF Watching, Noted, StagedLate, EarlyRows, AheadRows,
                          Ahead
<1>5. CASE Watching
  <2>1. Modal
    BY <1>5 DEF Watching, LinkedLoop, Orderly, FullPlaces, Modal
  <2>2. \/ AddQso \/ WriteLog \/ WriteMeta \/ LoseRecord \/ RemoteChange
        \/ ResolveFails
        \/ IndexScan \/ RefreshScan \/ RefreshReconcile \/ UNCHANGED vars
    BY <2>1 DEF StartWrite, ResolveConflict
  <2>3. staged' \in {staged, NothingStaged}
    BY <2>2 DEF AddQso, WriteLog, WriteMeta, LoseRecord, RemoteChange,
           ResolveFails,
           IndexScan, RefreshScan, RefreshReconcile, profile, vars
  <2>4. StagedLate'
    BY <1>2, <2>3 DEF Noted, StagedLate, NothingStaged
  <2>5. \A l \in LocalIds : meta[l] \in Row \cup {None}
           /\ meta'[l] \in Row \cup {None} /\ metas[l] \in Row \cup {None}
    BY DEF TypeInv
  <2>6. EarlyRows'
    <3> SUFFICES ASSUME at \in {"fetch", "list"}, NEW l \in LocalIds
                 PROVE  NotOlder(meta[l], l)' /\ Noticed(l)'
      BY <1>2 DEF EarlyRows
    <3>1. staged[l] = None
      BY DEF Noted, StagedLate, NothingStaged
    <3>2. NotOlder(meta[l], l) /\ Noticed(l)
      BY DEF Noted, EarlyRows
    <3>3. Aged(meta'[l], meta[l]) /\ Noticed(l)'
      BY <1>1, <2>2, <3>1, <3>2, BesideRow DEF Noted
    <3>4. NotOlder(meta'[l], l)
      BY <2>5, <3>2, <3>3, NotOlderFrame DEF Noted
    <3>5. QED BY <1>2, <3>3, <3>4 DEF NotOlder, IsLinked
  <2>7. AheadRows'
    <3> SUFFICES ASSUME NEW l \in Ahead
                 PROVE  /\ IsLinked(metas[l])
                        /\ Aged(meta'[l], metas[l]) /\ NotOlder(metas[l], l)
                        /\ Noticed(l)'
      BY <1>2 DEF AheadRows, NotOlder, Aged, IsLinked
    <3>1. l \in LocalIds /\ staged[l] = None
      BY AheadIds, NothingStagedAhead DEF Noted
    <3>2. /\ IsLinked(metas[l]) /\ Aged(meta[l], metas[l])
          /\ NotOlder(metas[l], l) /\ Noticed(l)
      BY DEF Noted, AheadRows
    <3>3. NotOlder(meta[l], l)
      BY <2>5, <3>1, <3>2, NotOlderFrame DEF Noted
    <3>4. Aged(meta'[l], meta[l]) /\ Noticed(l)'
      BY <1>1, <2>2, <3>1, <3>2, <3>3, BesideRow DEF Noted
    <3>5. Aged(meta'[l], metas[l])
      BY <2>5, <3>1, <3>2, <3>4, AgedTwice
    <3>6. QED BY <3>2, <3>4, <3>5
  <2>8. QED BY <1>3, <2>4, <2>6, <2>7 DEF Noted
<1>6. QED BY <1>4, <1>5

-----------------------------------------------------------------------------
(* Steps to places where nothing is watched.                               *)
LEMMA OutsideNoted ==
    ASSUME Noted, ~Watching', versions' \in {versions, NoVersions}
    PROVE  Noted'
BY DEF Noted, Watching, VersionsRead, NoVersions, StagedLate, EarlyRows,
       AheadRows, Ahead, Unchanged

LEMMA StopNoted == ASSUME Noted, Stop PROVE Noted'
BY OutsideNoted DEF Stop, Watching, LinkedLoop, FlushPlaces

(* From the snapshot of the versions to the list of the linked rows.       *)
LEMMA SnapshotNoted ==
    ASSUME TypeInv, TypeInv', Loops, OneByOne, Noted,
           SyncReconcile \/ Snapshot \/ Fetch
    PROVE  Noted'
<1>1. /\ at' \in {"snapshot", "fetch", "list"}
      /\ at' \in {"fetch", "list"} <=> Snapshot \/ Fetch
      /\ staged' = NothingStaged
  BY DEF SyncReconcile, Snapshot, Fetch, Goto, profile, Noted, StagedLate
<1>2. ~LinkedLoop'
  BY <1>1 DEF LinkedLoop, FlushPlaces
<1>3. StagedLate' /\ AheadRows' /\ Unchanged'
  BY <1>1, <1>2 DEF StagedLate, AheadRows, Ahead, Unchanged
<1>4. VersionsRead'
  BY DEF SyncReconcile, Snapshot, Fetch, reads, snapshot, Noted, VersionsRead,
         TypeInv, Row
<1>5. EarlyRows'
  <2>1. CASE SyncReconcile
    BY <2>1 DEF SyncReconcile, Goto, EarlyRows
  <2>2. CASE Snapshot
    <3>1. /\ UNCHANGED <<adi, meta>> /\ since' = adi
          /\ versions' = [l \in LocalIds |->
                             IF locals[l] = None \/ meta[l] = None THEN None
                             ELSE meta[l].version]
      BY <2>2 DEF Snapshot, profile
    <3>2. ASSUME NEW l \in LocalIds
          PROVE  NotOlder(meta[l], l)' /\ Noticed(l)'
      <4>1. IsLinked(meta[l]) => meta[l].version \in Nat
        BY DEF TypeInv, IsLinked, Row
      <4>2. versions'[l] # None /\ IsLinked(meta[l]) =>
               versions'[l] = meta[l].version
        BY <3>1
      <4>3. NotOlder(meta[l], l)'
        BY <3>1, <4>1, <4>2 DEF NotOlder, IsLinked
      <4>4. Noticed(l)'
        BY <3>1 DEF Noticed
      <4>5. QED BY <4>3, <4>4
    <3>3. QED BY <3>2 DEF EarlyRows
  <2>3. CASE Fetch
    <3>1. /\ UNCHANGED <<adi, meta, versions, since, writer>> /\ at = "fetch"
      BY <2>3 DEF Fetch, profile, snapshot, Environment
    <3>2. QED
      BY <3>1 DEF Noted, EarlyRows, NotOlder, Noticed, EditSaved, IsLinked
  <2>4. QED BY <2>1, <2>2, <2>3
<1>6. QED BY <1>3, <1>4, <1>5 DEF Noted

LEMMA ListLinkedNoted ==
    ASSUME TypeInv, Loops, OneByOne, Noted, ListLinked
    PROVE  Noted'
<1>1. /\ at = "list" /\ at' = "linked" /\ metas' = meta
      /\ todo' = {l \in LocalIds : IsLinked(meta[l])}
      /\ UNCHANGED <<adi, meta, staged, locals, versions, since, buffer, writer>>
  BY DEF ListLinked, Goto, profile, snapshot, Environment
<1>2. buffer.upserts = {} /\ buffer.deletes = {}
  BY <1>1 DEF OneByOne, LoopPlaces, FlushPlaces
<1>3. /\ Deleted' = {} /\ Checked' = {}
      /\ Ahead' = {l \in LocalIds : IsLinked(meta[l])}
  BY <1>1, <1>2 DEF Deleted, Checked, Ahead, LinkedLoop
<1>4. VersionsRead' /\ Unchanged' /\ EarlyRows'
  BY <1>1, <1>3 DEF Noted, VersionsRead, Unchanged, EarlyRows
<1>5. StagedLate'
  BY <1>1 DEF Noted, StagedLate, NothingStaged
<1>6. AheadRows'
  <2> SUFFICES ASSUME NEW l \in LocalIds, IsLinked(meta[l])
               PROVE  /\ IsLinked(metas'[l])
                      /\ Aged(meta'[l], metas'[l]) /\ NotOlder(metas[l], l)'
                      /\ Noticed(l)'
    BY <1>3 DEF AheadRows, NotOlder, Aged, IsLinked
  <2>1. NotOlder(meta[l], l) /\ Noticed(l)
    BY <1>1 DEF Noted, EarlyRows
  <2>2. QED
    BY <1>1, <2>1, AgedSame DEF NotOlder, Noticed, EditSaved, IsLinked
<1>7. QED BY <1>4, <1>5, <1>6 DEF Noted

(* The steps of the loop.                                                  *)
LEMMA LoopNoted ==
    ASSUME Noted, LinkedLoop, LinkedLoop', StagedLate',
           UNCHANGED <<metas, locals, versions, since, writer>>,
           Ahead' \subseteq Ahead,
           \A l \in Ahead' : meta'[l] = meta[l] /\ adi'[l] = adi[l],
           \A l \in Deleted' \cup Checked' :
               l \in Deleted \cup Checked \/ ~LocalChanged(l)
    PROVE  Noted'
<1>1. VersionsRead' /\ EarlyRows'
  BY DEF Noted, VersionsRead, EarlyRows, LinkedLoop, FlushPlaces
<1>2. AheadRows'
  <2> SUFFICES ASSUME NEW l \in Ahead'
               PROVE  /\ IsLinked(metas'[l])
                      /\ Aged(meta'[l], metas'[l]) /\ NotOlder(metas[l], l)'
                      /\ Noticed(l)'
    BY DEF AheadRows, NotOlder, Aged, IsLinked
  <2>1. /\ l \in Ahead /\ meta'[l] = meta[l] /\ adi'[l] = adi[l]
    OBVIOUS
  <2>2. /\ IsLinked(metas[l])
        /\ Aged(meta[l], metas[l]) /\ NotOlder(metas[l], l) /\ Noticed(l)
    BY <2>1 DEF Noted, AheadRows
  <2>3. QED
    BY <2>1, <2>2 DEF NotOlder, Noticed, EditSaved, IsLinked
<1>3. Unchanged'
  BY DEF Noted, Unchanged, LocalChanged
<1>4. QED BY <1>1, <1>2, <1>3 DEF Noted

LEMMA LinkedNoted ==
    ASSUME TypeInv, Loops, OneByOne, Noted, NEW l \in LocalIds,
           \/ LinkedDeletedBoth(l) \/ LinkedVanished(l) \/ LinkedConflict(l)
           \/ LinkedRemoteDeleted(l) \/ LinkedBothChanged(l)
           \/ LinkedRemoteChanged(l) \/ LinkedUnchanged(l)
           \/ RemoteDeleted(l) \/ RemotePatched(l) \/ RequestFailed(l)
    PROVE  Noted'
<1>1. Linked(l) \/ Request(l)
  BY DEF LinkedDeletedBoth, LinkedVanished, LinkedConflict,
         LinkedRemoteDeleted, LinkedBothChanged, LinkedRemoteChanged,
         LinkedUnchanged, RemoteDeleted, RemotePatched, RequestFailed
<1>2. /\ at = "linked" /\ l \in todo /\ todo' = todo \ {l}
      /\ UNCHANGED <<adi, staged, locals, metas, versions, since, writer>>
      /\ buffer.phase = "linked"
  BY <1>1, TakenLinked DEF Linked, Request, Take, snapshot, Environment
<1>3. BuffersFor(l) \/ (at' \in {"linked", "answered"} /\ UNCHANGED buffer)
  BY <1>2, LinkedBuffers DEF RemoteDeleted, RemotePatched, RequestFailed,
                             Request
<1>4. \A k \in LocalIds \ {l} : meta'[k] = meta[k]
  BY DEF LinkedDeletedBoth, LinkedVanished, LinkedConflict,
         LinkedRemoteDeleted, LinkedBothChanged, LinkedRemoteChanged,
         LinkedUnchanged, RemoteDeleted, RemotePatched, RequestFailed,
         Conflict, TypeInv
<1>5. /\ at' \in {"linked", "flush", "answered"}
      /\ buffer'.phase = "linked"
      /\ LinkedLoop /\ LinkedLoop'
  <2>1. at' \in {"linked", "flush", "answered"} /\ buffer'.phase = "linked"
    BY <1>2, <1>3 DEF BuffersFor
  <2>2. QED BY <1>2, <2>1 DEF LinkedLoop, FlushPlaces
<1>6. /\ Deleted' \subseteq Deleted \cup {l}
      /\ Checked' \subseteq Checked \cup {l}
      /\ LocalChanged(l) => Deleted' = Deleted /\ Checked' = Checked
      /\ meta'[l] = meta[l] \/ (Deleted' = Deleted /\ Checked' = Checked)
  <2>1. UNCHANGED buffer => Deleted' = Deleted /\ Checked' = Checked
    BY DEF Deleted, Checked
  <2>2. CASE UNCHANGED buffer
    BY <2>1, <2>2
  <2>3. CASE BuffersFor(l) /\ ~UNCHANGED buffer
    BY <2>3 DEF BuffersFor
  <2>4. QED BY <1>3, <2>2, <2>3
<1>7. Ahead = todo \cup Deleted \cup Checked
        /\ Ahead' = todo' \cup Deleted' \cup Checked'
  BY <1>2, <1>5 DEF Ahead
<1>8. l \notin Deleted \cup Checked
  <2>1. Checked \subseteq Upserted
    BY DEF Checked, Upserted
  <2>2. QED BY <1>2, <1>5, <2>1 DEF OneByOne
<1>9. /\ Ahead' \subseteq Ahead
      /\ \A k \in Ahead' : meta'[k] = meta[k] /\ adi'[k] = adi[k]
  BY <1>2, <1>4, <1>6, <1>7, <1>8, AheadIds
<1>10. \A k \in Deleted' \cup Checked' :
          k \in Deleted \cup Checked \/ ~LocalChanged(k)
  BY <1>6
<1>11. StagedLate'
  BY <1>2, <1>5 DEF Noted, StagedLate
<1>12. QED BY <1>2, <1>5, <1>9, <1>10, <1>11, LoopNoted

LEMMA AnsweredNoted ==
    ASSUME TypeInv, Loops, OneByOne, Noted, Answered \/ LinkedDone
    PROVE  Noted'
<1>1. /\ at \in {"answered", "linked"} /\ at' \in {"linked", "flush"}
      /\ UNCHANGED <<adi, staged, buffer, todo, locals, metas, versions, since,
                     writer>>
  BY DEF Answered, LinkedDone, Goto, profile, reads, snapshot, Environment
<1>2. buffer.phase = "linked"
  BY <1>1 DEF Loops
<1>3. LinkedLoop /\ LinkedLoop' /\ Deleted' = Deleted /\ Checked' = Checked
  BY <1>1, <1>2 DEF LinkedLoop, FlushPlaces, Deleted, Checked
<1>4. Ahead = todo \cup Deleted \cup Checked /\ Ahead' = Ahead
  BY <1>1, <1>3 DEF Ahead
<1>5. \A k \in Ahead : meta'[k] = meta[k]
  <2>1. Checked \subseteq Upserted
    BY DEF Checked, Upserted
  <2>2. CASE LinkedDone
    BY <2>2 DEF LinkedDone, profile
  <2>3. CASE Answered
    <3>1. item.id \notin Ahead
      BY <1>4, <2>1, <2>3 DEF Answered, OneByOne
    <3>2. QED BY <2>3, <3>1, AheadIds DEF Answered, TypeInv
  <2>4. QED BY <2>2, <2>3
<1>6. StagedLate'
  BY <1>1, <1>3 DEF Noted, StagedLate
<1>7. QED BY <1>1, <1>3, <1>4, <1>5, <1>6, LoopNoted

(* A flush changes rows and records only of what it takes out of the       *)
(* buffer.                                                                 *)
LEMMA FlushTouches ==
    ASSUME TypeInv, FlushBuffer, ~CommitBaselines, buffer.phase = "linked",
           NEW l \in LocalIds
    PROVE  /\ (meta'[l] # meta[l] \/ adi'[l] # adi[l]) =>
                 \/ l \in Deleted /\ at \in {"flush", "drop", "forget"}
                 \/ l \in Checked /\ at = "check"
                 \/ l \in Upserted /\ at \in {"write", "commit"}
           /\ at' \in {"check", "drop", "forget", "stage", "write", "commit",
                       "baselines"}
<1>1. CASE FilterDeletes
  BY <1>1 DEF FilterDeletes, WithConflicts, Flush, Goto, Deleted, TypeInv
<1>2. CASE DropRecords
  BY <1>2 DEF DropRecords, Flush, Goto, Deleted
<1>3. CASE DropFailed
  BY <1>3 DEF DropFailed, MarkErrors, Flush, Goto, Deleted
<1>4. CASE ForgetRows
  BY <1>4 DEF ForgetRows, Flush, Goto, Deleted
<1>5. CASE FilterUpserts
  BY <1>5 DEF FilterUpserts, WithConflicts, Flush, Goto, Checked
<1>6. CASE Stage \/ WriteRecords
  BY <1>6 DEF Stage, WriteRecords, Flush, Goto, Upserted
<1>7. CASE WriteFailed
  BY <1>7 DEF WriteFailed, MarkErrors, Goto, Upserted
<1>8. CASE CommitRows
  BY <1>8 DEF CommitRows, Flush, Goto, Upserted
<1>9. QED
  BY <1>1, <1>2, <1>3, <1>4, <1>5, <1>6, <1>7, <1>8 DEF FlushBuffer

LEMMA FlushNoted ==
    ASSUME TypeInv, Loops, OneByOne, Noted, FlushBuffer, ~CommitBaselines,
           buffer.phase = "linked"
    PROVE  Noted'
<1>1. /\ at \in FlushPlaces /\ at' \in FlushPlaces
      /\ UNCHANGED <<todo, locals, metas, versions, since, writer>>
  BY DEF FlushBuffer, FilterDeletes, DropRecords, DropFailed, ForgetRows,
         FilterUpserts, Stage, WriteRecords, WriteFailed, CommitRows, Flush,
         Goto, reads, snapshot, Environment, FlushPlaces
<1>2. /\ buffer'.phase = "linked"
      /\ buffer'.upserts \subseteq buffer.upserts
      /\ buffer'.deletes \subseteq buffer.deletes
  BY DEF FlushBuffer, FilterDeletes, DropRecords, DropFailed, ForgetRows,
         FilterUpserts, Stage, WriteRecords, WriteFailed, CommitRows, TypeInv,
         Buffers
<1>3. /\ LinkedLoop /\ LinkedLoop'
      /\ Deleted' \subseteq Deleted /\ Checked' \subseteq Checked
      /\ Upserted' \subseteq Upserted /\ Checked \subseteq Upserted
  BY <1>1, <1>2 DEF LinkedLoop, Deleted, Checked, Upserted
<1>4. /\ todo \cap (Upserted \cup Deleted \cup Confirmed) = {}
      /\ Upserted \cap Deleted = {}
  BY <1>3 DEF OneByOne
<1>5. /\ at \in {"check", "stage", "write", "commit", "baselines"} => Deleted = {}
      /\ at' \notin {"linked", "answered", "flush"}
      /\ at' \in {"drop", "forget", "check"} =>
            at \in {"flush", "drop", "forget"}
  <2>1. at \in {"check", "stage", "write", "commit", "baselines"} => Deleted = {}
    BY DEF OneByOne, Deleted
  <2>2. /\ at' \notin {"linked", "answered", "flush"}
        /\ at' \in {"drop", "forget", "check"} =>
              at \in {"flush", "drop", "forget"}
    BY DEF FlushBuffer, FilterDeletes, DropRecords, DropFailed, ForgetRows,
           FilterUpserts, Stage, WriteRecords, WriteFailed, CommitRows, Flush,
           Goto
  <2>3. QED BY <2>1, <2>2
<1>6. Ahead' \subseteq Ahead
  BY <1>1, <1>3, <1>5 DEF Ahead
<1>7. ASSUME NEW l \in Ahead'
      PROVE  meta'[l] = meta[l] /\ adi'[l] = adi[l]
  <2>1. l \in LocalIds
    BY <1>6, AheadIds
  <2>2. l \in todo \/ (l \in Checked /\ at \in {"flush", "drop", "forget"})
    BY <1>1, <1>3, <1>5 DEF Ahead
  <2>3. QED BY <1>3, <1>4, <2>1, <2>2, FlushTouches
<1>8. StagedLate'
  <2> SUFFICES ASSUME NEW l \in LocalIds, staged'[l] # None
               PROVE  at' \in {"write", "commit"} /\ l \in Upserted'
    BY <1>1, <1>3 DEF StagedLate, FlushPlaces
  <2>1. staged[l] # None => at \in {"write", "commit"} /\ l \in Upserted
    BY <1>3 DEF Noted, StagedLate
  <2>2. CASE \/ FilterDeletes \/ DropRecords \/ DropFailed \/ ForgetRows
             \/ FilterUpserts
    BY <2>1, <2>2 DEF FilterDeletes, DropRecords, DropFailed, ForgetRows,
           FilterUpserts, Flush
  <2>3. CASE Stage
    <3>1. at' = "write" /\ Upserted' = Upserted /\ at = "stage"
      BY <2>3 DEF Stage, Flush, Goto, Upserted
    <3>2. l \in Upserted
      BY <2>1, <2>3, <3>1 DEF Stage, Upserted
    <3>3. QED BY <3>1, <3>2
  <2>4. CASE WriteRecords
    <3>1. at' = "commit" /\ Upserted' = Upserted /\ staged' = staged
      BY <2>4 DEF WriteRecords, Flush, Goto, Upserted
    <3>2. QED BY <2>1, <3>1
  <2>5. CASE WriteFailed \/ CommitRows
    BY <2>1, <2>5 DEF WriteFailed, CommitRows, ClearedStaged, Upserted
  <2>6. QED BY <2>2, <2>3, <2>4, <2>5 DEF FlushBuffer
<1>9. \A l \in Deleted' \cup Checked' : l \in Deleted \cup Checked
  BY <1>3
<1>10. QED BY <1>1, <1>3, <1>6, <1>7, <1>8, <1>9, LoopNoted

LEMMA BaselinesNoted ==
    ASSUME TypeInv, Loops, OneByOne, Noted, CommitBaselines,
           buffer.phase = "linked"
    PROVE  Noted'
<1>1. /\ at = "baselines" /\ buffer' = [buffer EXCEPT !.statuses = {}]
      /\ at' = IF todo # {} THEN "linked" ELSE "rescan"
      /\ UNCHANGED <<adi, staged, todo, locals, metas, versions, since, writer>>
  BY DEF CommitBaselines, Flush, Goto, reads, snapshot, Environment
<1>2. /\ buffer.upserts = {} /\ buffer.deletes = {}
      /\ buffer'.upserts = {} /\ buffer'.deletes = {}
  BY <1>1 DEF OneByOne, TypeInv, Buffers
<1>3. CASE todo = {}
  BY <1>1, <1>3, OutsideNoted DEF Watching, LinkedLoop, FlushPlaces
<1>4. CASE todo # {}
  <2>1. /\ LinkedLoop /\ LinkedLoop' /\ Deleted' = {} /\ Checked' = {}
        /\ at' = "linked"
    BY <1>1, <1>2, <1>4 DEF LinkedLoop, FlushPlaces, Deleted, Checked
  <2>2. Ahead' = todo /\ Ahead = todo
    BY <1>1, <2>1 DEF Ahead
  <2>3. ASSUME NEW l \in todo PROVE meta'[l] = meta[l]
    <3>1. l \in LocalIds /\ l \notin Confirmed
      BY <2>1, <2>2, <2>3, AheadIds DEF OneByOne
    <3>2. QED BY <3>1 DEF CommitBaselines, Confirmed
  <2>4. StagedLate'
    BY <1>1, <2>1 DEF Noted, StagedLate
  <2>5. QED BY <1>1, <2>1, <2>2, <2>3, <2>4, LoopNoted
<1>5. QED BY <1>3, <1>4

LEMMA NotedNext ==
    ASSUME TypeInv, TypeInv', Loops, Orderly, OneByOne, Noted, [Next]_vars
    PROVE  Noted'
<1>1. CASE \/ AddQso \/ StartWrite \/ WriteLog \/ WriteMeta \/ ResolveConflict
           \/ LoseRecord \/ RemoteChange \/ ResolveFails \/ IndexScan
           \/ RefreshScan
           \/ RefreshReconcile \/ UNCHANGED vars
  BY <1>1, BesideNoted
<1>2. CASE \/ FetchFailed \/ Finish \/ Cancel \/ Crash
           \/ (UploadsDone /\ job # "full")
           \/ (WriteFailed /\ buffer.phase # "linked")
  BY <1>2, StopNoted DEF FetchFailed, Finish, Cancel, Crash, UploadsDone,
                         WriteFailed
<1>3. CASE \/ StartPush \/ StartDelta \/ StartFull
           \/ (UploadsDone /\ job = "full") \/ Scans \/ Upload
  <2>1. at' \notin FlushPlaces \cup {"snapshot", "fetch", "list", "linked",
                                     "answered"}
    BY <1>3 DEF StartPush, StartDelta, StartFull, Start, UploadsDone, Scans,
           Scan, Upload, PushList, FullList, UploadRecorded, UploadMissing,
           UploadCreated, UploadFailed, Take, Goto, FlushPlaces
  <2>2. versions' = versions
    BY <1>3 DEF StartPush, StartDelta, StartFull, Start, UploadsDone, Scans,
           Scan, Upload, PushList, FullList, UploadRecorded, UploadMissing,
           UploadCreated, UploadFailed, Take, reads, snapshot
  <2>3. QED BY <2>1, <2>2, OutsideNoted DEF Watching, LinkedLoop
<1>4. CASE UnlinkedPhase
  <2>1. versions' = versions
    BY <1>4 DEF UnlinkedPhase, ListUnlinked, UnlinkedItem, Unlinked,
           UnlinkedDone, reads, snapshot
  <2>2. at' \in {"unlinked", "flush"} /\ buffer'.phase = "unlinked"
    <3>1. CASE ListUnlinked
      BY <3>1 DEF ListUnlinked, Goto, NoBuffer
    <3>2. CASE UnlinkedDone
      BY <3>2 DEF UnlinkedDone, Goto, Loops
    <3>3. ASSUME NEW w \in WavelogIds, UnlinkedItem(w)
          PROVE  at' \in {"unlinked", "flush"} /\ buffer'.phase = "unlinked"
      <4>1. at = "unlinked" /\ buffer.phase = "unlinked" /\ buffer \in Buffers
        BY <3>3 DEF UnlinkedItem, Unlinked, Loops, TypeInv
      <4>2. \/ UNCHANGED <<at, buffer>>
            \/ \E l \in LocalIds : Incoming(l, w)
        BY <3>3 DEF UnlinkedItem, Link, Pull, Matches, FreshIds
      <4>3. CASE UNCHANGED <<at, buffer>>
        BY <4>1, <4>3
      <4>4. ASSUME NEW l \in LocalIds, Incoming(l, w)
            PROVE  at' \in {"unlinked", "flush"} /\ buffer'.phase = "unlinked"
        BY <4>1, <4>4 DEF Incoming, Buffer, Buffers
      <4>5. QED BY <4>2, <4>3, <4>4
    <3>4. QED BY <1>4, <3>1, <3>2, <3>3 DEF UnlinkedPhase
  <2>3. QED BY <2>1, <2>2, OutsideNoted DEF Watching, LinkedLoop, FlushPlaces
<1>5. CASE SyncReconcile \/ Snapshot \/ Fetch
  BY <1>5, SnapshotNoted
<1>6. CASE ListLinked
  BY <1>6, ListLinkedNoted
<1>7. CASE LinkedPhase
  BY <1>7, LinkedNoted, AnsweredNoted DEF LinkedPhase
<1>8. CASE FlushBuffer /\ buffer.phase = "linked"
  BY <1>8, FlushNoted, BaselinesNoted
<1>9. CASE FlushBuffer /\ buffer.phase # "linked" /\ ~WriteFailed
  <2>1. /\ versions' = versions /\ buffer'.phase = buffer.phase
        /\ buffer.phase = "unlinked"
    BY <1>9 DEF FlushBuffer, FilterDeletes, DropRecords, DropFailed,
           ForgetRows, FilterUpserts, Stage, WriteRecords, CommitRows,
           CommitBaselines, Flush, reads, snapshot, TypeInv, Buffers
  <2>2. at' \in FlushPlaces \cup {"unlinked", "lastscan"}
    BY <1>9, <2>1 DEF FlushBuffer, FilterDeletes, DropRecords, DropFailed,
           ForgetRows, FilterUpserts, Stage, WriteRecords, CommitRows,
           CommitBaselines, Flush, Goto, FlushPlaces
  <2>3. QED BY <2>1, <2>2, OutsideNoted DEF Watching, LinkedLoop, FlushPlaces
<1>10. QED
  BY <1>1, <1>2, <1>3, <1>4, <1>5, <1>6, <1>7, <1>8, <1>9
     DEF Next, User, Others, Sync, FullSync

LEMMA NotedInit ==
    Init => Orderly /\ BasedRows /\ OneByOne /\ Noted
<1> SUFFICES ASSUME Init PROVE Orderly /\ BasedRows /\ OneByOne /\ Noted
  OBVIOUS
<1>1. PICK start \in Starts :
         adi = start.adi /\ meta = start.meta /\ remote = start.remote
  BY DEF Init
<1>2. /\ at = "idle" /\ item = None /\ metas = NoLog
      /\ versions = NoVersions
      /\ buffer.upserts = {} /\ buffer.deletes = {} /\ buffer.statuses = {}
      /\ buffer.phase = "linked"
  BY DEF Init, NoBuffer
<1>3. Orderly
  BY <1>2 DEF Orderly, FullPlaces, FlushPlaces
<1>4. BasedRows
  BY <1>1, <1>2, StartsAssumption DEF BasedRows, Based, IsLinked, NoLog
<1>5. ~LinkedLoop
  BY <1>2 DEF LinkedLoop, FlushPlaces
<1>6. OneByOne
  BY <1>2, <1>5 DEF OneByOne, LoopPlaces, FlushPlaces
<1>7. Noted
  BY <1>2, <1>5 DEF Noted, VersionsRead, NoVersions, StagedLate, EarlyRows,
                    AheadRows, Ahead, Unchanged
<1>8. QED BY <1>3, <1>4, <1>6, <1>7

Watched == Orderly /\ BasedRows /\ OneByOne /\ Noted

LEMMA WatchedAlways == Spec => []Watched
<1>1. IInv /\ IInv' /\ Watched /\ [Next]_vars => Watched'
  <2> SUFFICES ASSUME IInv, IInv', Watched, [Next]_vars PROVE Watched'
    OBVIOUS
  <2>1. TypeInv /\ Loops /\ TypeInv'
    BY DEF IInv, Inv
  <2>2. QED
    BY <2>1, OrderlyNext, BasedNext, OneByOneNext, NotedNext DEF Watched
<1>2. Init => Watched
  BY NotedInit DEF Watched
<1>3. QED BY <1>1, <1>2, LinksKeepContacts, PTL DEF Spec

(* The step of the property.                                               *)
EditSurvives(l) ==
    (Passes(l) /\ since[l] = locals[l] /\ ShowsEdits(l)
       /\ adi[l] \notin {None, metas[l].base}) =>
          writer # None /\ writer.id = l

LEMMA EditSurvivesStep ==
    ASSUME TypeInv, Loops, Watched, [Next]_vars, NEW l \in LocalIds
    PROVE  EditSurvives(l)
<1> SUFFICES ASSUME Passes(l), since[l] = locals[l], ShowsEdits(l),
                    adi[l] \notin {None, metas[l].base}
             PROVE  writer # None /\ writer.id = l
  BY DEF EditSurvives
<1>1. FilterDeletes \/ FilterUpserts
  <2>1. /\ at \in {"check", "flush"} /\ at' \in {"stage", "drop"}
    BY DEF Passes
  <2>2. CASE \/ AddQso \/ StartWrite \/ WriteLog \/ WriteMeta
             \/ ResolveConflict \/ LoseRecord \/ RemoteChange
             \/ ResolveFails \/ IndexScan
             \/ RefreshScan \/ RefreshReconcile \/ UNCHANGED vars
    BY <2>1, <2>2 DEF AddQso, StartWrite, WriteLog, WriteMeta,
           ResolveConflict, LoseRecord, RemoteChange, ResolveFails, IndexScan,
           RefreshScan,
           RefreshReconcile, running, vars
  <2>3. CASE \/ StartPush \/ StartDelta \/ StartFull \/ Cancel \/ Crash
             \/ Scans \/ Upload \/ UploadsDone \/ SyncReconcile \/ Snapshot
             \/ Fetch \/ FetchFailed \/ ListLinked \/ LinkedPhase
             \/ UnlinkedPhase \/ Finish
    BY <2>1, <2>3 DEF StartPush, StartDelta, StartFull, Start, Cancel, Crash,
           Stop, Scans, Scan, Upload, PushList, FullList, UploadRecorded,
           UploadMissing, UploadCreated, UploadFailed, Take, UploadsDone,
           SyncReconcile, Snapshot, Fetch, FetchFailed, ListLinked,
           LinkedPhase, LinkedDeletedBoth, LinkedVanished, LinkedConflict,
           LinkedRemoteDeleted, LinkedBothChanged, LinkedRemoteChanged,
           LinkedUnchanged, RemoteDeleted, RemotePatched, RequestFailed,
           Linked, Request, Answered, LinkedDone, UnlinkedPhase, ListUnlinked,
           UnlinkedItem, Unlinked, UnlinkedDone, Finish, Goto, Loops
  <2>4. CASE FlushBuffer
    BY <2>1, <2>4 DEF FlushBuffer, DropRecords, DropFailed, ForgetRows, Stage,
           WriteRecords, WriteFailed, CommitRows, CommitBaselines, Flush, Goto,
           Stop, TypeInv, Buffers
  <2>5. QED BY <2>2, <2>3, <2>4 DEF Next, User, Others, Sync, FullSync
<1>2. /\ ~ChangedDuringSync(l)
      /\ \/ l \in Deleted /\ at = "flush"
         \/ l \in Checked /\ at = "check"
  <2>1. CASE FilterDeletes
    BY <2>1 DEF FilterDeletes, Flush, Passes, Deleted, TypeInv, Buffers
  <2>2. CASE FilterUpserts
    BY <2>2 DEF FilterUpserts, Flush, Passes, Checked, TypeInv, Buffers
  <2>3. QED BY <1>1, <2>1, <2>2
<1>3. LinkedLoop /\ l \in Ahead
  <2>1. buffer.phase = "linked"
    BY <1>2 DEF Watched, OneByOne, Deleted, TypeInv, Buffers
  <2>2. LinkedLoop
    BY <1>2, <2>1 DEF LinkedLoop, FlushPlaces
  <2>3. QED BY <1>2, <2>2 DEF Ahead
<1>4. /\ IsLinked(metas[l]) /\ Aged(meta[l], metas[l])
      /\ NotOlder(metas[l], l) /\ Noticed(l) /\ ~LocalChanged(l)
  BY <1>2, <1>3 DEF Watched, Noted, AheadRows, Unchanged
<1>5. /\ meta[l] # None /\ versions[l] # None
      /\ meta[l].version = versions[l] /\ IsLinked(meta[l])
  BY <1>2, <1>4 DEF ChangedDuringSync, UnchangedSince, Aged
<1>6. /\ metas[l].version = versions[l]
      /\ metas[l].status = meta[l].status /\ metas[l].base = meta[l].base
  <2>1. meta[l] \in Row \cup {None} /\ metas[l] \in Row \cup {None}
    BY DEF TypeInv
  <2>2. QED BY <1>4, <1>5, <2>1, SameVersion DEF Watched, Noted
<1>7. metas[l].status = "synced"
  BY <1>6 DEF ShowsEdits
<1>8. metas[l].base # None /\ metas[l].base = locals[l]
  BY <1>4, <1>7 DEF Watched, BasedRows, Based, LocalChanged
<1>9. adi[l] \in {None, since[l]} \/ EditSaved(l)
  BY <1>4, <1>5, <1>6, <1>7, <1>8 DEF Noticed
<1>10. QED BY <1>8, <1>9 DEF EditSaved

(* An edit that has reached the metadata when a full sync filters what it  *)
(* is about to overwrite or delete (SyncWriteBuffer.flush) is not lost, if *)
(* none fell between the scan of the log and the snapshot of the versions, *)
(* and the row shows edits: whatever the user, the refreshes, crashes and  *)
(* failures do meanwhile.                                                  *)
THEOREM RecordedEditsAreKept == Spec => RecordedEditsSurvive
<1>1. IInv /\ Watched /\ [Next]_vars =>
         [\A l \in LocalIds : EditSurvives(l)]_vars
  <2> SUFFICES ASSUME IInv, Watched, [Next]_vars
               PROVE  \A l \in LocalIds : EditSurvives(l)
    OBVIOUS
  <2>1. TypeInv /\ Loops
    BY DEF IInv, Inv
  <2>2. QED BY <2>1, EditSurvivesStep
<1>2. (\A l \in LocalIds : EditSurvives(l)) <=>
      (\A l \in LocalIds :
          (Passes(l) /\ since[l] = locals[l] /\ ShowsEdits(l)
             /\ adi[l] \notin {None, metas[l].base}) =>
                writer # None /\ writer.id = l)
  BY DEF EditSurvives
<1>3. QED
  BY <1>1, <1>2, WatchedAlways, LinksKeepContacts, PTL
     DEF Spec, RecordedEditsSurvive
=============================================================================
