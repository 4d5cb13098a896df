------------------------------- MODULE QslCards -------------------------------
(***************************************************************************)
(* QSL cards: mapping the QSOs of the log to the qsoUids of the card       *)
(* server, checking recipients, refreshing the cached states and sending   *)
(* mail, by a background worker, the manual sync and a mail worker that    *)
(* share the tables of one profile.  Simplifications:                      *)
(*  - the content of a QSO is what makes up its qsoUid, the rest of what   *)
(*    is uploaded, and whether the client can prepare it for the upload;   *)
(*  - the connection key is configured; the profile does not change (see   *)
(*    AppLifecycle); motifs, rendering and card files are left out;        *)
(*  - a background run refreshes every state that is missing or due, not   *)
(*    only the first QSL_STATUS_REFRESH_LIMIT of them.                     *)
(***************************************************************************)
EXTENDS Integers, FiniteSets, SequencesExt, FiniteSetsExt

CONSTANTS Ids,               \* local ids
          ContentsOf,        \* what the QSO of an id may look like
          Uids,              \* qsoUids, one per identity of a QSO
          Recipient,         \* what the server finds out about a recipient
          UpsertBatch,       \* QSOs per upload
          RecipientLimit,    \* recipient checks per run
          None, Deleted,
          MaxOps,            \* bound: operations of the user
          MaxFaults          \* bound: requests that fail, and crashes

ASSUME ContentsAssumption ==
    /\ IsFiniteSet(Ids) /\ None # Deleted /\ None \notin Uids
    /\ \A id \in Ids : \A content \in ContentsOf[id] :
          content \notin {None, Deleted} /\ content.identity \in Uids

VARIABLES
    log,                     \* QSO of an id, None before and Deleted after
    mapping,                 \* da6it_qsl_mapping: qsoUid of an id, or None
    fingerprint,             \* da6it_qsl_sync_state: content last uploaded
    actions,                 \* da6it_qsl_pending_action: recipient checks
    shown,                   \* da6it_qsl_status_cache: mail state per qsoUid
    due,                     \* qsoUids whose cached state is old
    job,                     \* the background timer is set
    sync,                    \* background or manual sync worker
    mail,                    \* mail worker
    followUp,                \* qsoUids to look at once after a batch
    cards, mails,            \* the server: content and mail state
    ordered, confirmed,      \* mails the mail worker has ordered, and may
    overlapped,              \* history: ids two workers uploaded at once
    inDoubt,                 \* history: ids uploaded and not yet marked
    astray,                  \* history: those among them changed meanwhile
    ops, faults

storage == <<mapping, fingerprint, actions, shown, due>>
workers == <<job, sync, mail, followUp>>
server == <<cards, mails, ordered>>
history == <<confirmed, overlapped, inDoubt, astray>>
bounds == <<ops, faults>>
vars == <<log, storage, workers, server, history, bounds>>

NoSync == [kind |-> "idle", pc |-> "idle", scanned |-> [id \in Ids |-> None],
           todo |-> {}, batch |-> {}, ready |-> <<>>]
NoMail == [kind |-> "idle", pc |-> "idle", waiting |-> <<>>, prepared |-> {}, uid |-> None]

Logged(id) == log[id] \notin {None, Deleted}

UidOf(content) == content.identity

Init ==
    /\ log = [id \in Ids |-> None]
    /\ mapping = [id \in Ids |-> None] /\ fingerprint = [id \in Ids |-> None]
    /\ actions = <<>>
    /\ shown = [u \in Uids |-> None] /\ due = {}
    /\ job = TRUE /\ sync = NoSync /\ mail = NoMail /\ followUp = {}
    /\ cards = [u \in Uids |-> None] /\ mails = [u \in Uids |-> "none"]
    /\ ordered = 0 /\ confirmed = 0 /\ overlapped = {} /\ inDoubt = {} /\ astray = {}
    /\ ops = 0 /\ faults = 0

-----------------------------------------------------------------------------
(* Requests: executed counts how often the server has done the work.       *)

RequestOnce ==
    {[executed |-> 1, result |-> "ok"], [executed |-> 1, result |-> "error"],
     [executed |-> 0, result |-> "error"], [executed |-> 0, result |-> "refused"]}

RepeatAnyError ==
    {r \in RequestOnce : r.result = "ok"} \union
    {[executed |-> a.executed + b.executed, result |-> b.result] :
        a \in {r \in RequestOnce : r.result # "ok"}, b \in RequestOnce}

(* A refused connection key is tried again in the other header.            *)
RequestJson ==
    {r \in RequestOnce : r.result # "refused"} \union
    {[executed |-> a.executed + b.executed, result |-> b.result] :
        a \in {r \in RequestOnce : r.result = "refused"}, b \in RequestOnce}

Fault == faults < MaxFaults /\ faults' = faults + 1

Request(r) ==
    /\ r \in RequestJson
    /\ IF r.result = "ok" THEN UNCHANGED faults ELSE Fault
    /\ UNCHANGED ops

-----------------------------------------------------------------------------
(* QslStorage.                                                             *)

(* One qsoUid per QSO and one QSO per qsoUid; checks that waited for the   *)
(* qsoUid get it.                                                          *)
BindQsoUid(id, uid) ==
    /\ mapping' = [l \in Ids |-> IF l = id THEN uid
                                 ELSE IF mapping[l] = uid THEN None ELSE mapping[l]]
    /\ actions' = [i \in DOMAIN actions |->
                     IF actions[i].id = id /\ actions[i].uid = None
                     THEN [actions[i] EXCEPT !.uid = uid] ELSE actions[i]]

SetStatusSnapshots(uids) ==
    /\ shown' = [u \in Uids |-> IF u \in uids THEN mails[u] ELSE shown[u]]
    /\ due' = due \ uids

QueueRecipientCheck(id) ==
    actions' = IF \E i \in DOMAIN actions : actions[i].id = id THEN actions
               ELSE Append(actions, [id |-> id, uid |-> mapping[id]])

CompleteAction(action) ==
    actions' = SelectSeq(actions, LAMBDA a : a # action)

StatusRefreshCandidates ==
    {mapping[id] : id \in {l \in Ids : mapping[l] # None}}
        \intersect ({u \in Uids : shown[u] = None} \union due)

(* The QSOs the sync may yet upload or mark as it has scanned them, and    *)
(* the one the mail worker has uploaded and not yet marked.                *)
Scanned(worker) == {id \in Ids : worker.scanned[id] # None}
MailUnmarked ==
    IF mail.pc = "map" THEN {Head(mail.waiting).id} ELSE {}

Uploaded(qsos) ==
    /\ inDoubt' = inDoubt \union {q.id : q \in qsos}
    /\ astray' = astray \union {q.id : q \in {q \in qsos : log[q.id] # q.content}}

Known(id) == inDoubt' = inDoubt \ {id} /\ astray' = astray \ {id}

-----------------------------------------------------------------------------
(* The sync workers: run_qsl_background_sync and the manual sync.          *)

Prepared(content) == content.valid

UnmappedQsos(kind, scanned) ==
    {id \in Ids : /\ scanned[id] # None
                  /\ kind = "manual" \/ mapping[id] = None}

(* qso_sync_candidates; the manual sync sends everything.                  *)
QsoSyncCandidates(kind, scanned) ==
    {id \in Ids : /\ scanned[id] # None
                  /\ \/ kind = "manual"
                     \/ mapping[id] = None
                     \/ fingerprint[id] # scanned[id]}

(* After the uploads the scan is forgotten.                                *)
SyncAt(pc) == sync' = [NoSync EXCEPT !.kind = sync.kind, !.pc = pc]

(* An error of the upload ends the manual sync, not the background run.    *)
AfterError == IF sync.kind = "background" THEN "recipients" ELSE "failed"

(* The worker scans the log, and contacts the server before anything else. *)
StartWorker(kind) ==
    sync' = [NoSync EXCEPT !.kind = kind, !.pc = "bootstrap",
               !.scanned = [id \in Ids |-> IF Logged(id) THEN log[id] ELSE None]]

StartQslBackgroundSync ==
    /\ job /\ sync.kind = "idle" /\ mail.kind = "idle"
    /\ job' = FALSE
    /\ StartWorker("background")
    /\ UNCHANGED <<log, storage, mail, followUp, server, history, bounds>>

SyncQslNow ==
    /\ sync.kind = "idle"
    /\ ops < MaxOps /\ ops' = ops + 1
    /\ StartWorker("manual")
    /\ UNCHANGED <<log, storage, job, mail, followUp, server, history, faults>>

(* A single QSO that cannot be prepared fails the upload of all.           *)
Bootstrap ==
    /\ sync.pc = "bootstrap"
    /\ \E r \in RequestJson :
         LET todo == QsoSyncCandidates(sync.kind, sync.scanned)
         IN  /\ Request(r)
             /\ IF r.result # "ok" \/ (sync.kind = "manual" /\ Scanned(sync) = {})
                THEN SyncAt("failed")
                ELSE IF \E id \in Scanned(sync) : ~Prepared(sync.scanned[id])
                THEN SyncAt(AfterError)
                ELSE IF todo = {} THEN SyncAt("recipients")
                ELSE sync' = [sync EXCEPT !.todo = todo, !.pc = "upload"]
    /\ UNCHANGED <<log, storage, job, mail, followUp, server, history>>

(* The server stores what is sent under the qsoUid of its identity.        *)
StoreCards(contents) ==
    cards' = [u \in Uids |->
                IF \E c \in contents : UidOf(c) = u
                THEN CHOOSE c \in contents : UidOf(c) = u ELSE cards[u]]

UploadBatch ==
    /\ sync.pc = "upload"
    /\ \E batch \in SUBSET sync.todo, r \in RequestJson :
         /\ Cardinality(batch) = Min({Cardinality(sync.todo), UpsertBatch})
         /\ Request(r)
         /\ IF r.executed = 0 THEN UNCHANGED <<cards, overlapped, inDoubt, astray>>
            ELSE /\ StoreCards({sync.scanned[id] : id \in batch})
                 /\ overlapped' = overlapped \union (batch \intersect MailUnmarked)
                 /\ Uploaded({[id |-> id, content |-> sync.scanned[id]] : id \in batch})
         /\ IF r.result = "ok"
            THEN sync' = [sync EXCEPT !.todo = @ \ batch, !.batch = batch, !.pc = "map"]
            ELSE SyncAt(AfterError)
    /\ UNCHANGED <<log, storage, job, mail, followUp, mails, ordered, confirmed>>

(* map_upsert_response: bind, then mark as uploaded, one commit each.      *)
MapRecord ==
    /\ sync.pc = "map"
    /\ \E id \in sync.batch :
         /\ BindQsoUid(id, UidOf(sync.scanned[id]))
         /\ sync' = [sync EXCEPT !.ready = <<id>>, !.pc = "mark"]
    /\ UNCHANGED <<log, fingerprint, shown, due, job, mail, followUp, server, history, bounds>>

(* What is marked is what was sent, not what the log holds by now.         *)
MarkWhatIsLogged(id, uploaded) == fingerprint' = [fingerprint EXCEPT ![id] = log[id]]

MarkUploaded(id, uploaded) == fingerprint' = [fingerprint EXCEPT ![id] = uploaded]

MarkRecord ==
    /\ sync.pc = "mark"
    /\ LET id == Head(sync.ready)
           rest == sync.batch \ {id}
       IN  /\ MarkUploaded(id, sync.scanned[id])
           /\ SetStatusSnapshots({UidOf(sync.scanned[id])})
           /\ Known(id)
           /\ IF rest = {} /\ sync.todo = {} THEN SyncAt("recipients")
              ELSE sync' = [sync EXCEPT !.ready = <<>>, !.batch = rest,
                              !.pc = IF rest # {} THEN "map" ELSE "upload"]
    /\ UNCHANGED <<log, mapping, actions, job, mail, followUp, server,
                   confirmed, overlapped, bounds>>

(* The first of all checks, those among them that have a qsoUid.           *)
ReadyAmongFirst ==
    SelectSeq(SubSeq(actions, 1, Min({Len(actions), RecipientLimit})), LAMBDA a : a.uid # None)

(* resolve_pending_recipients: the oldest checks that have a qsoUid.       *)
ReadyChecks ==
    LET ready == SelectSeq(actions, LAMBDA a : a.uid # None)
    IN  SubSeq(ready, 1, Min({Len(ready), RecipientLimit}))

AfterChecks == IF sync.kind = "background" THEN "status" ELSE "ok"

PendingRecipients ==
    /\ sync.pc = "recipients"
    /\ sync' = [sync EXCEPT !.ready = ReadyChecks,
                  !.pc = IF ReadyChecks = <<>> THEN AfterChecks ELSE "lookup"]
    /\ UNCHANGED <<log, storage, job, mail, followUp, server, history, bounds>>

(* A check that fails stays; one without a recipient is over.              *)
QrzRecipient ==
    /\ sync.pc = "lookup"
    /\ LET check == Head(sync.ready)
       IN  \E qrz, status \in RequestJson :
             IF qrz.result # "ok"
             THEN /\ Request(qrz) /\ UNCHANGED <<actions, shown, due>>
             ELSE IF Recipient[check.uid] = "error"
             THEN UNCHANGED <<actions, shown, due, bounds>>
             ELSE /\ Request(status)
                  /\ IF status.result = "ok" THEN SetStatusSnapshots({check.uid})
                     ELSE UNCHANGED <<shown, due>>
                  /\ IF status.result = "ok" \/ Recipient[check.uid] = "not_found"
                     THEN CompleteAction(check) ELSE UNCHANGED actions
    /\ sync' = [sync EXCEPT !.ready = Tail(@),
                  !.pc = IF Len(sync.ready) = 1 THEN AfterChecks ELSE "lookup"]
    /\ UNCHANGED <<log, mapping, fingerprint, job, mail, followUp, server, history>>

RefreshStatusSnapshots ==
    /\ sync.pc = "status"
    /\ IF StatusRefreshCandidates = {} THEN UNCHANGED <<shown, due, bounds>>
       ELSE \E r \in RequestJson :
              /\ Request(r)
              /\ IF r.result = "ok" THEN SetStatusSnapshots(StatusRefreshCandidates)
                 ELSE UNCHANGED <<shown, due>>
    /\ SyncAt("ok")
    /\ UNCHANGED <<log, mapping, fingerprint, actions, job, mail, followUp, server, history>>

(* The handlers of the main thread: a background run sets the next timer.  *)
QslSyncHandled ==
    /\ sync.pc \in {"ok", "failed"}
    /\ job' = (job \/ sync.kind = "background")
    /\ sync' = NoSync
    /\ UNCHANGED <<log, storage, mail, followUp, server, history, bounds>>

-----------------------------------------------------------------------------
(* The mail worker: one QSO, or several for the queue of the server.       *)

StartMail(kind, pc, ids) ==
    /\ mail.kind = "idle"
    /\ \A id \in ids : Logged(id)
    /\ ops < MaxOps /\ ops' = ops + 1
    /\ confirmed' = Cardinality(ids)
    /\ \E order \in SetToSeqs({[id |-> id, content |-> log[id]] : id \in ids}) :
         mail' = [NoMail EXCEPT !.kind = kind, !.pc = pc, !.waiting = order]
    /\ UNCHANGED <<log, storage, job, sync, followUp, server, overlapped, inDoubt, astray>>

SendSelectedQslEmail(id) == StartMail("single", "ensure", {id}) /\ UNCHANGED faults

(* A batch asks the server for its limit first and ends without an answer, *)
(* or with more QSOs than the server takes.                                *)
QueueSelectedQslEmails(ids) ==
    /\ Cardinality(ids) > 1
    /\ \/ StartMail("batch", "ensure", ids) /\ UNCHANGED faults
       \/ StartMail("batch", "failed", ids) /\ Fault

Qso == Head(mail.waiting)
MailAt(pc) == mail' = [mail EXCEPT !.pc = pc]
MailEnds(pc) == mail' = [NoMail EXCEPT !.kind = mail.kind, !.pc = pc, !.prepared = mail.prepared]

(* A batch goes on with the next QSO, and fails if none could be prepared. *)
NextOfBatch(prepared) ==
    mail' = [mail EXCEPT !.waiting = Tail(@), !.prepared = prepared, !.uid = None,
               !.pc = IF Len(mail.waiting) > 1 THEN "ensure"
                      ELSE IF prepared = {} THEN "failed" ELSE "queue"]

GiveUpQso == IF mail.kind = "single" THEN MailEnds("failed") ELSE NextOfBatch(mail.prepared)

(* ensure_qso_uid: a QSO without qsoUid is uploaded first, whatever the    *)
(* sync workers are doing.                                                 *)
EnsureQsoUid ==
    /\ mail.pc = "ensure"
    /\ IF mapping[Qso.id] # None
       THEN /\ mail' = [mail EXCEPT !.uid = mapping[Qso.id], !.pc = "prepare"]
            /\ UNCHANGED <<cards, overlapped, inDoubt, astray, bounds>>
       ELSE IF ~Prepared(Qso.content) THEN GiveUpQso /\ UNCHANGED <<cards, overlapped, inDoubt, astray, bounds>>
       ELSE \E r \in RequestJson :
              /\ Request(r)
              /\ IF r.executed = 0 THEN UNCHANGED <<cards, overlapped, inDoubt, astray>>
                 ELSE /\ StoreCards({Qso.content})
                      /\ Uploaded({Qso})
                      /\ overlapped' = overlapped \union ({Qso.id} \intersect Scanned(sync))
              /\ IF r.result = "ok" THEN MailAt("map") ELSE GiveUpQso
    /\ UNCHANGED <<log, storage, job, sync, followUp, mails, ordered, confirmed>>

(* The two commits of the answer in one step; MapRecord has them apart.    *)
MapForMail ==
    /\ mail.pc = "map"
    /\ BindQsoUid(Qso.id, UidOf(Qso.content))
    /\ MarkUploaded(Qso.id, Qso.content)
    /\ SetStatusSnapshots({UidOf(Qso.content)})
    /\ Known(Qso.id)
    /\ mail' = [mail EXCEPT !.uid = UidOf(Qso.content), !.pc = "prepare"]
    /\ UNCHANGED <<log, job, sync, followUp, server, confirmed, overlapped, bounds>>

(* Recipient check (one QSO only), card, and a look at the state, without  *)
(* which one QSO is not sent, but a batch goes on.                         *)
PrepareCard ==
    /\ mail.pc = "prepare"
    /\ \E card, status \in RequestJson :
         LET wanted == mail.kind = "batch" \/ Recipient[mail.uid] = "email"
             done == IF card.result # "ok" THEN card ELSE status
         IN  /\ Request(done)
             /\ IF done = status /\ status.result = "ok" /\ wanted
                THEN SetStatusSnapshots({mail.uid}) ELSE UNCHANGED <<shown, due>>
             /\ IF card.result # "ok" \/ ~wanted THEN GiveUpQso
                ELSE IF mail.kind = "batch" THEN NextOfBatch(mail.prepared \union {mail.uid})
                ELSE IF status.result = "ok" THEN MailAt("send") ELSE MailEnds("failed")
    /\ UNCHANGED <<log, mapping, fingerprint, actions, job, sync, followUp, server, history>>

(* send_single_qsl, mail/send: the answer may be lost after the mail left. *)
MailSend ==
    /\ mail.pc = "send"
    /\ \E r \in RequestJson :
         /\ Request(r)
         /\ ordered' = ordered + r.executed
         /\ mails' = IF r.executed > 0 THEN [mails EXCEPT ![mail.uid] = "sent"] ELSE mails
         /\ IF r.result = "ok" THEN MailAt("refresh") ELSE MailEnds("failed")
    /\ UNCHANGED <<log, storage, job, sync, followUp, cards, history>>

RefreshAfterSend ==
    /\ mail.pc = "refresh"
    /\ \E r \in RequestJson :
         /\ Request(r)
         /\ IF r.result = "ok" THEN SetStatusSnapshots({mail.uid}) /\ MailEnds("ok")
            ELSE UNCHANGED <<shown, due>> /\ MailEnds("failed")
    /\ UNCHANGED <<log, mapping, fingerprint, actions, job, sync, followUp, server, history>>

(* queue_qsl_batch, mail/queue.                                            *)
MailQueue ==
    /\ mail.pc = "queue"
    /\ \E r \in RequestJson :
         /\ Request(r)
         /\ ordered' = ordered + r.executed * Cardinality(mail.prepared)
         /\ mails' = [u \in Uids |-> IF r.executed > 0 /\ u \in mail.prepared
                                        /\ Recipient[u] = "email" /\ mails[u] # "sent"
                                     THEN "queued" ELSE mails[u]]
         /\ MailEnds(IF r.result = "ok" THEN "ok" ELSE "failed")
    /\ UNCHANGED <<log, storage, job, sync, followUp, cards, history>>

MailHandled ==
    /\ mail.pc \in {"ok", "failed"}
    /\ followUp' = IF mail.kind = "batch" /\ mail.pc = "ok" THEN mail.prepared ELSE followUp
    /\ mail' = NoMail /\ ordered' = 0 /\ confirmed' = 0
    /\ UNCHANGED <<log, storage, job, sync, cards, mails, overlapped, inDoubt, astray, bounds>>

(* One look at the queue after a batch, never repeated.                    *)
QslCheckQueueOnce ==
    /\ followUp # {}
    /\ \E r \in RequestJson :
         /\ Request(r)
         /\ IF r.result = "ok" THEN SetStatusSnapshots(followUp) ELSE UNCHANGED <<shown, due>>
    /\ followUp' = {}
    /\ UNCHANGED <<log, mapping, fingerprint, actions, job, sync, mail, server, history>>

-----------------------------------------------------------------------------
(* The user, the server and the clock.                                     *)

UserOp == ops < MaxOps /\ ops' = ops + 1 /\ UNCHANGED faults

(* save_qso: a QSO of the form also queues a check and starts the timer.   *)
SaveQso(id) ==
    /\ log[id] = None /\ UserOp
    /\ \E content \in ContentsOf[id] : log' = [log EXCEPT ![id] = content]
    /\ QueueRecipientCheck(id)
    /\ job' = TRUE
    /\ UNCHANGED <<mapping, fingerprint, shown, due, sync, mail, followUp, server, history>>

(* A QSO of an import, and an edit or a deletion in the logbook, do not.   *)
ImportOrEditQso(id) ==
    /\ log[id] # Deleted /\ UserOp
    /\ \E content \in ContentsOf[id] \ {log[id]} : log' = [log EXCEPT ![id] = content]
    /\ astray' = astray \union ({id} \intersect inDoubt)
    /\ UNCHANGED <<storage, workers, server, confirmed, overlapped, inDoubt>>

DeleteQso(id) ==
    /\ Logged(id) /\ UserOp
    /\ log' = [log EXCEPT ![id] = Deleted]
    /\ UNCHANGED <<storage, workers, server, history>>

ServerSendsQueuedMail(uid) ==
    /\ mails[uid] = "queued"
    /\ mails' = [mails EXCEPT ![uid] = "sent"]
    /\ UNCHANGED <<log, storage, workers, cards, ordered, history, bounds>>

StatusesGetOld ==
    /\ due' = {uid \in Uids : shown[uid] # None} /\ due' # due
    /\ UNCHANGED <<log, mapping, fingerprint, actions, shown, workers, server, history, bounds>>

(* The tables survive; the start sets the timer.                           *)
Crash ==
    /\ sync.kind # "idle" \/ mail.kind # "idle"
    /\ Fault
    /\ job' = TRUE /\ sync' = NoSync /\ mail' = NoMail /\ followUp' = {}
    /\ ordered' = 0 /\ confirmed' = 0
    /\ UNCHANGED <<log, storage, cards, mails, overlapped, inDoubt, astray, ops>>

-----------------------------------------------------------------------------
SyncStep ==
    \/ Bootstrap \/ UploadBatch \/ MapRecord \/ MarkRecord \/ PendingRecipients
    \/ QrzRecipient \/ RefreshStatusSnapshots \/ QslSyncHandled

MailStep ==
    \/ EnsureQsoUid \/ MapForMail \/ PrepareCard \/ MailSend
    \/ RefreshAfterSend \/ MailQueue \/ MailHandled

Next ==
    \/ StartQslBackgroundSync \/ SyncStep \/ MailStep \/ QslCheckQueueOnce
    \/ \E uid \in Uids : ServerSendsQueuedMail(uid)
    \/ StatusesGetOld
    \/ SyncQslNow
    \/ \E ids \in SUBSET Ids : QueueSelectedQslEmails(ids)
    \/ \E id \in Ids : SendSelectedQslEmail(id)
    \/ \E id \in Ids : SaveQso(id) \/ ImportOrEditQso(id) \/ DeleteQso(id)
    \/ Crash

(* Workers end, since their requests time out; the timer fires, the queue  *)
(* of the server is worked off and cached states get old.                  *)
Fairness ==
    /\ WF_vars(StartQslBackgroundSync) /\ WF_vars(SyncStep) /\ WF_vars(MailStep)
    /\ WF_vars(\E uid \in Uids : ServerSendsQueuedMail(uid))
    /\ WF_vars(StatusesGetOld)

Spec == Init /\ [][Next]_vars /\ Fairness

-----------------------------------------------------------------------------
(* Properties.                                                             *)

(* Three things go wrong (see the README) and are left out: two uploads of *)
(* one QSO at the same time, an upload the server has stored and the       *)
(* client does not know about, while the QSO is changed back, and a        *)
(* contact that is in the log twice.                                       *)
Contacts(id) == {UidOf(content) : content \in ContentsOf[id]}

Undisturbed(id) ==
    /\ id \notin overlapped \union astray
    /\ \A other \in Ids \ {id} : Contacts(id) \intersect Contacts(other) = {}

OnServer(id) ==
    mapping[id] = UidOf(log[id]) /\ cards[mapping[id]] = log[id]

(* A QSO the background run takes for uploaded is on the server as it is   *)
(* in the log, under its own qsoUid (qsl_background.py:144).               *)
UploadMarksAreTrue ==
    \A id \in Ids :
        /\ Logged(id) /\ Undisturbed(id)
        /\ mapping[id] # None /\ fingerprint[id] = log[id]
        => OnServer(id)

(* A single QSO that cannot be prepared keeps all others from the server   *)
(* (qsl_qso.py:212): "A newly logged QSO is automatically added to the QSL *)
(* system and receives its qsoUid" (docs/en/USER_GUIDE.md:184) is not true *)
(* of the others either, as long as there is one.                          *)
AllPrepared == \A id \in Ids : Logged(id) => Prepared(log[id])

(* If every QSO of the log can be prepared, each is in the end on the      *)
(* server with its last content; and a mail the server has sent is shown   *)
(* as sent in any case (docs/en/USER_GUIDE.md:184, 155).                   *)
QslStateSettles ==
    <>[](/\ AllPrepared => \A id \in Ids : Logged(id) /\ Undisturbed(id) => OnServer(id)
         /\ \A id \in Ids : mapping[id] # None /\ mails[mapping[id]] = "sent"
                             => shown[mapping[id]] = "sent")

(* A check whose lookup always fails stays at its place in the list, and   *)
(* as many of them as a run takes keep all later checks from their turn.   *)
AlwaysFails(check) == check.uid # None /\ Recipient[check.uid] = "error"

Starved(i) ==
    Cardinality({j \in 1..(i - 1) : AlwaysFails(actions[j])}) >= RecipientLimit

(* The recipient check of a QSO of the log ends, but for those; checks     *)
(* that wait for a qsoUid do not keep others waiting (qsl_recipient.py:129).*)
RecipientChecksEnd ==
    <>[](AllPrepared =>
           \A i \in DOMAIN actions :
              Logged(actions[i].id) => AlwaysFails(actions[i]) \/ (actions[i].uid # None /\ Starved(i)))

(* Every mail was confirmed by the user, one mail per confirmation         *)
(* (docs/en/USER_GUIDE.md:190).                                            *)
OneMailPerConfirmation == ordered <= confirmed
===============================================================================
