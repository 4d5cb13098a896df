---------------------------- MODULE QslCards_proofs ----------------------------
(***************************************************************************)
(* A QSO that is marked as uploaded is on the server as it is in the log,  *)
(* and no mail leaves that nobody confirmed: for any QSOs, batch sizes,    *)
(* edits, failures and crashes.                                            *)
(***************************************************************************)
EXTENDS QslCards, FiniteSetTheorems, SequenceTheorems, TLAPS

AllContents == UNION {ContentsOf[id] : id \in Ids}

(* What the mail worker was given: QSOs as they were in the log.           *)
Entries == UNION {[id : {id}, content : ContentsOf[id]] : id \in Ids}

SyncStages == {"idle", "bootstrap", "upload", "map", "mark", "recipients", "lookup", "status",
               "ok", "failed"}
MailStages == {"idle", "ensure", "map", "prepare", "send", "refresh", "queue", "ok", "failed"}

(* What ready holds depends on the stage, see StagesInv.                   *)
Syncs(ready) ==
    [kind : {"idle", "background", "manual"}, pc : SyncStages,
     scanned : [Ids -> AllContents \union {None}], todo : SUBSET Ids, batch : SUBSET Ids,
     ready : {ready}]

Mails == [kind : {"idle", "single", "batch"},
          pc : MailStages,
          waiting : Seq(Entries), prepared : SUBSET (Uids \union {None}),
          uid : Uids \union {None}]

TypeInv ==
    /\ log \in [Ids -> AllContents \union {None, Deleted}]
    /\ mapping \in [Ids -> Uids \union {None}]
    /\ fingerprint \in [Ids -> AllContents \union {None}]
    /\ cards \in [Uids -> AllContents \union {None}]
    /\ sync \in Syncs(sync.ready) /\ mail \in Mails
    /\ confirmed \in Nat /\ ordered \in Nat

(* A content is always one of the QSO it belongs to; a QSO that was never  *)
(* logged has left no trace.                                               *)
RowInv(id) ==
    /\ log[id] \in ContentsOf[id] \union {None, Deleted}
    /\ fingerprint[id] \in ContentsOf[id] \union {None}
    /\ sync.scanned[id] \in ContentsOf[id] \union {None}
    /\ log[id] = None =>
         /\ mapping[id] = None /\ fingerprint[id] = None /\ id \notin inDoubt
         /\ sync.scanned[id] = None
         /\ \A i \in 1 .. Len(mail.waiting) : mail.waiting[i].id # id

StagesInv ==
    /\ sync.todo \union sync.batch \subseteq Scanned(sync)
    /\ sync.pc = "mark" => \E id \in sync.batch : sync.ready = <<id>>
    /\ mail.kind = "idle" => mail.pc = "idle"
    /\ mail.pc \in {"ensure", "map", "prepare"} => mail.waiting # <<>>

(* What a worker has uploaded and not yet marked.                          *)
SyncHolds(id) == sync.pc \in {"map", "mark"} /\ id \in sync.batch
MailHolds(id) == mail.pc = "map" /\ Qso.id = id

(* The log has what was uploaded, or is known to have changed since.       *)
Unchanged(id, content) == log[id] \in {content, Deleted} \/ id \in astray

HeldInv(id) ==
    /\ SyncHolds(id) =>
         /\ id \in inDoubt /\ ~MailHolds(id)
         /\ cards[UidOf(sync.scanned[id])] = sync.scanned[id]
         /\ Unchanged(id, sync.scanned[id])
         /\ sync.pc = "mark" /\ sync.ready = <<id>> => mapping[id] = UidOf(sync.scanned[id])
    /\ MailHolds(id) =>
         /\ id \in inDoubt
         /\ cards[UidOf(Qso.content)] = Qso.content
         /\ Unchanged(id, Qso.content)

(* A QSO in doubt is on the server as it is in the log, any other as it    *)
(* was marked; it is bound to the contact that was marked, or to the one   *)
(* it is about to be marked as.                                            *)
MarkInv(id) ==
    /\ id \in inDoubt \ astray /\ Logged(id) => cards[UidOf(log[id])] = log[id]
    /\ id \notin inDoubt /\ fingerprint[id] # None =>
         cards[UidOf(fingerprint[id])] = fingerprint[id]
    /\ Logged(id) /\ id \notin astray /\ mapping[id] # None /\ fingerprint[id] # None =>
         \/ mapping[id] = UidOf(fingerprint[id])
         \/ id \in inDoubt /\ mapping[id] = UidOf(log[id])

Apart(id) == \A other \in Ids \ {id} : Contacts(id) \intersect Contacts(other) = {}

MarksInv ==
    /\ astray \subseteq inDoubt
    /\ \A id \in Ids : Apart(id) /\ id \notin overlapped => HeldInv(id) /\ MarkInv(id)

(* What is still to be prepared counts as ordered: a batch never grows.    *)
OrderInv ==
    /\ IsFiniteSet(mail.prepared)
    /\ mail.kind = "idle" => ordered = 0
    /\ mail.pc \in {"ensure", "map", "prepare"} =>
         ordered = 0 /\ Cardinality(mail.prepared) + Len(mail.waiting) <= confirmed
    /\ mail.pc = "queue" => ordered = 0 /\ Cardinality(mail.prepared) <= confirmed
    /\ mail.pc = "send" => ordered = 0 /\ 1 <= confirmed
    /\ OneMailPerConfirmation

IInv == /\ TypeInv /\ (\A id \in Ids : RowInv(id)) /\ StagesInv /\ MarksInv /\ OrderInv

-----------------------------------------------------------------------------
(* Requests and sequences.                                                 *)

(* The server has done the work of a request once, or not at all. *)
LEMMA RequestTypes ==
    ASSUME NEW r \in RequestJson
    PROVE  /\ r.executed \in {0, 1}
           /\ r.result = "ok" => r.executed = 1
<1>1. \A a \in RequestOnce : a.executed \in {0, 1} /\ (a.result = "ok" => a.executed = 1)
  BY DEF RequestOnce
<1>2. \A a \in RequestOnce : a.result = "refused" => a.executed = 0
  BY DEF RequestOnce
<1>3. CASE r \in RequestOnce
  BY <1>1, <1>3
<1>4. CASE r \notin RequestOnce
  <2>1. PICK a \in {x \in RequestOnce : x.result = "refused"}, b \in RequestOnce :
          r = [executed |-> a.executed + b.executed, result |-> b.result]
    BY <1>4 DEF RequestJson
  <2>2. a.executed = 0 /\ b.executed \in {0, 1}
    BY <1>1, <1>2
  <2>3. r.executed = b.executed /\ r.result = b.result
    BY <2>1, <2>2
  <2>4. QED BY <1>1, <2>3
<1>5. QED BY <1>3, <1>4

(* Contents are QSOs with a contact. *)
LEMMA EntryTypes ==
    /\ \A id \in Ids : \A c \in ContentsOf[id] :
          c \in AllContents /\ UidOf(c) \in Uids /\ c # None /\ c # Deleted
    /\ \A q \in Entries : q.id \in Ids /\ q.content \in ContentsOf[q.id]
    /\ \A id \in Ids : \A c \in ContentsOf[id] : [id |-> id, content |-> c] \in Entries
    /\ \A c \in AllContents : UidOf(c) \in Uids /\ c # None /\ c # Deleted
<1>1. \A id \in Ids : \A c \in ContentsOf[id] :
          c \in AllContents /\ UidOf(c) \in Uids /\ c # None /\ c # Deleted
  BY ContentsAssumption DEF AllContents, UidOf
<1>2. \A q \in Entries : q.id \in Ids /\ q.content \in ContentsOf[q.id]
  BY DEF Entries
<1>3. ASSUME NEW id \in Ids, NEW c \in ContentsOf[id]
      PROVE  [id |-> id, content |-> c] \in Entries
  <2>1. [id |-> id, content |-> c] \in [id : {id}, content : ContentsOf[id]]
    OBVIOUS
  <2>2. QED BY <2>1 DEF Entries
<1>4. QED BY <1>1, <1>2, <1>3 DEF AllContents

(* Other QSOs have other contacts. *)
LEMMA OtherContacts ==
    ASSUME NEW id \in Ids, Apart(id), NEW other \in Ids, other # id,
           NEW c \in ContentsOf[id], NEW d \in ContentsOf[other]
    PROVE  UidOf(c) # UidOf(d)
<1>1. UidOf(c) \in Contacts(id) /\ UidOf(d) \in Contacts(other)
  BY DEF Contacts
<1>2. QED BY <1>1 DEF Apart

(* The order of a set of n elements has length n. *)
LEMMA OrderOf ==
    ASSUME NEW S, IsFiniteSet(S), NEW order \in SetToSeqs(S)
    PROVE  order \in Seq(S) /\ Len(order) = Cardinality(S)
<1>1. Cardinality(S) \in Nat
  BY FS_CardinalityType
<1>2. order \in [1 .. Cardinality(S) -> S]
  BY DEF SetToSeqs
<1>3. QED BY <1>1, <1>2

LEMMA TailOf ==
    ASSUME NEW S, NEW s \in Seq(S), s # <<>>
    PROVE  /\ Head(s) \in S /\ Head(s) = s[1] /\ 1 \in 1 .. Len(s)
           /\ Tail(s) \in Seq(S) /\ Len(Tail(s)) = Len(s) - 1 /\ Len(s) \in Nat \ {0}
           /\ \A i \in 1 .. Len(Tail(s)) : Tail(s)[i] = s[i + 1] /\ i + 1 \in 1 .. Len(s)
<1>1. Len(s) \in Nat \ {0} /\ Head(s) = s[1] /\ s[1] \in S
  BY HeadTailProperties
<1>2. /\ Tail(s) \in Seq(S) /\ Len(Tail(s)) = Len(s) - 1
      /\ \A i \in 1 .. Len(s) - 1 : Tail(s)[i] = s[i + 1]
  BY <1>1, HeadTailProperties
<1>3. QED BY <1>1, <1>2

(* The server has the last QSO it was sent for each contact. *)
LEMMA Stored ==
    ASSUME IInv, NEW qsos \in SUBSET Entries,
           StoreCards({q.content : q \in qsos}),
           \A q, r \in qsos : q.id = r.id => q = r
    PROVE  /\ cards' \in [Uids -> AllContents \union {None}]
           /\ \A q \in qsos : Apart(q.id) => cards'[UidOf(q.content)] = q.content
           /\ \A id \in Ids : Apart(id) /\ (\A q \in qsos : q.id # id) =>
                 \A c \in ContentsOf[id] : cards'[UidOf(c)] = cards[UidOf(c)]
<1> DEFINE contents == {q.content : q \in qsos}
<1>1. contents \subseteq AllContents
  BY EntryTypes
<1>2. cards' = [u \in Uids |-> IF \E c \in contents : UidOf(c) = u
                               THEN CHOOSE c \in contents : UidOf(c) = u ELSE cards[u]]
  BY DEF StoreCards
<1>3. cards \in [Uids -> AllContents \union {None}]
  BY DEF IInv, TypeInv
<1>4. ASSUME NEW u \in Uids, \E c \in contents : UidOf(c) = u
      PROVE  /\ cards'[u] \in contents /\ UidOf(cards'[u]) = u
    <2>1. cards'[u] = CHOOSE c \in contents : UidOf(c) = u
      BY <1>2, <1>4
    <2>2. QED BY <1>4, <2>1
<1>5. ASSUME NEW u \in Uids, \A c \in contents : UidOf(c) # u
      PROVE  cards'[u] = cards[u]
  BY <1>2, <1>5
<1>6. cards' \in [Uids -> AllContents \union {None}]
  <2>1. \A u \in Uids : cards'[u] \in AllContents \union {None}
    BY <1>1, <1>3, <1>4, <1>5
  <2>2. QED BY <1>2, <2>1
<1>7. ASSUME NEW q \in qsos, Apart(q.id)
      PROVE  cards'[UidOf(q.content)] = q.content
  <2>1. UidOf(q.content) \in Uids /\ q.content \in contents /\ q.id \in Ids
        /\ q.content \in ContentsOf[q.id]
    BY EntryTypes
  <2>2. PICK r \in qsos : /\ cards'[UidOf(q.content)] = r.content
                          /\ UidOf(r.content) = UidOf(q.content)
    BY <1>4, <2>1
  <2>3. r.id \in Ids /\ r.content \in ContentsOf[r.id]
    BY EntryTypes
  <2>4. r.id = q.id
    BY <1>7, <2>1, <2>2, <2>3, OtherContacts
  <2>5. QED BY <2>2, <2>4
<1>8. ASSUME NEW id \in Ids, Apart(id), \A q \in qsos : q.id # id, NEW c \in ContentsOf[id]
      PROVE  cards'[UidOf(c)] = cards[UidOf(c)]
  <2>1. UidOf(c) \in Uids
    BY EntryTypes
  <2>2. \A d \in contents : UidOf(d) # UidOf(c)
    BY <1>8, EntryTypes, OtherContacts
  <2>3. QED BY <1>5, <2>1, <2>2
<1>9. QED BY <1>6, <1>7, <1>8

(* What BindQsoUid does to the mapping. *)
LEMMA Bound ==
    ASSUME IInv, NEW id \in Ids, NEW content \in ContentsOf[id],
           BindQsoUid(id, UidOf(content))
    PROVE  /\ mapping' \in [Ids -> Uids \union {None}] /\ mapping'[id] = UidOf(content)
           /\ \A other \in Ids \ {id} : mapping'[other] \in {mapping[other], None}
<1>1. UidOf(content) \in Uids /\ mapping \in [Ids -> Uids \union {None}]
  BY EntryTypes DEF IInv, TypeInv
<1>2. mapping' = [l \in Ids |-> IF l = id THEN UidOf(content)
                                ELSE IF mapping[l] = UidOf(content) THEN None ELSE mapping[l]]
  BY DEF BindQsoUid
<1>3. QED BY <1>1, <1>2

(* Marking touches the mark of one QSO, and ends its doubt. *)
LEMMA Marked ==
    ASSUME IInv, NEW id \in Ids, NEW content \in ContentsOf[id], MarkUploaded(id, content)
    PROVE  /\ fingerprint' \in [Ids -> AllContents \union {None}] /\ fingerprint'[id] = content
           /\ \A other \in Ids \ {id} : fingerprint'[other] = fingerprint[other]
<1>1. content \in AllContents /\ fingerprint \in [Ids -> AllContents \union {None}]
  BY EntryTypes DEF IInv, TypeInv
<1>2. QED BY <1>1 DEF MarkUploaded

-----------------------------------------------------------------------------
(* What steps have in common.                                              *)

(* The QSO a mail worker is at. *)
LEMMA CurrentQso ==
    ASSUME IInv, mail.waiting # <<>>
    PROVE  /\ Qso \in Entries /\ Qso.id \in Ids /\ Qso.content \in ContentsOf[Qso.id]
           /\ log[Qso.id] # None
<1>1. mail.waiting \in Seq(Entries)
  BY DEF IInv, TypeInv, Mails
<1>2. Qso \in Entries /\ Qso = mail.waiting[1] /\ 1 \in 1 .. Len(mail.waiting)
  BY <1>1, TailOf DEF Qso
<1>3. Qso.id \in Ids /\ Qso.content \in ContentsOf[Qso.id]
  BY <1>2, EntryTypes
<1>4. QED BY <1>2, <1>3 DEF IInv, RowInv

(* When nothing is uploaded, bound or marked and the log stays, the        *)
(* workers may only let go of what they hold.                              *)
LEMMA MarksFrame ==
    ASSUME IInv, UNCHANGED <<log, mapping, fingerprint, cards, overlapped, inDoubt, astray>>,
           \A id \in Ids : SyncHolds(id)' =>
              /\ SyncHolds(id) /\ sync'.scanned[id] = sync.scanned[id]
              /\ sync'.pc = "mark" => sync.pc = "mark" /\ sync'.ready = sync.ready,
           \A id \in Ids : MailHolds(id)' => MailHolds(id) /\ Qso' = Qso
    PROVE  MarksInv'
<1>1. MarksInv
  BY DEF IInv
<1>2. ASSUME NEW id \in Ids, HeldInv(id)
      PROVE  HeldInv(id)'
  BY <1>2 DEF HeldInv, Unchanged
<1>3. ASSUME NEW id \in Ids, MarkInv(id)
      PROVE  MarkInv(id)'
  BY <1>3 DEF MarkInv, Logged
<1>4. QED BY <1>1, <1>2, <1>3 DEF MarksInv, Apart, Contacts

(* So do the rows, when workers take up only what is in the log. *)
LEMMA RowsFrame ==
    ASSUME IInv, UNCHANGED <<log, mapping, fingerprint, inDoubt>>,
           \A id \in Ids : sync'.scanned[id] \in {sync.scanned[id], None},
           \A i \in 1 .. Len(mail'.waiting) : \E j \in 1 .. Len(mail.waiting) :
              mail'.waiting[i].id = mail.waiting[j].id
    PROVE  \A id \in Ids : RowInv(id)'
BY DEF IInv, RowInv

(* Mails are the business of the mail worker alone. *)
LEMMA OrderFrame ==
    ASSUME IInv, UNCHANGED <<mail, ordered, confirmed>>
    PROVE  OrderInv'
BY DEF IInv, OrderInv, OneMailPerConfirmation

-----------------------------------------------------------------------------
(* The sync worker.                                                        *)

LEMMA SyncAtFacts ==
    ASSUME IInv, NEW pc \in SyncStages, SyncAt(pc)
    PROVE  /\ sync' \in Syncs(sync'.ready) /\ sync'.pc = pc
           /\ sync'.todo = {} /\ sync'.batch = {} /\ \A id \in Ids : sync'.scanned[id] = None
<1>1. sync \in Syncs(sync.ready)
  BY DEF IInv, TypeInv
<1>2. sync' = [kind |-> sync.kind, pc |-> pc, scanned |-> [id \in Ids |-> None],
               todo |-> {}, batch |-> {}, ready |-> <<>>]
  BY DEF SyncAt, NoSync
<1>3. sync'.ready = <<>> /\ sync'.pc = pc /\ sync'.todo = {} /\ sync'.batch = {}
      /\ sync'.scanned = [id \in Ids |-> None]
  BY <1>2
<1>4. [id \in Ids |-> None] \in [Ids -> AllContents \union {None}]
  OBVIOUS
<1>5. sync' \in Syncs(<<>>)
  BY <1>1, <1>2, <1>4 DEF Syncs
<1>6. QED BY <1>3, <1>5

(* A step of the worker that neither uploads, binds nor marks. *)
LEMMA SyncRelease ==
    ASSUME IInv, UNCHANGED <<log, mapping, fingerprint, cards, overlapped, inDoubt, astray>>,
           UNCHANGED <<mail, ordered, confirmed>>,
           sync' \in Syncs(sync'.ready), sync'.pc \notin {"map", "mark"},
           \A id \in Ids : sync'.scanned[id] \in {sync.scanned[id], None},
           sync'.todo \union sync'.batch \subseteq Scanned(sync')
    PROVE  IInv'
<1>1. TypeInv'
  BY DEF IInv, TypeInv
<1>2. \A id \in Ids : RowInv(id)'
  BY RowsFrame
<1>3. StagesInv'
  BY DEF IInv, StagesInv, Scanned
<1>4. MarksInv'
  <2>1. \A id \in Ids : ~SyncHolds(id)'
    BY DEF SyncHolds
  <2>2. \A id \in Ids : MailHolds(id)' => MailHolds(id) /\ Qso' = Qso
    BY DEF MailHolds, Qso
  <2>3. QED BY <2>1, <2>2, MarksFrame
<1>5. OrderInv'
  BY OrderFrame
<1>6. QED BY <1>1, <1>2, <1>3, <1>4, <1>5 DEF IInv

(* The scan takes QSOs as they are in the log. *)
LEMMA StartWorkerStep ==
    ASSUME IInv, StartQslBackgroundSync \/ SyncQslNow
    PROVE  IInv'
<1>1. /\ UNCHANGED <<log, mapping, fingerprint, cards, overlapped, inDoubt, astray>>
      /\ UNCHANGED <<mail, ordered, confirmed>>
  BY DEF StartQslBackgroundSync, SyncQslNow, storage, server, history, bounds
<1> DEFINE scan == [id \in Ids |-> IF Logged(id) THEN log[id] ELSE None]
<1>2. PICK kind \in {"background", "manual"} :
        sync' = [NoSync EXCEPT !.kind = kind, !.pc = "bootstrap", !.scanned = scan]
  BY DEF StartQslBackgroundSync, SyncQslNow, StartWorker
<1>3. /\ sync' = [kind |-> kind, pc |-> "bootstrap", scanned |-> scan,
                  todo |-> {}, batch |-> {}, ready |-> <<>>]
  BY <1>2 DEF NoSync
<1>4. /\ \A id \in Ids : scan[id] \in ContentsOf[id] \union {None}
                         /\ (log[id] = None => scan[id] = None)
      /\ scan \in [Ids -> AllContents \union {None}]
  <2>1. \A id \in Ids : log[id] \in ContentsOf[id] \union {None, Deleted}
    BY DEF IInv, RowInv
  <2>2. QED BY <2>1, EntryTypes DEF Logged
<1> HIDE DEF scan
<1>5. /\ sync'.ready = <<>> /\ sync'.pc = "bootstrap" /\ sync'.scanned = scan
      /\ sync'.todo = {} /\ sync'.batch = {} /\ sync' \in Syncs(sync'.ready)
  BY <1>3, <1>4 DEF Syncs, SyncStages
<1>6. TypeInv'
  BY <1>1, <1>5 DEF IInv, TypeInv
<1>7. \A id \in Ids : RowInv(id)'
  BY <1>1, <1>4, <1>5 DEF IInv, RowInv
<1>8. StagesInv'
  BY <1>1, <1>5 DEF IInv, StagesInv
<1>9. MarksInv'
  <2>1. \A id \in Ids : ~SyncHolds(id)'
    BY <1>5 DEF SyncHolds
  <2>2. \A id \in Ids : MailHolds(id)' => MailHolds(id) /\ Qso' = Qso
    BY <1>1 DEF MailHolds, Qso
  <2>3. QED BY <1>1, <2>1, <2>2, MarksFrame
<1>10. OrderInv'
  BY <1>1, OrderFrame
<1>11. QED BY <1>6, <1>7, <1>8, <1>9, <1>10 DEF IInv

LEMMA BootstrapStep ==
    ASSUME IInv, Bootstrap
    PROVE  IInv'
<1>1. /\ UNCHANGED <<log, mapping, fingerprint, cards, overlapped, inDoubt, astray>>
      /\ UNCHANGED <<mail, ordered, confirmed>>
  BY DEF Bootstrap, storage, server, history
<1> DEFINE todo == QsoSyncCandidates(sync.kind, sync.scanned)
<1>2. \/ \E pc \in SyncStages \ {"map", "mark"} : SyncAt(pc)
      \/ sync' = [sync EXCEPT !.todo = todo, !.pc = "upload"]
  BY DEF Bootstrap, AfterError, SyncStages
<1>3. CASE \E pc \in SyncStages \ {"map", "mark"} : SyncAt(pc)
  BY <1>1, <1>3, SyncAtFacts, SyncRelease
<1>4. CASE sync' = [sync EXCEPT !.todo = todo, !.pc = "upload"]
  <2>1. todo \subseteq Scanned(sync) /\ todo \subseteq Ids
    BY DEF QsoSyncCandidates, Scanned
  <2> HIDE DEF todo
  <2>2. sync \in Syncs(sync.ready)
    BY DEF IInv, TypeInv
  <2>3. /\ sync'.todo = todo /\ sync'.pc = "upload" /\ sync'.batch = sync.batch
        /\ sync'.scanned = sync.scanned /\ sync'.ready = sync.ready
        /\ sync' \in Syncs(sync.ready)
    BY <1>4, <2>1, <2>2 DEF Syncs, SyncStages
  <2>4. sync'.todo \union sync'.batch \subseteq Scanned(sync')
    BY <2>1, <2>3 DEF IInv, StagesInv, Scanned
  <2>5. QED BY <1>1, <2>3, <2>4, SyncRelease
<1>5. QED BY <1>2, <1>3, <1>4

(* What is uploaded is in doubt, and on the server, unless the mail worker *)
(* has it in its hands as well.                                            *)
LEMMA UploadBatchStep ==
    ASSUME IInv, UploadBatch
    PROVE  IInv'
<1>1. PICK batch \in SUBSET sync.todo, r \in RequestJson :
        /\ IF r.executed = 0 THEN UNCHANGED <<cards, overlapped, inDoubt, astray>>
           ELSE /\ StoreCards({sync.scanned[id] : id \in batch})
                /\ overlapped' = overlapped \union (batch \intersect MailUnmarked)
                /\ Uploaded({[id |-> id, content |-> sync.scanned[id]] : id \in batch})
        /\ IF r.result = "ok"
           THEN sync' = [sync EXCEPT !.todo = @ \ batch, !.batch = batch, !.pc = "map"]
           ELSE SyncAt(AfterError)
  BY DEF UploadBatch
<1>2. /\ UNCHANGED <<log, mapping, fingerprint, mail, ordered, confirmed>>
  BY DEF UploadBatch, storage
<1>3. /\ sync \in Syncs(sync.ready) /\ batch \subseteq Scanned(sync) /\ batch \subseteq Ids
      /\ sync.pc = "upload"
  BY DEF UploadBatch, IInv, TypeInv, StagesInv, Scanned
<1>4. /\ sync' \in Syncs(sync'.ready) /\ sync'.pc # "mark"
      /\ \A id \in Ids : sync'.scanned[id] \in {sync.scanned[id], None}
      /\ sync'.todo \union sync'.batch \subseteq Scanned(sync')
      /\ sync'.pc = "map" => r.result = "ok" /\ sync'.batch = batch
                              /\ sync'.scanned = sync.scanned
  <2>1. CASE r.result = "ok"
    <3>1. sync' = [sync EXCEPT !.todo = sync.todo \ batch, !.batch = batch, !.pc = "map"]
      BY <1>1, <1>3, <2>1 DEF Syncs
    <3>2. sync' \in Syncs(sync.ready) /\ sync'.ready = sync.ready /\ sync'.pc = "map"
          /\ sync'.batch = batch /\ sync'.scanned = sync.scanned
          /\ sync'.todo = sync.todo \ batch
      BY <1>3, <3>1 DEF Syncs, SyncStages
    <3>3. sync.todo \subseteq Scanned(sync)
      BY DEF IInv, StagesInv
    <3>4. QED BY <1>3, <2>1, <3>2, <3>3 DEF Scanned
  <2>2. CASE r.result # "ok"
    <3>1. AfterError \in SyncStages \ {"map", "mark"}
      BY DEF AfterError, SyncStages
    <3>2. SyncAt(AfterError)
      BY <1>1, <2>2
    <3>3. QED BY <3>1, <3>2, SyncAtFacts
  <2>3. QED BY <2>1, <2>2
<1>5. CASE r.executed = 0
  <2>1. r.result # "ok"
    BY <1>5, RequestTypes
  <2>2. QED BY <1>1, <1>2, <1>4, <1>5, <2>1, SyncRelease
<1>6. CASE r.executed # 0
  <2> DEFINE qsos == {[id |-> id, content |-> sync.scanned[id]] : id \in batch}
  <2>1. \A id \in batch : sync.scanned[id] \in ContentsOf[id] /\ log[id] # None
    BY <1>3 DEF IInv, RowInv, Scanned
  <2>2. /\ qsos \subseteq Entries
        /\ \A q \in qsos : q.id \in batch /\ q.content = sync.scanned[q.id]
        /\ \A id \in batch : \E q \in qsos : q.id = id
    <3>1. \A id \in batch : [id |-> id, content |-> sync.scanned[id]] \in Entries
      BY <1>3, <2>1, EntryTypes
    <3>2. \A q \in qsos : \E id \in batch : q = [id |-> id, content |-> sync.scanned[id]]
      OBVIOUS
    <3>3. \A q \in qsos : q.id \in batch /\ q.content = sync.scanned[q.id]
      BY <3>2
    <3>4. \A id \in batch : [id |-> id, content |-> sync.scanned[id]] \in qsos
      OBVIOUS
    <3> HIDE DEF qsos
    <3>5. \A id \in batch : \E q \in qsos : q.id = id
      BY <3>4
    <3>6. qsos \subseteq Entries
      BY <3>1, <3>2
    <3>7. QED BY <3>3, <3>5, <3>6
  <2>3. {q.content : q \in qsos} = {sync.scanned[id] : id \in batch}
        /\ {q.id : q \in qsos} = batch
    BY <2>2
  <2>4. /\ StoreCards({q.content : q \in qsos})
        /\ overlapped' = overlapped \union (batch \intersect MailUnmarked)
        /\ inDoubt' = inDoubt \union batch
        /\ astray' = astray \union {q.id : q \in {q \in qsos : log[q.id] # q.content}}
    BY <1>1, <1>6, <2>3 DEF Uploaded
  <2>5. \A id \in batch : log[id] # sync.scanned[id] => id \in astray'
    BY <2>2, <2>4
  <2>6. astray' \subseteq astray \union batch
    BY <2>2, <2>4
  <2>7. \A q \in qsos, s \in qsos : q.id = s.id => q = s
    OBVIOUS
  <2> HIDE DEF qsos
  <2>8. /\ cards' \in [Uids -> AllContents \union {None}]
        /\ \A id \in batch : Apart(id) => cards'[UidOf(sync.scanned[id])] = sync.scanned[id]
        /\ \A id \in Ids \ batch : Apart(id) =>
              \A c \in ContentsOf[id] : cards'[UidOf(c)] = cards[UidOf(c)]
    <3>1. /\ cards' \in [Uids -> AllContents \union {None}]
          /\ \A q \in qsos : Apart(q.id) => cards'[UidOf(q.content)] = q.content
          /\ \A id \in Ids : Apart(id) /\ (\A q \in qsos : q.id # id) =>
                \A c \in ContentsOf[id] : cards'[UidOf(c)] = cards[UidOf(c)]
      BY <2>2, <2>4, <2>7, Stored
    <3>2. \A id \in batch : \E q \in qsos : q.id = id /\ q.content = sync.scanned[id]
      BY <2>2
    <3>3. QED BY <2>2, <3>1, <3>2
  <2>9. TypeInv'
    BY <1>2, <1>4, <2>8 DEF IInv, TypeInv
  <2>10. \A id \in Ids : RowInv(id)'
    BY <1>2, <1>4, <2>1, <2>4 DEF IInv, RowInv
  <2>11. StagesInv'
    BY <1>2, <1>4 DEF IInv, StagesInv
  <2>12. OrderInv'
    BY <1>2, OrderFrame
  <2>13. astray' \subseteq inDoubt'
    BY <2>4, <2>6 DEF IInv, MarksInv
  <2>14. ASSUME NEW id \in Ids, Apart(id), id \notin overlapped'
         PROVE  HeldInv(id)' /\ MarkInv(id)'
    <3>1. HeldInv(id) /\ MarkInv(id) /\ RowInv(id) /\ RowInv(id)'
      BY <2>4, <2>10, <2>14 DEF IInv, MarksInv
    <3>2. MailHolds(id)' = MailHolds(id) /\ Qso' = Qso
      BY <1>2 DEF MailHolds, Qso
    <3>3. ~(MailHolds(id) /\ id \in batch)
      BY <2>4, <2>14 DEF MailHolds, MailUnmarked, Qso
    <3>4. CASE id \in batch
      <4>1. HeldInv(id)'
        <5>1. ~MailHolds(id)'
          BY <3>2, <3>3, <3>4
        <5>2. SyncHolds(id)' => sync'.scanned = sync.scanned
          BY <1>4 DEF SyncHolds
        <5>3. log[id] = sync.scanned[id] \/ id \in astray'
          BY <2>5, <3>4
        <5>4. id \in inDoubt' /\ cards'[UidOf(sync.scanned[id])] = sync.scanned[id]
          BY <2>4, <2>8, <2>14, <3>4
        <5>5. QED BY <1>2, <1>4, <5>1, <5>2, <5>3, <5>4 DEF HeldInv, Unchanged
      <4>2. MarkInv(id)'
        BY <1>2, <2>4, <2>5, <2>6, <2>8, <2>14, <3>1, <3>4 DEF MarkInv, Logged
      <4>3. QED BY <4>1, <4>2
    <3>5. CASE id \notin batch
      <4>1. ~SyncHolds(id)'
        BY <1>4, <3>5 DEF SyncHolds
      <4>2. MailHolds(id) => Qso.content \in ContentsOf[id]
        BY CurrentQso DEF MailHolds, IInv, StagesInv
      <4>3. (id \in inDoubt') = (id \in inDoubt) /\ (id \in astray') = (id \in astray)
        BY <2>4, <2>6, <3>5
      <4>4. HeldInv(id)'
        BY <1>2, <2>8, <2>14, <3>1, <3>2, <3>5, <4>1, <4>2, <4>3 DEF HeldInv, Unchanged
      <4>5. MarkInv(id)'
        BY <1>2, <2>8, <2>14, <3>1, <3>5, <4>3, EntryTypes DEF MarkInv, Logged, RowInv
      <4>6. QED BY <4>4, <4>5
    <3>6. QED BY <3>4, <3>5
  <2>15. MarksInv'
    BY <2>13, <2>14 DEF MarksInv, Apart, Contacts
  <2>16. QED BY <2>9, <2>10, <2>11, <2>12, <2>15 DEF IInv
<1>7. QED BY <1>5, <1>6

(* Binding is for the QSO the worker holds, which is then about to be      *)
(* marked.                                                                 *)
LEMMA MapRecordStep ==
    ASSUME IInv, MapRecord
    PROVE  IInv'
<1>1. PICK bound \in sync.batch :
        /\ BindQsoUid(bound, UidOf(sync.scanned[bound]))
        /\ sync' = [sync EXCEPT !.ready = <<bound>>, !.pc = "mark"]
  BY DEF MapRecord
<1>2. /\ UNCHANGED <<log, fingerprint, cards, overlapped, inDoubt, astray>>
      /\ UNCHANGED <<mail, ordered, confirmed>> /\ sync.pc = "map"
  BY DEF MapRecord, server, history
<1>3. sync \in Syncs(sync.ready) /\ sync.batch \subseteq Scanned(sync)
  BY DEF IInv, TypeInv, StagesInv
<1>4. bound \in Ids /\ sync.scanned[bound] \in ContentsOf[bound] /\ log[bound] # None
  BY <1>3 DEF IInv, RowInv, Scanned
<1>5. /\ mapping' \in [Ids -> Uids \union {None}]
      /\ mapping'[bound] = UidOf(sync.scanned[bound])
      /\ \A id \in Ids \ {bound} : mapping'[id] \in {mapping[id], None}
  BY <1>1, <1>4, Bound
<1>6. /\ sync' \in Syncs(<<bound>>) /\ sync'.ready = <<bound>> /\ sync'.pc = "mark"
      /\ sync'.batch = sync.batch /\ sync'.todo = sync.todo /\ sync'.scanned = sync.scanned
  BY <1>1, <1>3 DEF Syncs, SyncStages
<1>7. TypeInv'
  BY <1>2, <1>5, <1>6 DEF IInv, TypeInv
<1>8. \A id \in Ids : RowInv(id)'
  BY <1>2, <1>4, <1>5, <1>6 DEF IInv, RowInv
<1>9. StagesInv'
  BY <1>2, <1>6 DEF IInv, StagesInv, Scanned
<1>10. OrderInv'
  BY <1>2, OrderFrame
<1>11. ASSUME NEW id \in Ids, Apart(id), id \notin overlapped
       PROVE  HeldInv(id)' /\ MarkInv(id)'
  <2>1. HeldInv(id) /\ MarkInv(id) /\ RowInv(id)
    BY <1>11 DEF IInv, MarksInv
  <2>2. SyncHolds(id)' = SyncHolds(id) /\ MailHolds(id)' = MailHolds(id) /\ Qso' = Qso
    BY <1>2, <1>6 DEF SyncHolds, MailHolds, Qso
  <2>3. sync'.ready = <<id>> => id = bound
    BY <1>6
  <2>4. HeldInv(id)'
    BY <1>2, <1>5, <1>6, <2>1, <2>2, <2>3 DEF HeldInv, Unchanged
  <2>5. CASE id # bound
    <3>1. mapping'[id] = mapping[id] \/ mapping'[id] = None
      BY <1>5, <2>5
    <3>2. QED BY <1>2, <2>1, <2>4, <3>1 DEF MarkInv, Logged
  <2>6. CASE id = bound
    <3>1. SyncHolds(id)
      BY <1>2, <2>6 DEF SyncHolds
    <3>2. id \in inDoubt /\ Unchanged(id, sync.scanned[id])
      BY <2>1, <3>1 DEF HeldInv
    <3>3. mapping'[id] = UidOf(sync.scanned[id])
      BY <1>5, <2>6
    <3>4. Logged(id) /\ id \notin astray => log[id] = sync.scanned[id]
      BY <3>2 DEF Logged, Unchanged
    <3>5. QED BY <1>2, <2>1, <2>4, <3>2, <3>3, <3>4 DEF MarkInv, Logged
  <2>7. QED BY <2>4, <2>5, <2>6
<1>12. MarksInv'
  BY <1>2, <1>11 DEF IInv, MarksInv, Apart, Contacts
<1>13. QED BY <1>7, <1>8, <1>9, <1>10, <1>12 DEF IInv

(* A mark says what was uploaded, whatever the log holds by then. *)
LEMMA MarkRecordStep ==
    ASSUME IInv, MarkRecord
    PROVE  IInv'
<1> DEFINE done == Head(sync.ready)
           rest == sync.batch \ {done}
<1>1. /\ MarkUploaded(done, sync.scanned[done])
      /\ inDoubt' = inDoubt \ {done} /\ astray' = astray \ {done}
      /\ \/ SyncAt("recipients")
         \/ \E pc \in {"map", "upload"} :
              sync' = [sync EXCEPT !.ready = <<>>, !.batch = rest, !.pc = pc]
  BY DEF MarkRecord, Known
<1>2. /\ UNCHANGED <<log, mapping, cards, overlapped>>
      /\ UNCHANGED <<mail, ordered, confirmed>> /\ sync.pc = "mark"
  BY DEF MarkRecord, server
<1>3. sync \in Syncs(sync.ready) /\ sync.batch \subseteq Scanned(sync)
  BY DEF IInv, TypeInv, StagesInv
<1>4. done \in sync.batch /\ sync.ready = <<done>>
  BY <1>2 DEF IInv, StagesInv
<1> HIDE DEF done
<1>5. done \in Ids /\ sync.scanned[done] \in ContentsOf[done] /\ log[done] # None
  BY <1>3, <1>4 DEF IInv, RowInv, Scanned
<1>6. /\ fingerprint' \in [Ids -> AllContents \union {None}]
      /\ fingerprint'[done] = sync.scanned[done]
      /\ \A id \in Ids \ {done} : fingerprint'[id] = fingerprint[id]
  BY <1>1, <1>5, Marked
<1>7. /\ sync' \in Syncs(sync'.ready) /\ sync'.pc # "mark"
      /\ \A id \in Ids : sync'.scanned[id] \in {sync.scanned[id], None}
      /\ sync'.todo \union sync'.batch \subseteq Scanned(sync')
      /\ sync'.pc = "map" => sync'.batch = rest /\ sync'.scanned = sync.scanned
  <2>1. CASE SyncAt("recipients")
    BY <2>1, SyncAtFacts DEF SyncStages
  <2>2. CASE \E pc \in {"map", "upload"} :
               sync' = [sync EXCEPT !.ready = <<>>, !.batch = rest, !.pc = pc]
    <3>1. PICK pc \in {"map", "upload"} :
            sync' = [sync EXCEPT !.ready = <<>>, !.batch = rest, !.pc = pc]
      BY <2>2
    <3>2. rest \in SUBSET Ids /\ rest \subseteq sync.batch
      BY <1>3 DEF Syncs
    <3> HIDE DEF rest
    <3>3. /\ sync' \in Syncs(<<>>) /\ sync'.ready = <<>> /\ sync'.pc = pc
          /\ sync'.batch = rest /\ sync'.todo = sync.todo /\ sync'.scanned = sync.scanned
      BY <1>3, <3>1, <3>2 DEF Syncs, SyncStages
    <3>4. QED BY <3>2, <3>3 DEF IInv, StagesInv, Scanned
  <2>3. QED BY <1>1, <2>1, <2>2
<1>8. TypeInv'
  BY <1>2, <1>6, <1>7 DEF IInv, TypeInv
<1>9. \A id \in Ids : RowInv(id)'
  BY <1>1, <1>2, <1>5, <1>6, <1>7 DEF IInv, RowInv
<1>10. StagesInv'
  BY <1>2, <1>7 DEF IInv, StagesInv
<1>11. OrderInv'
  BY <1>2, OrderFrame
<1>12. ASSUME NEW id \in Ids, Apart(id), id \notin overlapped
       PROVE  HeldInv(id)' /\ MarkInv(id)'
  <2>1. HeldInv(id) /\ MarkInv(id) /\ RowInv(id)
    BY <1>12 DEF IInv, MarksInv
  <2>2. SyncHolds(id)' => SyncHolds(id) /\ id # done /\ sync'.scanned = sync.scanned
    BY <1>2, <1>7 DEF SyncHolds
  <2>3. MailHolds(id)' = MailHolds(id) /\ Qso' = Qso
    BY <1>2 DEF MailHolds, Qso
  <2>4. CASE id # done
    <3>1. (id \in inDoubt') = (id \in inDoubt) /\ (id \in astray') = (id \in astray)
      BY <1>1, <2>4
    <3>2. HeldInv(id)'
      BY <1>2, <1>7, <2>1, <2>2, <2>3, <3>1 DEF HeldInv, Unchanged
    <3>3. MarkInv(id)'
      BY <1>2, <1>6, <2>1, <2>4, <3>1 DEF MarkInv, Logged
    <3>4. QED BY <3>2, <3>3
  <2>5. CASE id = done
    <3>1. SyncHolds(id)
      BY <1>2, <1>4, <2>5 DEF SyncHolds
    <3>2. /\ ~MailHolds(id) /\ cards[UidOf(sync.scanned[id])] = sync.scanned[id]
          /\ mapping[id] = UidOf(sync.scanned[id])
      BY <1>2, <1>4, <2>1, <2>5, <3>1 DEF HeldInv
    <3>3. HeldInv(id)'
      BY <2>2, <2>3, <2>5, <3>2 DEF HeldInv
    <3>4. MarkInv(id)'
      BY <1>1, <1>2, <1>6, <2>5, <3>2 DEF MarkInv
    <3>5. QED BY <3>3, <3>4
  <2>6. QED BY <2>4, <2>5
<1>13. MarksInv'
  BY <1>1, <1>2, <1>12 DEF IInv, MarksInv, Apart, Contacts
<1>14. QED BY <1>8, <1>9, <1>10, <1>11, <1>13 DEF IInv

(* What follows the uploads neither uploads nor binds. *)
LEMMA AfterUploadsStep ==
    ASSUME IInv, PendingRecipients \/ QrzRecipient \/ RefreshStatusSnapshots \/ QslSyncHandled
    PROVE  IInv'
<1>1. /\ UNCHANGED <<log, mapping, fingerprint, cards, overlapped, inDoubt, astray>>
      /\ UNCHANGED <<mail, ordered, confirmed>>
  BY DEF PendingRecipients, QrzRecipient, RefreshStatusSnapshots, QslSyncHandled, storage,
         server, history
<1>2. sync \in Syncs(sync.ready) /\ sync.todo \union sync.batch \subseteq Scanned(sync)
  BY DEF IInv, TypeInv, StagesInv
<1>3. ASSUME NEW ready, NEW pc \in SyncStages \ {"map", "mark"},
             sync' = [sync EXCEPT !.ready = ready, !.pc = pc]
      PROVE  IInv'
  <2>1. /\ sync' \in Syncs(ready) /\ sync'.ready = ready /\ sync'.pc = pc
        /\ sync'.todo = sync.todo /\ sync'.batch = sync.batch /\ sync'.scanned = sync.scanned
    BY <1>2, <1>3 DEF Syncs
  <2>2. QED BY <1>1, <1>2, <1>3, <2>1, SyncRelease DEF Scanned
<1>4. CASE PendingRecipients
  <2>1. PICK pc \in {AfterChecks, "lookup"} :
          sync' = [sync EXCEPT !.ready = ReadyChecks, !.pc = pc]
    BY <1>4 DEF PendingRecipients
  <2>2. QED BY <1>3, <2>1 DEF AfterChecks, SyncStages
<1>5. CASE QrzRecipient
  <2>1. PICK pc \in {AfterChecks, "lookup"} :
          sync' = [sync EXCEPT !.ready = Tail(sync.ready), !.pc = pc]
    BY <1>2, <1>5 DEF QrzRecipient, Syncs
  <2>2. QED BY <1>3, <2>1 DEF AfterChecks, SyncStages
<1>6. CASE RefreshStatusSnapshots
  BY <1>1, <1>6, SyncAtFacts, SyncRelease DEF RefreshStatusSnapshots, SyncStages
<1>7. CASE QslSyncHandled
  <2>1. /\ sync'.ready = <<>> /\ sync'.pc = "idle" /\ sync'.todo = {} /\ sync'.batch = {}
        /\ sync'.scanned = [id \in Ids |-> None] /\ sync' \in Syncs(sync'.ready)
    BY <1>7 DEF QslSyncHandled, NoSync, Syncs, SyncStages
  <2>2. QED BY <1>1, <2>1, SyncRelease
<1>8. QED BY <1>4, <1>5, <1>6, <1>7

-----------------------------------------------------------------------------
(* The mail worker.                                                        *)

(* A mail worker that goes on has QSOs it had before, and one to be at.    *)
GoesOn ==
    /\ mail' \in Mails
    /\ \A i \in 1 .. Len(mail'.waiting) : \E j \in 1 .. Len(mail.waiting) :
          mail'.waiting[i].id = mail.waiting[j].id
    /\ mail'.kind = "idle" => mail'.pc = "idle"
    /\ mail'.pc \in {"ensure", "map", "prepare"} => mail'.waiting # <<>>

(* A step of the mail worker that neither uploads, binds nor marks. *)
LEMMA MailRelease ==
    ASSUME IInv, UNCHANGED <<log, mapping, fingerprint, cards, overlapped, inDoubt, astray>>,
           sync' = sync, GoesOn, mail'.pc # "map", OrderInv', confirmed' \in Nat, ordered' \in Nat
    PROVE  IInv'
<1>1. TypeInv'
  BY DEF IInv, TypeInv, GoesOn
<1>2. \A id \in Ids : RowInv(id)'
  BY RowsFrame DEF GoesOn
<1>3. StagesInv'
  BY DEF IInv, StagesInv, GoesOn, Scanned
<1>4. MarksInv'
  <2>1. \A id \in Ids : SyncHolds(id)' = SyncHolds(id)
    BY DEF SyncHolds
  <2>2. \A id \in Ids : ~MailHolds(id)'
    BY DEF MailHolds
  <2>3. QED BY <2>1, <2>2, MarksFrame
<1>5. QED BY <1>1, <1>2, <1>3, <1>4 DEF IInv

LEMMA MailAtFacts ==
    ASSUME IInv, NEW pc \in MailStages, MailAt(pc), mail.pc # "idle",
           pc \in {"ensure", "map", "prepare"} => mail.waiting # <<>>
    PROVE  /\ GoesOn /\ mail'.pc = pc /\ mail'.kind = mail.kind
           /\ mail'.waiting = mail.waiting /\ mail'.prepared = mail.prepared
<1>1. mail \in Mails /\ mail.kind # "idle"
  BY DEF IInv, TypeInv, StagesInv
<1>2. /\ mail' \in Mails /\ mail'.pc = pc /\ mail'.kind = mail.kind
      /\ mail'.waiting = mail.waiting /\ mail'.prepared = mail.prepared
  BY <1>1 DEF MailAt, Mails
<1>3. QED BY <1>1, <1>2 DEF GoesOn

LEMMA MailEndsFacts ==
    ASSUME IInv, NEW pc \in {"ok", "failed"}, MailEnds(pc), mail.pc # "idle"
    PROVE  /\ GoesOn /\ mail'.pc = pc /\ mail'.kind = mail.kind
           /\ mail'.prepared = mail.prepared
<1>1. mail \in Mails /\ mail.kind # "idle"
  BY DEF IInv, TypeInv, StagesInv
<1>2. mail' = [kind |-> mail.kind, pc |-> pc, waiting |-> <<>>, prepared |-> mail.prepared,
               uid |-> None]
  BY DEF MailEnds, NoMail
<1>3. /\ mail' \in Mails /\ mail'.pc = pc /\ mail'.kind = mail.kind
      /\ mail'.waiting = <<>> /\ mail'.prepared = mail.prepared
  BY <1>1, <1>2 DEF Mails, MailStages
<1>4. QED BY <1>1, <1>3 DEF GoesOn

LEMMA NextOfBatchFacts ==
    ASSUME IInv, NEW prepared \in SUBSET (Uids \union {None}), NextOfBatch(prepared),
           mail.pc # "idle", mail.waiting # <<>>
    PROVE  /\ GoesOn /\ mail'.pc \in {"ensure", "queue", "failed"} /\ mail'.kind = mail.kind
           /\ mail'.prepared = prepared /\ Len(mail.waiting) \in Nat \ {0}
           /\ Len(mail'.waiting) = Len(mail.waiting) - 1
<1>1. mail \in Mails /\ mail.kind # "idle" /\ mail.waiting \in Seq(Entries)
  BY DEF IInv, TypeInv, StagesInv, Mails
<1> DEFINE tail == Tail(mail.waiting)
<1>2. /\ tail \in Seq(Entries) /\ Len(tail) = Len(mail.waiting) - 1
      /\ Len(mail.waiting) \in Nat \ {0}
      /\ \A i \in 1 .. Len(tail) : tail[i] = mail.waiting[i + 1]
                                   /\ i + 1 \in 1 .. Len(mail.waiting)
  BY <1>1, TailOf
<1>3. PICK pc \in {"ensure", "queue", "failed"} :
        /\ mail' = [mail EXCEPT !.waiting = tail, !.prepared = prepared, !.uid = None,
                      !.pc = pc]
        /\ pc = "ensure" => Len(mail.waiting) > 1
  BY <1>1 DEF NextOfBatch, Mails
<1> HIDE DEF tail
<1>4. /\ mail' \in Mails /\ mail'.pc = pc /\ mail'.kind = mail.kind
      /\ mail'.waiting = tail /\ mail'.prepared = prepared
  BY <1>1, <1>2, <1>3 DEF Mails, MailStages
<1>5. pc = "ensure" => tail # <<>>
  BY <1>2, <1>3
<1>6. QED BY <1>1, <1>2, <1>4, <1>5 DEF GoesOn

(* A QSO that cannot be prepared is not ordered. *)
LEMMA GiveUpFacts ==
    ASSUME IInv, GiveUpQso, mail.pc \in {"ensure", "prepare"},
           UNCHANGED <<ordered, confirmed>>
    PROVE  GoesOn /\ mail'.pc # "map" /\ OrderInv'
<1>1. /\ mail.waiting # <<>> /\ mail.pc # "idle" /\ mail.prepared \in SUBSET (Uids \union {None})
      /\ IsFiniteSet(mail.prepared) /\ ordered = 0
      /\ Cardinality(mail.prepared) + Len(mail.waiting) <= confirmed /\ confirmed \in Nat
  BY DEF IInv, StagesInv, OrderInv, TypeInv, Mails
<1>2. Cardinality(mail.prepared) \in Nat
  BY <1>1, FS_CardinalityType
<1>3. CASE mail.kind = "single"
  <2>1. GoesOn /\ mail'.pc = "failed" /\ mail'.prepared = mail.prepared
    BY <1>1, <1>3, MailEndsFacts DEF GiveUpQso
  <2>2. QED BY <1>1, <2>1 DEF OrderInv, OneMailPerConfirmation
<1>4. CASE mail.kind # "single"
  <2>1. /\ GoesOn /\ mail'.pc \in {"ensure", "queue", "failed"}
        /\ mail'.prepared = mail.prepared
        /\ Len(mail'.waiting) = Len(mail.waiting) - 1 /\ Len(mail.waiting) \in Nat \ {0}
    BY <1>1, <1>4, NextOfBatchFacts DEF GiveUpQso
  <2>2. QED BY <1>1, <1>2, <2>1 DEF OrderInv, OneMailPerConfirmation
<1>5. QED BY <1>3, <1>4

(* The user confirms as many mails as QSOs were chosen. *)
LEMMA StartMailStep ==
    ASSUME IInv, NEW kind \in {"single", "batch"}, NEW pc \in {"ensure", "failed"},
           NEW ids \in SUBSET Ids, Cardinality(ids) > 0, StartMail(kind, pc, ids)
    PROVE  IInv'
<1>1. /\ UNCHANGED <<log, mapping, fingerprint, cards, overlapped, inDoubt, astray>>
      /\ sync' = sync /\ ordered' = ordered /\ confirmed' = Cardinality(ids)
      /\ mail.kind = "idle" /\ \A id \in ids : Logged(id)
  BY DEF StartMail, storage, server
<1>2. IsFiniteSet(ids) /\ Cardinality(ids) \in Nat
  BY ContentsAssumption, FS_Subset, FS_CardinalityType
<1> DEFINE entries == {[id |-> id, content |-> log[id]] : id \in ids}
<1>3. /\ IsFiniteSet(entries) /\ Cardinality(entries) <= Cardinality(ids)
      /\ Cardinality(entries) \in Nat
  <2> DEFINE f == [id \in ids |-> [id |-> id, content |-> log[id]]]
  <2>1. f \in Surjection(ids, entries)
    BY DEF Surjection
  <2> HIDE DEF f, entries
  <2>2. QED BY <1>2, <2>1, FS_Surjection, FS_CardinalityType
<1>4. /\ entries \subseteq Entries /\ \A q \in entries : q.id \in ids
      /\ Cardinality(entries) > 0
  <2>1. \A id \in ids : log[id] \in ContentsOf[id]
    BY <1>1 DEF IInv, RowInv, Logged
  <2>2. \A id \in ids : [id |-> id, content |-> log[id]] \in Entries
    BY <2>1, EntryTypes
  <2>3. ids # {}
    BY FS_EmptySet
  <2>4. entries # {}
    BY <2>3
  <2>5. Cardinality(entries) # 0
    BY <1>3, <2>4, FS_EmptySet
  <2>6. \A q \in entries : q.id \in ids
    OBVIOUS
  <2>7. QED BY <1>3, <2>2, <2>5, <2>6
<1>5. PICK order \in SetToSeqs(entries) :
        mail' = [NoMail EXCEPT !.kind = kind, !.pc = pc, !.waiting = order]
  BY DEF StartMail
<1> HIDE DEF entries
<1>6. order \in Seq(entries) /\ Len(order) = Cardinality(entries)
  BY <1>3, OrderOf
<1>7. /\ mail' = [kind |-> kind, pc |-> pc, waiting |-> order, prepared |-> {}, uid |-> None]
  BY <1>5 DEF NoMail
<1>8. order \in Seq(Entries) /\ order # <<>>
      /\ \A i \in 1 .. Len(order) : order[i] \in entries
  BY <1>4, <1>6
<1>9. /\ mail' \in Mails /\ mail'.pc = pc /\ mail'.kind = kind
      /\ mail'.waiting = order /\ mail'.prepared = {}
  BY <1>7, <1>8 DEF Mails, MailStages
<1>10. TypeInv'
  BY <1>1, <1>2, <1>9 DEF IInv, TypeInv
<1>11. \A id \in Ids : RowInv(id)'
  <2>1. \A i \in 1 .. Len(order) : order[i].id \in ids /\ log[order[i].id] # None
    BY <1>1, <1>4, <1>8 DEF Logged
  <2>2. QED BY <1>1, <1>9, <2>1 DEF IInv, RowInv
<1>12. StagesInv'
  BY <1>1, <1>8, <1>9 DEF IInv, StagesInv, Scanned
<1>13. MarksInv'
  <2>1. \A id \in Ids : SyncHolds(id)' = SyncHolds(id)
    BY <1>1 DEF SyncHolds
  <2>2. \A id \in Ids : ~MailHolds(id)'
    BY <1>9 DEF MailHolds
  <2>3. QED BY <1>1, <2>1, <2>2, MarksFrame
<1>14. OrderInv'
  <2>1. ordered = 0
    BY <1>1 DEF IInv, OrderInv
  <2>2. IsFiniteSet({}) /\ Cardinality({}) = 0
    BY FS_EmptySet
  <2>3. QED BY <1>1, <1>2, <1>3, <1>6, <1>9, <2>1, <2>2 DEF OrderInv, OneMailPerConfirmation
<1>15. QED BY <1>10, <1>11, <1>12, <1>13, <1>14 DEF IInv

LEMMA StartMailSteps ==
    ASSUME IInv,
           \/ \E id \in Ids : SendSelectedQslEmail(id)
           \/ \E ids \in SUBSET Ids : QueueSelectedQslEmails(ids)
    PROVE  IInv'
<1>1. CASE \E id \in Ids : SendSelectedQslEmail(id)
  <2>1. PICK id \in Ids : StartMail("single", "ensure", {id})
    BY <1>1 DEF SendSelectedQslEmail
  <2>2. Cardinality({id}) = 1
    BY FS_Singleton
  <2>3. QED BY <2>1, <2>2, StartMailStep
<1>2. CASE \E ids \in SUBSET Ids : QueueSelectedQslEmails(ids)
  <2>1. PICK ids \in SUBSET Ids : QueueSelectedQslEmails(ids)
    BY <1>2
  <2>2. Cardinality(ids) > 1 /\ Cardinality(ids) \in Nat
    BY <2>1, ContentsAssumption, FS_Subset, FS_CardinalityType DEF QueueSelectedQslEmails
  <2>3. \E pc \in {"ensure", "failed"} : StartMail("batch", pc, ids)
    BY <2>1 DEF QueueSelectedQslEmails
  <2>4. QED BY <2>2, <2>3, StartMailStep
<1>3. QED BY <1>1, <1>2

(* An upload by the mail worker, while the sync worker does not have the   *)
(* QSO in its hands.                                                       *)
LEMMA EnsureQsoUidStep ==
    ASSUME IInv, EnsureQsoUid
    PROVE  IInv'
<1>1. /\ UNCHANGED <<log, mapping, fingerprint, ordered, confirmed>> /\ sync' = sync
      /\ mail.pc = "ensure"
  BY DEF EnsureQsoUid, storage
<1>2. mail.waiting # <<>> /\ mail.pc # "idle" /\ mail \in Mails
  BY <1>1 DEF IInv, StagesInv, TypeInv
<1>3. CASE mapping[Qso.id] # None
  <2>1. /\ mail' = [mail EXCEPT !.uid = mapping[Qso.id], !.pc = "prepare"]
        /\ UNCHANGED <<cards, overlapped, inDoubt, astray>>
    BY <1>3 DEF EnsureQsoUid
  <2>2. mapping[Qso.id] \in Uids /\ mail.kind # "idle"
    BY <1>2, <1>3, CurrentQso DEF IInv, TypeInv, StagesInv
  <2>3. /\ mail' \in Mails /\ mail'.pc = "prepare" /\ mail'.kind = mail.kind
        /\ mail'.waiting = mail.waiting /\ mail'.prepared = mail.prepared
    BY <1>2, <2>1, <2>2 DEF Mails, MailStages
  <2>4. GoesOn
    BY <1>2, <2>2, <2>3 DEF GoesOn
  <2>5. OrderInv'
    BY <1>1, <2>2, <2>3 DEF IInv, OrderInv, OneMailPerConfirmation
  <2>6. QED BY <1>1, <2>1, <2>3, <2>4, <2>5, MailRelease DEF IInv, TypeInv
<1>4. CASE GiveUpQso /\ UNCHANGED <<cards, overlapped, inDoubt, astray>>
  BY <1>1, <1>4, GiveUpFacts, MailRelease DEF IInv, TypeInv
<1>5. CASE /\ mapping[Qso.id] = None
           /\ ~(GiveUpQso /\ UNCHANGED <<cards, overlapped, inDoubt, astray>>)
  <2>1. PICK r \in RequestJson :
          /\ IF r.executed = 0 THEN UNCHANGED <<cards, overlapped, inDoubt, astray>>
             ELSE /\ StoreCards({Qso.content})
                  /\ Uploaded({Qso})
                  /\ overlapped' = overlapped \union ({Qso.id} \intersect Scanned(sync))
          /\ IF r.result = "ok" THEN MailAt("map") ELSE GiveUpQso
    BY <1>5 DEF EnsureQsoUid
  <2>2. r.executed # 0
    BY <1>5, <2>1, RequestTypes
  <2> DEFINE qso == Qso
             qsos == {qso}
  <2>3. qso \in Entries /\ qso.id \in Ids /\ qso.content \in ContentsOf[qso.id]
        /\ log[qso.id] # None
    BY <1>2, CurrentQso
  <2>4. /\ {q.content : q \in qsos} = {qso.content} /\ qsos \in SUBSET Entries
        /\ \A q \in qsos, s \in qsos : q.id = s.id => q = s
    BY <2>3
  <2>5. /\ StoreCards({qso.content}) /\ inDoubt' = inDoubt \union {qso.id}
        /\ astray' = astray \union (IF log[qso.id] # qso.content THEN {qso.id} ELSE {})
        /\ overlapped' = overlapped \union ({qso.id} \intersect Scanned(sync))
    BY <2>1, <2>2 DEF Uploaded
  <2> HIDE DEF qso
  <2>6. /\ cards' \in [Uids -> AllContents \union {None}]
        /\ Apart(qso.id) => cards'[UidOf(qso.content)] = qso.content
        /\ \A id \in Ids \ {qso.id} : Apart(id) =>
              \A c \in ContentsOf[id] : cards'[UidOf(c)] = cards[UidOf(c)]
    BY <2>4, <2>5, Stored
  <2>7. /\ GoesOn /\ OrderInv'
        /\ mail'.pc = "map" => mail'.waiting = mail.waiting
    <3>1. CASE r.result = "ok"
      <4>1. /\ GoesOn /\ mail'.pc = "map" /\ mail'.kind = mail.kind
            /\ mail'.waiting = mail.waiting /\ mail'.prepared = mail.prepared
        BY <1>2, <2>1, <3>1, MailAtFacts DEF MailStages
      <4>2. QED BY <1>1, <4>1 DEF IInv, OrderInv, OneMailPerConfirmation
    <3>2. CASE r.result # "ok"
      BY <1>1, <2>1, <3>2, GiveUpFacts
    <3>3. QED BY <3>1, <3>2
  <2>8. TypeInv'
    BY <1>1, <2>6, <2>7 DEF IInv, TypeInv, GoesOn
  <2>9. \A id \in Ids : RowInv(id)'
    BY <1>1, <2>3, <2>5, <2>7 DEF IInv, RowInv, GoesOn
  <2>10. StagesInv'
    BY <1>1, <2>7 DEF IInv, StagesInv, GoesOn, Scanned
  <2>11. ASSUME NEW id \in Ids, Apart(id), id \notin overlapped'
         PROVE  HeldInv(id)' /\ MarkInv(id)'
    <3>1. HeldInv(id) /\ MarkInv(id) /\ RowInv(id)
      BY <2>5, <2>11 DEF IInv, MarksInv
    <3>2. SyncHolds(id)' = SyncHolds(id) /\ (SyncHolds(id) => id \in Scanned(sync))
      BY <1>1 DEF SyncHolds, IInv, StagesInv
    <3>3. MailHolds(id)' => id = qso.id /\ Qso' = qso
      BY <2>7 DEF MailHolds, Qso, qso
    <3>4. CASE id = qso.id
      <4>1. ~SyncHolds(id)' /\ id \in inDoubt' /\ cards'[UidOf(qso.content)] = qso.content
        BY <2>5, <2>6, <2>11, <3>2, <3>4
      <4>2. log[id] = qso.content \/ id \in astray'
        BY <2>5, <3>4
      <4>3. HeldInv(id)'
        BY <1>1, <3>3, <4>1, <4>2 DEF HeldInv, Unchanged
      <4>4. id \notin astray' => id \notin astray
        BY <2>5
      <4>5. MarkInv(id)'
        BY <1>1, <3>1, <4>1, <4>2, <4>4 DEF MarkInv, Logged
      <4>6. QED BY <4>3, <4>5
    <3>5. CASE id # qso.id
      <4>1. (id \in inDoubt') = (id \in inDoubt) /\ (id \in astray') = (id \in astray)
        BY <2>5, <3>5
      <4>2. \A c \in ContentsOf[id] : cards'[UidOf(c)] = cards[UidOf(c)]
        BY <2>6, <2>11, <3>5
      <4>3. SyncHolds(id) => sync.scanned[id] \in ContentsOf[id]
        BY <3>1, <3>2 DEF RowInv, Scanned
      <4>4. HeldInv(id)'
        BY <1>1, <3>1, <3>2, <3>3, <3>5, <4>1, <4>2, <4>3 DEF HeldInv, Unchanged
      <4>5. MarkInv(id)'
        BY <1>1, <3>1, <4>1, <4>2 DEF MarkInv, Logged, RowInv
      <4>6. QED BY <4>4, <4>5
    <3>6. QED BY <3>4, <3>5
  <2>12. astray' \subseteq inDoubt'
    BY <2>5 DEF IInv, MarksInv
  <2>13. MarksInv'
    BY <2>11, <2>12 DEF MarksInv, Apart, Contacts
  <2>14. QED BY <2>7, <2>8, <2>9, <2>10, <2>13 DEF IInv
<1>6. QED BY <1>3, <1>4, <1>5

(* The mail worker binds and marks what it has uploaded. *)
LEMMA MapForMailStep ==
    ASSUME IInv, MapForMail
    PROVE  IInv'
<1> DEFINE qso == Qso
<1>1. /\ UNCHANGED <<log, cards, ordered, confirmed, overlapped>> /\ sync' = sync
      /\ mail.pc = "map"
      /\ BindQsoUid(qso.id, UidOf(qso.content)) /\ MarkUploaded(qso.id, qso.content)
      /\ inDoubt' = inDoubt \ {qso.id} /\ astray' = astray \ {qso.id}
      /\ mail' = [mail EXCEPT !.uid = UidOf(qso.content), !.pc = "prepare"]
  BY DEF MapForMail, server, Known
<1>2. mail.waiting # <<>> /\ mail \in Mails /\ mail.kind # "idle"
  BY <1>1 DEF IInv, StagesInv, TypeInv
<1>3. qso.id \in Ids /\ qso.content \in ContentsOf[qso.id] /\ log[qso.id] # None
  BY <1>2, CurrentQso
<1>4. MailHolds(qso.id) /\ \A id \in Ids : MailHolds(id) => id = qso.id
  BY <1>1 DEF MailHolds
<1>5. \A id \in Ids : MailHolds(id) => Qso = qso
  OBVIOUS
<1> HIDE DEF qso
<1>6. /\ mapping' \in [Ids -> Uids \union {None}] /\ mapping'[qso.id] = UidOf(qso.content)
      /\ \A id \in Ids \ {qso.id} : mapping'[id] \in {mapping[id], None}
  BY <1>1, <1>3, Bound
<1>7. /\ fingerprint' \in [Ids -> AllContents \union {None}]
      /\ fingerprint'[qso.id] = qso.content
      /\ \A id \in Ids \ {qso.id} : fingerprint'[id] = fingerprint[id]
  BY <1>1, <1>3, Marked
<1>8. /\ mail' \in Mails /\ mail'.pc = "prepare" /\ mail'.kind = mail.kind
      /\ mail'.waiting = mail.waiting /\ mail'.prepared = mail.prepared
  <2>1. UidOf(qso.content) \in Uids
    BY <1>3, EntryTypes
  <2>2. QED BY <1>1, <1>2, <2>1 DEF Mails, MailStages
<1>9. TypeInv'
  BY <1>1, <1>6, <1>7, <1>8 DEF IInv, TypeInv
<1>10. \A id \in Ids : RowInv(id)'
  BY <1>1, <1>3, <1>6, <1>7, <1>8 DEF IInv, RowInv
<1>11. StagesInv'
  BY <1>1, <1>2, <1>8 DEF IInv, StagesInv, Scanned
<1>12. OrderInv'
  BY <1>1, <1>2, <1>8 DEF IInv, OrderInv, OneMailPerConfirmation
<1>13. ASSUME NEW id \in Ids, Apart(id), id \notin overlapped
       PROVE  HeldInv(id)' /\ MarkInv(id)'
  <2>1. HeldInv(id) /\ MarkInv(id) /\ RowInv(id)
    BY <1>13 DEF IInv, MarksInv
  <2>2. SyncHolds(id)' = SyncHolds(id) /\ ~MailHolds(id)'
    BY <1>1, <1>8 DEF SyncHolds, MailHolds
  <2>3. CASE id # qso.id
    <3>1. (id \in inDoubt') = (id \in inDoubt) /\ (id \in astray') = (id \in astray)
      BY <1>1, <2>3
    <3>2. /\ mapping'[id] = mapping[id] \/ mapping'[id] = None
          /\ fingerprint'[id] = fingerprint[id]
      BY <1>6, <1>7, <2>3
    <3>3. sync.pc = "mark" /\ sync.ready = <<id>> /\ SyncHolds(id) =>
            mapping'[id] = UidOf(sync.scanned[id])
      <4>1. SUFFICES ASSUME sync.pc = "mark", sync.ready = <<id>>, SyncHolds(id)
                     PROVE  mapping'[id] = UidOf(sync.scanned[id])
        OBVIOUS
      <4>2. mapping[id] = UidOf(sync.scanned[id])
        BY <2>1, <4>1 DEF HeldInv
      <4>3. sync.scanned[id] \in ContentsOf[id]
        BY <2>1, <4>1 DEF SyncHolds, IInv, StagesInv, RowInv, Scanned
      <4>4. mapping[id] # UidOf(qso.content)
        BY <1>3, <1>13, <2>3, <4>2, <4>3, OtherContacts
      <4>5. mapping'[id] = IF mapping[id] = UidOf(qso.content) THEN None ELSE mapping[id]
        BY <1>1, <2>3 DEF BindQsoUid
      <4>6. QED BY <4>2, <4>4, <4>5
    <3>4. HeldInv(id)'
      BY <1>1, <2>1, <2>2, <3>1, <3>3 DEF HeldInv, Unchanged
    <3>5. MarkInv(id)'
      BY <1>1, <2>1, <3>1, <3>2 DEF MarkInv, Logged
    <3>6. QED BY <3>4, <3>5
  <2>4. CASE id = qso.id
    <3>1. cards[UidOf(qso.content)] = qso.content /\ ~SyncHolds(id)
      BY <1>4, <1>5, <2>1, <2>4 DEF HeldInv
    <3>2. HeldInv(id)'
      BY <2>2, <3>1 DEF HeldInv
    <3>3. MarkInv(id)'
      BY <1>1, <1>6, <1>7, <2>4, <3>1 DEF MarkInv
    <3>4. QED BY <3>2, <3>3
  <2>5. QED BY <2>3, <2>4
<1>14. MarksInv'
  BY <1>1, <1>13 DEF IInv, MarksInv, Apart, Contacts
<1>15. QED BY <1>9, <1>10, <1>11, <1>12, <1>14 DEF IInv
(* A card that is prepared takes the place of the QSO that waited for it.  *)
LEMMA PrepareCardStep ==
    ASSUME IInv, PrepareCard
    PROVE  IInv'
<1>1. /\ UNCHANGED <<log, mapping, fingerprint, cards, overlapped, inDoubt, astray>>
      /\ sync' = sync /\ UNCHANGED <<ordered, confirmed>> /\ mail.pc = "prepare"
  BY DEF PrepareCard, server, history
<1>2. /\ mail.waiting # <<>> /\ mail \in Mails /\ IsFiniteSet(mail.prepared) /\ ordered = 0
      /\ Cardinality(mail.prepared) + Len(mail.waiting) <= confirmed
      /\ confirmed \in Nat /\ ordered \in Nat
  BY <1>1 DEF IInv, TypeInv, StagesInv, OrderInv
<1>3. /\ Len(mail.waiting) \in Nat \ {0} /\ Cardinality(mail.prepared) \in Nat
  BY <1>2, TailOf, FS_CardinalityType DEF Mails
<1>4. \/ GiveUpQso \/ NextOfBatch(mail.prepared \union {mail.uid})
      \/ MailAt("send") \/ MailEnds("failed")
  BY DEF PrepareCard
<1>5. CASE GiveUpQso
  BY <1>1, <1>2, <1>5, GiveUpFacts, MailRelease
<1>6. CASE NextOfBatch(mail.prepared \union {mail.uid})
  <2> DEFINE prepared == mail.prepared \union {mail.uid}
  <2>1. prepared \in SUBSET (Uids \union {None})
    BY <1>2 DEF Mails
  <2>2. /\ IsFiniteSet(prepared) /\ Cardinality(prepared) \in Nat
        /\ Cardinality(prepared) <= Cardinality(mail.prepared) + 1
    <3>1. /\ IsFiniteSet(prepared)
          /\ \/ Cardinality(prepared) = Cardinality(mail.prepared)
             \/ Cardinality(prepared) = Cardinality(mail.prepared) + 1
      BY <1>2, FS_AddElement
    <3>2. QED BY <1>3, <3>1
  <2> HIDE DEF prepared
  <2>3. NextOfBatch(prepared)
    BY <1>6 DEF prepared
  <2>4. /\ GoesOn /\ mail'.pc \in {"ensure", "queue", "failed"}
        /\ mail'.prepared = prepared /\ mail'.kind = mail.kind
        /\ Len(mail'.waiting) = Len(mail.waiting) - 1
    BY <1>1, <1>2, <2>1, <2>3, NextOfBatchFacts
  <2>5. OrderInv'
    BY <1>1, <1>2, <1>3, <2>2, <2>4 DEF OrderInv, OneMailPerConfirmation
  <2>6. QED BY <1>1, <1>2, <2>4, <2>5, MailRelease
<1>7. CASE MailAt("send")
  <2>1. GoesOn /\ mail'.pc = "send" /\ mail'.prepared = mail.prepared /\ mail'.kind = mail.kind
    BY <1>1, <1>7, MailAtFacts DEF MailStages
  <2>2. OrderInv'
    BY <1>1, <1>2, <1>3, <2>1 DEF OrderInv, OneMailPerConfirmation
  <2>3. QED BY <1>1, <1>2, <2>1, <2>2, MailRelease
<1>8. CASE MailEnds("failed")
  <2>1. GoesOn /\ mail'.pc = "failed" /\ mail'.prepared = mail.prepared
    BY <1>1, <1>8, MailEndsFacts
  <2>2. OrderInv'
    BY <1>1, <1>2, <1>3, <2>1 DEF OrderInv, OneMailPerConfirmation
  <2>3. QED BY <1>1, <1>2, <2>1, <2>2, MailRelease
<1>9. QED BY <1>4, <1>5, <1>6, <1>7, <1>8

(* One order is one request, which the server carries out at most once. *)
LEMMA OrderingSteps ==
    ASSUME IInv, MailSend \/ RefreshAfterSend \/ MailQueue
    PROVE  IInv'
<1>1. /\ UNCHANGED <<log, mapping, fingerprint, cards, overlapped, inDoubt, astray>>
      /\ sync' = sync /\ confirmed' = confirmed /\ mail.pc \in {"send", "refresh", "queue"}
  BY DEF MailSend, RefreshAfterSend, MailQueue, server, history, storage
<1>2. /\ IsFiniteSet(mail.prepared) /\ Cardinality(mail.prepared) \in Nat
      /\ confirmed \in Nat /\ ordered \in Nat /\ ordered <= confirmed
  BY FS_CardinalityType DEF IInv, TypeInv, OrderInv, OneMailPerConfirmation
<1>3. \/ MailAt("refresh") /\ mail.pc = "send"
      \/ \E pc \in {"ok", "failed"} : MailEnds(pc)
  BY DEF MailSend, RefreshAfterSend, MailQueue
<1>4. GoesOn /\ mail'.pc \in {"refresh", "ok", "failed"} /\ mail'.prepared = mail.prepared
      /\ mail'.kind = mail.kind
  <2>1. CASE MailAt("refresh")
    BY <1>1, <2>1, MailAtFacts DEF MailStages
  <2>2. CASE \E pc \in {"ok", "failed"} : MailEnds(pc)
    BY <1>1, <2>2, MailEndsFacts
  <2>3. QED BY <1>3, <2>1, <2>2
<1>5. mail.kind # "idle"
  BY <1>1 DEF IInv, StagesInv
<1>6. ordered' \in Nat /\ ordered' <= confirmed
  <2>1. CASE MailSend
    <3>1. ordered = 0 /\ 1 <= confirmed
      BY <2>1 DEF MailSend, IInv, OrderInv
    <3>2. PICK r \in RequestJson : ordered' = ordered + r.executed
      BY <2>1 DEF MailSend
    <3>3. r.executed \in {0, 1}
      BY RequestTypes
    <3>4. QED BY <1>2, <3>1, <3>2, <3>3
  <2>2. CASE RefreshAfterSend
    BY <1>2, <2>2 DEF RefreshAfterSend, server
  <2>3. CASE MailQueue
    <3>1. ordered = 0 /\ Cardinality(mail.prepared) <= confirmed
      BY <2>3 DEF MailQueue, IInv, OrderInv
    <3>2. PICK r \in RequestJson : ordered' = ordered + r.executed * Cardinality(mail.prepared)
      BY <2>3 DEF MailQueue
    <3>3. r.executed = 0 \/ r.executed = 1
      BY RequestTypes
    <3>4. ordered' = 0 \/ ordered' = Cardinality(mail.prepared)
      BY <1>2, <3>1, <3>2, <3>3
    <3>5. QED BY <1>2, <3>1, <3>4
  <2>4. QED BY <2>1, <2>2, <2>3
<1>7. OrderInv'
  BY <1>1, <1>2, <1>4, <1>5, <1>6 DEF OrderInv, OneMailPerConfirmation
<1>8. QED BY <1>1, <1>2, <1>4, <1>6, <1>7, MailRelease

(* The window takes note of the end, or everything in memory is lost. *)
LEMMA MailOverSteps ==
    ASSUME IInv, MailHandled \/ Crash
    PROVE  IInv'
<1>1. /\ UNCHANGED <<log, mapping, fingerprint, cards, overlapped, inDoubt, astray>>
      /\ sync' = sync \/ sync' = NoSync
      /\ mail' = NoMail /\ ordered' = 0 /\ confirmed' = 0
  BY DEF MailHandled, Crash, storage
<1>2. /\ mail' \in Mails /\ mail'.kind = "idle" /\ mail'.pc = "idle"
      /\ mail'.waiting = <<>> /\ mail'.prepared = {}
  BY <1>1 DEF NoMail, Mails, MailStages
<1>3. /\ sync' \in Syncs(sync'.ready) /\ \A id \in Ids : sync'.scanned[id] \in {sync.scanned[id], None}
      /\ sync' # sync => sync'.pc = "idle" /\ sync'.todo = {} /\ sync'.batch = {}
  <2>1. CASE sync' = sync
    BY <2>1 DEF IInv, TypeInv
  <2>2. CASE sync' = NoSync
    <3>1. [id \in Ids |-> None] \in [Ids -> AllContents \union {None}]
      OBVIOUS
    <3>2. QED BY <2>2, <3>1 DEF NoSync, Syncs, SyncStages
  <2>3. QED BY <1>1, <2>1, <2>2
<1>4. TypeInv'
  BY <1>1, <1>2, <1>3 DEF IInv, TypeInv
<1>5. \A id \in Ids : RowInv(id)'
  BY <1>1, <1>2, <1>3, RowsFrame
<1>6. StagesInv'
  BY <1>1, <1>2, <1>3 DEF IInv, StagesInv, Scanned
<1>7. MarksInv'
  <2>1. \A id \in Ids : SyncHolds(id)' =>
           /\ SyncHolds(id) /\ sync'.scanned[id] = sync.scanned[id]
           /\ sync'.pc = "mark" => sync.pc = "mark" /\ sync'.ready = sync.ready
    BY <1>1, <1>3 DEF SyncHolds
  <2>2. \A id \in Ids : ~MailHolds(id)'
    BY <1>2 DEF MailHolds
  <2>3. QED BY <1>1, <2>1, <2>2, MarksFrame
<1>8. OrderInv'
  <2>1. IsFiniteSet({})
    BY FS_EmptySet
  <2>2. QED BY <1>1, <1>2, <2>1 DEF OrderInv, OneMailPerConfirmation
<1>9. QED BY <1>4, <1>5, <1>6, <1>7, <1>8 DEF IInv
-----------------------------------------------------------------------------
(* The user, the server and the clock.                                     *)

(* A change of the log: a QSO that is in doubt is astray, one that is      *)
(* marked keeps the content it was marked with.                            *)
LEMMA LogStep ==
    ASSUME IInv, NEW id \in Ids, NEW content \in ContentsOf[id] \union {Deleted},
           log' = [log EXCEPT ![id] = content], log[id] # Deleted,
           content = Deleted => Logged(id) /\ astray' = astray,
           content # Deleted => astray' = astray \union ({id} \intersect inDoubt),
           UNCHANGED <<mapping, fingerprint, cards, sync, mail, ordered, confirmed>>,
           UNCHANGED <<overlapped, inDoubt>>
    PROVE  IInv'
<1>1. /\ content # None /\ content \in AllContents \union {Deleted}
      /\ log \in [Ids -> AllContents \union {None, Deleted}]
  BY EntryTypes, ContentsAssumption DEF IInv, TypeInv
<1>2. /\ log' \in [Ids -> AllContents \union {None, Deleted}] /\ log'[id] = content
      /\ \A other \in Ids \ {id} : log'[other] = log[other]
  BY <1>1
<1>3. TypeInv'
  BY <1>2 DEF IInv, TypeInv
<1>4. \A l \in Ids : RowInv(l)'
  BY <1>1, <1>2 DEF IInv, RowInv
<1>5. StagesInv'
  BY DEF IInv, StagesInv, Scanned
<1>6. ASSUME NEW l \in Ids, Apart(l), l \notin overlapped
      PROVE  HeldInv(l)' /\ MarkInv(l)'
  <2>1. HeldInv(l) /\ MarkInv(l) /\ RowInv(l)
    BY <1>6 DEF IInv, MarksInv
  <2>2. SyncHolds(l)' = SyncHolds(l) /\ MailHolds(l)' = MailHolds(l) /\ Qso' = Qso
    BY DEF SyncHolds, MailHolds, Qso
  <2>3. CASE l # id
    <3>1. log'[l] = log[l] /\ (l \in astray') = (l \in astray)
      BY <1>2, <2>3
    <3>2. HeldInv(l)'
      BY <2>1, <2>2, <3>1 DEF HeldInv, Unchanged
    <3>3. MarkInv(l)'
      BY <2>1, <3>1 DEF MarkInv, Logged
    <3>4. QED BY <3>2, <3>3
  <2>4. CASE l = id /\ content = Deleted
    <3>1. log'[l] = Deleted /\ astray' = astray
      BY <1>2, <2>4
    <3>2. HeldInv(l)'
      BY <2>1, <2>2, <3>1 DEF HeldInv, Unchanged
    <3>3. MarkInv(l)'
      BY <2>1, <3>1 DEF MarkInv, Logged
    <3>4. QED BY <3>2, <3>3
  <2>5. CASE l = id /\ content # Deleted
    <3>1. log'[l] = content /\ l \in astray' <=> (l \in astray \/ l \in inDoubt)
      BY <1>2, <2>5
    <3>2. HeldInv(l)'
      BY <2>1, <2>2, <3>1 DEF HeldInv, Unchanged
    <3>3. mapping[l] # None => Logged(l)
      BY <2>1, <2>5 DEF RowInv, Logged
    <3>4. MarkInv(l)'
      BY <2>1, <3>1, <3>3 DEF MarkInv
    <3>5. QED BY <3>2, <3>4
  <2>6. QED BY <2>3, <2>4, <2>5
<1>7. astray' \subseteq inDoubt'
  BY DEF IInv, MarksInv
<1>8. MarksInv'
  BY <1>6, <1>7 DEF MarksInv, Apart, Contacts
<1>9. OrderInv'
  BY OrderFrame
<1>10. QED BY <1>3, <1>4, <1>5, <1>8, <1>9 DEF IInv

LEMMA UserSteps ==
    ASSUME IInv, NEW id \in Ids, SaveQso(id) \/ ImportOrEditQso(id) \/ DeleteQso(id)
    PROVE  IInv'
<1>1. RowInv(id) /\ None # Deleted
  BY ContentsAssumption DEF IInv
<1>2. \A content \in ContentsOf[id] : content # Deleted
  BY EntryTypes
<1>3. CASE SaveQso(id)
  <2>1. PICK content \in ContentsOf[id] : log' = [log EXCEPT ![id] = content]
    BY <1>3 DEF SaveQso
  <2>2. /\ UNCHANGED <<mapping, fingerprint, cards, sync, mail, ordered, confirmed>>
        /\ UNCHANGED <<overlapped, inDoubt, astray>> /\ log[id] = None
    BY <1>3 DEF SaveQso, server, history
  <2>3. astray' = astray \union ({id} \intersect inDoubt)
    BY <1>1, <2>2 DEF RowInv
  <2>4. QED BY <1>1, <1>2, <2>1, <2>2, <2>3, LogStep
<1>4. CASE ImportOrEditQso(id)
  <2>1. PICK content \in ContentsOf[id] : log' = [log EXCEPT ![id] = content]
    BY <1>4 DEF ImportOrEditQso
  <2>2. /\ UNCHANGED <<mapping, fingerprint, cards, sync, mail, ordered, confirmed>>
        /\ UNCHANGED <<overlapped, inDoubt>> /\ log[id] # Deleted
        /\ astray' = astray \union ({id} \intersect inDoubt)
    BY <1>4 DEF ImportOrEditQso, storage, workers, server
  <2>3. QED BY <1>2, <2>1, <2>2, LogStep
<1>5. CASE DeleteQso(id)
  <2>1. /\ UNCHANGED <<mapping, fingerprint, cards, sync, mail, ordered, confirmed>>
        /\ UNCHANGED <<overlapped, inDoubt, astray>>
        /\ Logged(id) /\ log' = [log EXCEPT ![id] = Deleted] /\ log[id] # Deleted
    BY <1>5 DEF DeleteQso, storage, workers, server, history, Logged
  <2>2. QED BY <2>1, LogStep
<1>6. QED BY <1>3, <1>4, <1>5

(* Steps that touch at most what is shown, and what the server has sent. *)
LEMMA ShownSteps ==
    ASSUME IInv, \/ QslCheckQueueOnce \/ StatusesGetOld \/ UNCHANGED vars
                 \/ \E uid \in Uids : ServerSendsQueuedMail(uid)
    PROVE  IInv'
<1>1. /\ UNCHANGED <<log, mapping, fingerprint, cards, overlapped, inDoubt, astray>>
      /\ UNCHANGED <<sync, mail, ordered, confirmed>>
  BY DEF QslCheckQueueOnce, StatusesGetOld, ServerSendsQueuedMail, storage, workers, server,
         history, vars
<1>2. TypeInv' /\ (\A id \in Ids : RowInv(id)') /\ StagesInv'
  BY <1>1 DEF IInv, TypeInv, RowInv, StagesInv, Scanned
<1>3. MarksInv'
  <2>1. \A id \in Ids : SyncHolds(id)' = SyncHolds(id) /\ MailHolds(id)' = MailHolds(id)
                        /\ Qso' = Qso
    BY <1>1 DEF SyncHolds, MailHolds, Qso
  <2>2. QED BY <1>1, <2>1, MarksFrame
<1>4. OrderInv'
  BY <1>1, OrderFrame
<1>5. QED BY <1>2, <1>3, <1>4 DEF IInv

-----------------------------------------------------------------------------
(* The specification.                                                      *)

LEMMA InitInv ==
    ASSUME Init
    PROVE  IInv
<1>1. /\ log = [id \in Ids |-> None] /\ mapping = [id \in Ids |-> None]
      /\ fingerprint = [id \in Ids |-> None] /\ cards = [u \in Uids |-> None]
      /\ sync = NoSync /\ mail = NoMail
      /\ ordered = 0 /\ confirmed = 0 /\ overlapped = {} /\ inDoubt = {} /\ astray = {}
  BY DEF Init
<1>2. /\ sync.pc = "idle" /\ sync.todo = {} /\ sync.batch = {} /\ sync.ready = <<>>
      /\ sync.scanned = [id \in Ids |-> None] /\ sync \in Syncs(sync.ready)
  BY <1>1 DEF NoSync, Syncs, SyncStages
<1>3. /\ mail.kind = "idle" /\ mail.pc = "idle" /\ mail.waiting = <<>> /\ mail.prepared = {}
      /\ mail \in Mails
  BY <1>1 DEF NoMail, Mails, MailStages
<1>4. TypeInv
  BY <1>1, <1>2, <1>3 DEF TypeInv
<1>5. \A id \in Ids : RowInv(id)
  BY <1>1, <1>2, <1>3 DEF RowInv
<1>6. StagesInv
  BY <1>2, <1>3 DEF StagesInv, Scanned
<1>7. MarksInv
  BY <1>1, <1>2, <1>3 DEF MarksInv, HeldInv, MarkInv, SyncHolds, MailHolds, Logged
<1>8. OrderInv
  BY <1>1, <1>3, FS_EmptySet DEF OrderInv, OneMailPerConfirmation
<1>9. QED BY <1>4, <1>5, <1>6, <1>7, <1>8 DEF IInv

LEMMA NextInv ==
    ASSUME IInv, Next
    PROVE  IInv'
<1>1. CASE SyncStep
  BY <1>1, BootstrapStep, UploadBatchStep, MapRecordStep, MarkRecordStep, AfterUploadsStep
     DEF SyncStep
<1>2. CASE MailStep
  BY <1>2, EnsureQsoUidStep, MapForMailStep, PrepareCardStep, OrderingSteps, MailOverSteps
     DEF MailStep
<1>3. CASE StartQslBackgroundSync \/ SyncQslNow
  BY <1>3, StartWorkerStep
<1>4. CASE \/ QslCheckQueueOnce \/ StatusesGetOld
           \/ \E uid \in Uids : ServerSendsQueuedMail(uid)
  BY <1>4, ShownSteps
<1>5. CASE \/ \E ids \in SUBSET Ids : QueueSelectedQslEmails(ids)
           \/ \E id \in Ids : SendSelectedQslEmail(id)
  BY <1>5, StartMailSteps
<1>6. CASE \E id \in Ids : SaveQso(id) \/ ImportOrEditQso(id) \/ DeleteQso(id)
  BY <1>6, UserSteps
<1>7. CASE Crash
  BY <1>7, MailOverSteps
<1>8. QED BY <1>1, <1>2, <1>3, <1>4, <1>5, <1>6, <1>7 DEF Next

LEMMA Invariance == Spec => []IInv
<1>1. Init => IInv
  BY InitInv
<1>2. IInv /\ [Next]_vars => IInv'
  BY NextInv, ShownSteps
<1>3. QED BY <1>1, <1>2, PTL DEF Spec

(* A QSO the background run takes for uploaded and leaves alone is on the  *)
(* server as it is in the log, under its own qsoUid                        *)
(* (qsl_background.py:144), whatever the workers, edits, lost answers and  *)
(* crashes were, but for the cases Undisturbed leaves out.                 *)
THEOREM UploadMarksStayTrue == Spec => []UploadMarksAreTrue
<1>1. IInv => UploadMarksAreTrue
  <2>1. SUFFICES ASSUME IInv, NEW id \in Ids, Logged(id), Undisturbed(id),
                        mapping[id] # None, fingerprint[id] = log[id]
                 PROVE  OnServer(id)
    BY DEF UploadMarksAreTrue
  <2>2. MarkInv(id) /\ id \notin astray
    BY <2>1 DEF IInv, MarksInv, Undisturbed, Apart
  <2>3. fingerprint[id] # None /\ mapping[id] = UidOf(log[id])
    BY <2>1, <2>2 DEF MarkInv, Logged
  <2>4. cards[UidOf(log[id])] = log[id]
    BY <2>1, <2>2, <2>3 DEF MarkInv
  <2>5. QED BY <2>3, <2>4 DEF OnServer
<1>2. QED BY <1>1, Invariance, PTL

(* No more mails are ordered than the user has confirmed, one per QSO of   *)
(* the confirmation, whatever requests are lost, repeated or fail          *)
(* (qsl_delivery.py send_single_qsl and queue_qsl_batch,                   *)
(* docs/en/USER_GUIDE.md:190).                                             *)
THEOREM MailsAreConfirmed == Spec => []OneMailPerConfirmation
<1>1. IInv => OneMailPerConfirmation
  BY DEF IInv, OrderInv
<1>2. QED BY <1>1, Invariance, PTL

================================================================================
