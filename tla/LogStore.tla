------------------------------ MODULE LogStore ------------------------------
(***************************************************************************)
(* The canonical ADI logbook of one profile (class LogStore of             *)
(* logger_core.py): journaled appends, atomic rewrites, crash recovery and *)
(* the parsed-record cache.                                                *)
(*                                                                         *)
(* All operations hold the store's lock, so one operation runs at a time;  *)
(* its durable steps are separate actions, so that a crash, a write error  *)
(* or a restart may fall between any two of them.  Simplifications:        *)
(*  - the file is a sequence of cells, see AdiFile;                        *)
(*  - a missing and an empty file behave alike and are both <<>>;          *)
(*  - replacing and unlinking a file are atomic and happen on disk in      *)
(*    program order; bytes not yet fsynced may be lost by a crash, which   *)
(*    is the same as the crash coming before they were written;            *)
(*  - the stat signature (size, mtime, inode, ctime) tells any two         *)
(*    versions of the file apart: fresh says that it still matches.        *)
(* Operators called Faulty... are wrong on purpose; no action uses them.   *)
(* Put in place of the definition that follows, each breaks a property.    *)
(***************************************************************************)
EXTENDS AdiFile

CONSTANTS
    Batches,          \* the sequences of records a caller may hand over
    InitialLogs,      \* contents the logbook may be found with
    InitialEncodings, \* "utf8" and, for logs of old versions, "latin1"
    ForeignLogs,      \* contents another program may put in the ADI file
    ForeignEncodings, \* and their encodings
    MaxForeign,       \* bound: how often another program does so
    UnreadableReads,  \* TRUE if reading the ADI file may raise
    NoJournal, NoCache, Unreadable

Identities == {r.id : r \in Rec}

ASSUME SetsAssumption ==
    /\ \A r \in Rec : "id" \in DOMAIN r
    /\ Batches \subseteq Seq(Rec) \ {<<>>}
    /\ InitialLogs \subseteq Seq(Rec)
    /\ ForeignLogs \subseteq Seq(Rec)
    /\ InitialEncodings \subseteq {"utf8", "latin1"}
    /\ ForeignEncodings \subseteq {"utf8", "latin1"}
    /\ MaxForeign \in Nat
    /\ UnreadableReads \in BOOLEAN

(* New QSOs get identities of their own (add_many, upsert_many,            *)
(* import_adif), and so did those of an older version.                     *)
ASSUME DistinctAssumption == \A recs \in Batches \cup InitialLogs : Distinct(recs)

ASSUME MarkersAssumption ==
    /\ NoJournal \notin [size : Nat, recs : Seq(Rec)]
    /\ NoCache \notin Seq(Rec)
    /\ Unreadable \notin Seq(Rec)

VARIABLES
    file,     \* cells of the ADI file
    enc,      \* its encoding; "mixed" once UTF-8 was appended to Latin-1
    journal,  \* the .append-journal: previous size and records to append
    pc,       \* where the running operation stands
    op,       \* the running operation
    applying, \* it has written its own append journal
    new,      \* the content a rewrite is about to put in place
    cache,    \* _cache_records
    fresh,    \* the cached stat signature matches the file's
    ready,    \* the file's path is in _append_ready_paths
    result,   \* outcome of the last finished operation
    edition   \* how often another program replaced the file

disk   == <<file, enc, journal>>
memory == <<cache, fresh, ready>>
vars   == <<disk, pc, op, applying, new, memory, result, edition>>

-----------------------------------------------------------------------------
(* The append journal against the file. *)

Payload == Encode(journal.recs)
Base    == SubSeq(file, 1, journal.size)
FileTail == SubSeq(file, journal.size + 1, Len(file))

(* _recover_pending_append goes on: the file is there, is not shorter than *)
(* when the journal was written, and what follows starts the payload.      *)
Recoverable ==
    /\ file # <<>>
    /\ Len(file) >= journal.size
    /\ IsPrefix(FileTail, Payload)

(* The records the logbook stands for: a pending append counts as done     *)
(* from the moment its journal is in place, since recovery completes it.   *)
Content ==
    IF journal # NoJournal /\ Recoverable
    THEN Decode(Base) \o journal.recs
    ELSE Decode(file)

-----------------------------------------------------------------------------
NoOp == [kind |-> "none", recs |-> <<>>, ids |-> {}]

Op == [kind : {"none", "open", "scan", "add", "update", "upsert", "delete",
               "import"},
       recs : Seq(Rec), ids : SUBSET Identities]

PC == {"down", "idle", "recover", "append", "written", "run", "journal",
       "replace"}

TypeOK ==
    /\ file \in Seq(Cell)
    /\ enc \in {"utf8", "latin1", "mixed"}
    /\ journal \in [size : Nat, recs : Seq(Rec)] \cup {NoJournal}
    /\ pc \in PC
    /\ op \in Op
    /\ applying \in BOOLEAN
    /\ new \in Seq(Rec)
    /\ cache \in Seq(Rec) \cup {NoCache}
    /\ fresh \in BOOLEAN
    /\ ready \in BOOLEAN
    /\ result \in {"none", "ok", "error"}
    /\ edition \in Nat

Init ==
    /\ \E recs \in InitialLogs : file = Encode(recs)
    /\ enc \in InitialEncodings
    /\ journal = NoJournal
    /\ pc = "down"
    /\ op = NoOp
    /\ applying = FALSE
    /\ new = <<>>
    /\ cache = NoCache
    /\ fresh = FALSE
    /\ ready = FALSE
    /\ result = "none"
    /\ edition = 0

(* The operation ends and releases the lock. *)
End(where, outcome) ==
    /\ pc' = where
    /\ op' = NoOp
    /\ applying' = FALSE
    /\ new' = <<>>
    /\ result' = outcome

(* It raises; a store whose constructor raises is never used. *)
Raise == End(IF op.kind = "open" THEN "down" ELSE "idle", "error")

InvalidateCache == cache' = NoCache /\ fresh' = FALSE

-----------------------------------------------------------------------------
(* Reading.  _load_records answers from the cache while the file's stat    *)
(* signature is the cached one, and otherwise parses the file.             *)

Cached == cache # NoCache /\ fresh

Loads ==
    IF Cached THEN {cache}
    ELSE {Decode(file)} \cup
         (IF UnreadableReads /\ file # <<>> THEN {Unreadable} ELSE {})

Loaded(seen) ==
    /\ cache' = IF seen = Unreadable \/ file = <<>> THEN NoCache ELSE seen
    /\ fresh' = (seen # Unreadable /\ file # <<>>)
    /\ ready' = (ready \/ (~Cached /\ seen # Unreadable /\ file # <<>>
                             /\ enc = "utf8"))

(* scan, find and count treat an unreadable file as an empty one. *)
NonStrict(seen) == IF seen = Unreadable THEN <<>> ELSE seen

-----------------------------------------------------------------------------
(* Starting an operation.  Every operation but an append to a missing file *)
(* recovers a pending append first.                                        *)

Begin(kind, recs, ids) ==
    /\ pc = "idle"
    /\ op' = [kind |-> kind, recs |-> recs, ids |-> ids]
    /\ result' = "none"
    /\ UNCHANGED <<disk, applying, memory, edition>>

Open ==
    /\ pc = "down"
    /\ pc' = "recover"
    /\ op' = [NoOp EXCEPT !.kind = "open"]
    /\ result' = "none"
    /\ UNCHANGED <<disk, applying, new, memory, edition>>

BeginScan == Begin("scan", <<>>, {}) /\ pc' = "recover" /\ UNCHANGED new

(* New QSOs carry new identities. *)
BeginAdd ==
    \E recs \in Batches :
        /\ Ids(recs) \cap Ids(Content) = {}
        /\ Begin("add", recs, {})
        /\ IF file = <<>>
           THEN pc' = "replace" /\ new' = recs
           ELSE pc' = "recover" /\ UNCHANGED new

BeginUpdate ==
    \E recs \in Batches :
        /\ Len(recs) = 1
        /\ Begin("update", recs, {})
        /\ pc' = "recover"
        /\ UNCHANGED new

BeginUpsert ==
    \E recs \in Batches :
        Begin("upsert", recs, {}) /\ pc' = "recover" /\ UNCHANGED new

BeginDelete ==
    \E ids \in SUBSET Identities :
        /\ ids # {}
        /\ Begin("delete", <<>>, ids)
        /\ pc' = "recover"
        /\ UNCHANGED new

(* Imported QSOs keep an identity only if the logbook does not have it. *)
BeginImport ==
    \E recs \in Batches :
        /\ Ids(recs) \cap Ids(Content) = {}
        /\ Begin("import", recs, {})
        /\ pc' = "recover"
        /\ UNCHANGED new

-----------------------------------------------------------------------------
(* _recover_pending_append, run by every operation and once more to carry  *)
(* out an append whose journal has just been written.                      *)

(* Revalidates the cache without the appended records. *)
FaultyAfterRecovery ==
    \/ /\ op.kind = "open"
       /\ End("idle", "ok")
       /\ UNCHANGED <<cache, fresh>>
    \/ /\ op.kind # "open" /\ ~applying
       /\ pc' = "run"
       /\ UNCHANGED <<op, applying, new, result, cache, fresh>>
    \/ /\ applying
       /\ End("idle", "ok")
       /\ UNCHANGED cache
       /\ fresh' = (cache # NoCache)

(* What follows a recovery: the constructor is done, the operation goes on *)
(* with its body, or the append that was applied is done and the cache is  *)
(* extended by the appended records.                                       *)
AfterRecovery ==
    \/ /\ op.kind = "open"
       /\ End("idle", "ok")
       /\ UNCHANGED <<cache, fresh>>
    \/ /\ op.kind # "open" /\ ~applying
       /\ pc' = "run"
       /\ UNCHANGED <<op, applying, new, result, cache, fresh>>
    \/ /\ applying
       /\ End("idle", "ok")
       /\ cache' = IF cache = NoCache THEN NoCache ELSE cache \o op.recs
       /\ fresh' = (cache # NoCache)

RecoverNothing ==
    /\ pc = "recover"
    /\ journal = NoJournal
    /\ AfterRecovery
    /\ UNCHANGED <<disk, ready, edition>>

(* Drops a journal that contradicts the file. *)
FaultyRecoverRefuse ==
    /\ pc = "recover"
    /\ journal # NoJournal
    /\ ~Recoverable
    /\ journal' = NoJournal
    /\ Raise
    /\ UNCHANGED <<file, enc, memory, edition>>

RecoverRefuse ==
    /\ pc = "recover"
    /\ journal # NoJournal
    /\ ~Recoverable
    /\ Raise
    /\ UNCHANGED <<disk, memory, edition>>

(* Takes a partly written payload for a complete one. *)
FaultyRecoverDone ==
    /\ pc = "recover"
    /\ journal # NoJournal
    /\ Recoverable
    /\ FileTail # <<>>
    /\ journal' = NoJournal
    /\ ready' = TRUE
    /\ AfterRecovery
    /\ UNCHANGED <<file, enc, edition>>

(* The append had been completed; only the journal was left. *)
RecoverDone ==
    /\ pc = "recover"
    /\ journal # NoJournal
    /\ Recoverable
    /\ FileTail = Payload
    /\ journal' = NoJournal
    /\ ready' = TRUE
    /\ AfterRecovery
    /\ UNCHANGED <<file, enc, edition>>

(* Undoes the interrupted append instead of completing it. *)
FaultyRecoverTruncate ==
    /\ pc = "recover"
    /\ journal # NoJournal
    /\ Recoverable
    /\ FileTail # Payload
    /\ file' = Base
    /\ journal' = NoJournal
    /\ fresh' = FALSE
    /\ pc' = "recover"
    /\ UNCHANGED <<enc, op, applying, new, cache, ready, result, edition>>

(* Cut off a partly written payload, then append all of it. *)
RecoverTruncate ==
    /\ pc = "recover"
    /\ journal # NoJournal
    /\ Recoverable
    /\ FileTail # Payload
    /\ file' = Base
    /\ fresh' = (fresh /\ FileTail = <<>>)
    /\ pc' = "append"
    /\ UNCHANGED <<enc, journal, op, applying, new, cache, ready, result,
                   edition>>

(* Each write puts at least one more cell of the payload in the file. *)
AppendPayload ==
    /\ pc = "append"
    /\ \E n \in (Len(FileTail) + 1)..Len(Payload) :
          /\ file' = Base \o SubSeq(Payload, 1, n)
          /\ pc' = IF n = Len(Payload) THEN "written" ELSE "append"
    /\ fresh' = FALSE
    /\ enc' = IF enc = "latin1" THEN "mixed" ELSE enc
    /\ UNCHANGED <<journal, op, applying, new, cache, ready, result, edition>>

(* Leaves the journal behind. *)
FaultyVerified ==
    /\ pc = "written"
    /\ FileTail = Payload
    /\ ready' = TRUE
    /\ AfterRecovery
    /\ UNCHANGED <<disk, edition>>

(* The appended tail is read back before the journal is removed. *)
Verified ==
    /\ pc = "written"
    /\ FileTail = Payload
    /\ journal' = NoJournal
    /\ ready' = TRUE
    /\ AfterRecovery
    /\ UNCHANGED <<file, enc, edition>>

-----------------------------------------------------------------------------
(* Bodies of the operations. *)

(* _append_records up to the journal: the path is known to take UTF-8, or  *)
(* the file turns out to be UTF-8, or a Latin-1 file is rewritten once;    *)
(* c is what the cache holds of the file, if anything.                      *)
PrepareAppend(c) ==
    /\ pc' = "journal"
    /\ ready' = TRUE
    /\ IF ready \/ enc = "utf8"
       THEN /\ UNCHANGED <<file, enc>>
            /\ cache' = c
            /\ fresh' = (c # NoCache)
       ELSE /\ file' = Encode(Decode(file))
            /\ enc' = IF enc = "latin1" THEN "utf8" ELSE enc
            /\ InvalidateCache
    /\ UNCHANGED <<op, new, result>>

(* _write_file: the new content is written to a temporary file. *)
PrepareRewrite(recs) ==
    /\ pc' = "replace"
    /\ new' = recs
    /\ UNCHANGED <<file, enc, op, result>>

Body(kind) ==
    /\ pc = "run"
    /\ op.kind = kind
    /\ UNCHANGED <<journal, applying, edition>>

RunScan ==
    /\ pc = "run"
    /\ op.kind = "scan"
    /\ \E seen \in Loads : Loaded(seen)
    /\ End("idle", "ok")
    /\ UNCHANGED <<disk, edition>>

RunAdd == Body("add") /\ PrepareAppend(IF Cached THEN cache ELSE NoCache)

(* The operation leaves the logbook as it is. *)
Nothing(outcome) ==
    /\ pc = "run"
    /\ End("idle", outcome)
    /\ UNCHANGED <<disk, edition>>

RunUpdate ==
    \E seen \in Loads :
        /\ Loaded(seen)
        /\ op.kind = "update"
        /\ IF Ids(op.recs) \subseteq Ids(NonStrict(seen))
           THEN /\ Body("update")
                /\ \E kept \in Kept(seen, Ids(op.recs)) :
                      PrepareRewrite(kept \o op.recs)
           ELSE Nothing("error")

(* Never rewrites a logbook that could not be read. *)
RunUpsert ==
    \E seen \in Loads :
        \/ /\ seen = Unreadable
           /\ op.kind = "upsert"
           /\ Nothing("error")
           /\ Loaded(seen)
        \/ /\ seen # Unreadable
           /\ Body("upsert")
           /\ IF Ids(op.recs) \cap Ids(seen) = {} /\ file # <<>>
              THEN PrepareAppend(seen)
              ELSE /\ Loaded(seen)
                   /\ \E kept \in Kept(seen, Ids(op.recs)) :
                         PrepareRewrite(kept \o op.recs)

RunDelete ==
    \E seen \in Loads :
        /\ Loaded(seen)
        /\ op.kind = "delete"
        /\ IF op.ids \cap Ids(NonStrict(seen)) # {}
           THEN /\ Body("delete")
                /\ \E kept \in Kept(seen, op.ids) : PrepareRewrite(kept)
           ELSE Nothing("ok")

RunImport ==
    \E seen \in Loads :
        /\ Loaded(seen)
        /\ Body("import")
        /\ PrepareRewrite(NonStrict(seen) \o op.recs)

-----------------------------------------------------------------------------
(* Durable steps of the bodies. *)

(* Notes a size one past the end of the file. *)
FaultyWriteJournal ==
    /\ pc = "journal"
    /\ journal' = [size |-> Len(file) + 1, recs |-> op.recs]
    /\ applying' = TRUE
    /\ pc' = "recover"
    /\ UNCHANGED <<file, enc, op, new, memory, result, edition>>

WriteJournal ==
    /\ pc = "journal"
    /\ journal' = [size |-> Len(file), recs |-> op.recs]
    /\ applying' = TRUE
    /\ pc' = "recover"
    /\ UNCHANGED <<file, enc, op, new, memory, result, edition>>

(* os.replace of the temporary file, or unlink if nothing is left.  An     *)
(* import then reads the file back and raises if it cannot.                *)
Replace ==
    /\ pc = "replace"
    /\ file' = Encode(new)
    /\ enc' = IF enc = "mixed" /\ new # <<>> THEN enc ELSE "utf8"
    /\ journal' = NoJournal
    /\ InvalidateCache
    /\ ready' = (new # <<>>)
    /\ \/ End("idle", "ok")
       \/ UnreadableReads /\ op.kind = "import" /\ End("idle", "error")
    /\ UNCHANGED edition

-----------------------------------------------------------------------------
(* The environment. *)

(* A read, write, rename or unlink of the running operation raises. *)
IOError ==
    /\ pc \in {"recover", "append", "written", "run", "journal", "replace"}
    /\ (pc = "recover" => journal # NoJournal)
    /\ (pc = "run" => op.kind = "add")
    /\ Raise
    /\ IF applying \/ pc = "replace"
       THEN InvalidateCache
       ELSE UNCHANGED <<cache, fresh>>
    /\ UNCHANGED <<disk, ready, edition>>

(* The process dies or the power fails; only the disk survives. *)
Crash ==
    /\ pc # "down"
    /\ End("down", "none")
    /\ InvalidateCache
    /\ ready' = FALSE
    /\ UNCHANGED <<disk, edition>>

(* Another program replaces the ADI file: between two operations, or while *)
(* the logger is not running, even with an append pending.                 *)
Foreign ==
    /\ edition < MaxForeign
    /\ pc = "down" \/ (pc = "idle" /\ journal = NoJournal)
    /\ \E recs \in ForeignLogs, e \in ForeignEncodings :
          /\ file' = Encode(recs)
          /\ enc' = e
    /\ edition' = edition + 1
    /\ fresh' = FALSE
    /\ UNCHANGED <<journal, pc, op, applying, new, cache, ready, result>>

-----------------------------------------------------------------------------
Start == BeginScan \/ BeginAdd \/ BeginUpdate \/ BeginUpsert \/ BeginDelete
            \/ BeginImport

Recover == RecoverNothing \/ RecoverRefuse \/ RecoverDone \/ RecoverTruncate
              \/ AppendPayload \/ Verified

Run == RunScan \/ RunAdd \/ RunUpdate \/ RunUpsert \/ RunDelete \/ RunImport
          \/ WriteJournal \/ Replace

Next == Open \/ Start \/ Recover \/ Run \/ IOError \/ Crash \/ Foreign

(* Once started, an operation keeps running: it holds the lock, and        *)
(* nothing it does waits for another thread.                               *)
Spec == Init /\ [][Next]_vars /\ WF_vars(Recover \/ Run)

-----------------------------------------------------------------------------
(* Properties. *)

(* A half-written record is in the file only while a journal can complete  *)
(* or remove it (_append_records, _write_file).                            *)
TornOnlyUnderJournal == journal = NoJournal => Whole(file)

(* As long as only the logger writes the file, crashes and write errors    *)
(* never bring file and journal into contradiction: the RuntimeErrors of   *)
(* _recover_pending_append, which would keep a profile from opening, stay  *)
(* out of reach, and the records before the append are whole.              *)
PendingAppendRecoverable ==
    (journal # NoJournal /\ edition = 0) => (Recoverable /\ Whole(Base))

(* Records answered from the cache are those of the file, also right after *)
(* an append extended the cache and after another program wrote the file   *)
(* (_cached_records, _append_records).                                     *)
CacheCoherent == Cached => cache = Decode(file)

(* No two records of the logbook share an identity, a pending append       *)
(* included: the identity is what sync metadata is keyed by.  (What        *)
(* another program puts in place may meet a pending append.)               *)
UniqueIds == edition = 0 => Distinct(Content)

(* A caller told that its QSO was saved finds it, whole, at the end of the *)
(* file, and nothing is left that a later recovery could append again.     *)
AcknowledgedIsDurable ==
    [][(applying /\ ~applying' /\ result' = "ok") =>
          /\ journal' = NoJournal
          /\ Whole(file')
          /\ \E n \in 0..Len(Decode(file')) :
                op.recs = SubSeq(Decode(file'), n + 1, Len(Decode(file')))]_vars

(* A file and a journal that contradict each other are left alone, by      *)
(* every operation, until someone replaces the file.                       *)
ContradictionIsFrozen ==
    [][(journal # NoJournal /\ ~Recoverable /\ edition' = edition) =>
          UNCHANGED disk]_vars

-----------------------------------------------------------------------------
(* The inductive invariant behind the safety properties: IInv holds        *)
(* initially, every step preserves it, and it implies them.                *)

(* Where operations stand, and what they carry. *)
OpInv ==
    /\ pc \in {"idle", "down"} => (op = NoOp /\ ~applying)
    /\ op.kind \in {"add", "update", "upsert", "import"} => op.recs \in Batches
    /\ (op.kind = "add" /\ pc \in {"recover", "run"}) => file # <<>>
    /\ pc \in {"run", "journal", "replace"} =>
          (journal = NoJournal /\ op.kind # "open" /\ ~applying)

(* A pending append stands on complete records.  It is out of the way of   *)
(* operations that have started, and only a file another program put in    *)
(* place contradicts it.                                                   *)
JournalInv ==
    journal # NoJournal =>
        /\ journal.recs \in Batches
        /\ journal.size > 0 /\ journal.size % 2 = 0
        /\ Recoverable => Whole(Base)
        /\ edition = 0 => Recoverable
        /\ (pc # "down" /\ op.kind # "open") => Recoverable

(* The two halves of an append after its journal has been read. *)
AppendInv ==
    /\ pc \in {"append", "written"} => (journal # NoJournal /\ Recoverable)
    /\ pc = "written" => FileTail = Payload

(* An operation carrying out its own append: the cache still holds the     *)
(* records before it.                                                      *)
ApplyInv ==
    /\ pc = "journal" =>
          /\ op.kind \in {"add", "upsert"}
          /\ file # <<>>
          /\ cache # NoCache => fresh
    /\ applying =>
          /\ pc \in {"recover", "append", "written"}
          /\ op.kind \in {"add", "upsert"}
          /\ journal # NoJournal
          /\ journal.recs = op.recs
          /\ Recoverable
          /\ cache # NoCache => cache = Decode(Base)

(* What a rewrite is about to put in place. *)
RewriteInv ==
    pc = "replace" =>
        \/ op.kind = "add" /\ file = <<>> /\ new = op.recs
        \/ /\ op.kind \in {"update", "upsert"}
           /\ \E kept \in Kept(Decode(file), Ids(op.recs)) :
                 new = kept \o op.recs
        \/ op.kind = "delete" /\ new \in Kept(Decode(file), op.ids)
        \/ op.kind = "import" /\ new = Decode(file) \o op.recs
        \/ op.kind = "import" /\ UnreadableReads /\ new = op.recs

(* An operation that has yet to add its records adds new identities; that  *)
(* UniqueIds holds takes this as well.                                     *)
Adds ==
    /\ ~applying
    /\ op.kind \in {"add", "import"} \/ (op.kind = "upsert" /\ pc = "journal")

IdentityInv ==
    /\ UniqueIds
    /\ edition = 0 /\ Adds => Ids(op.recs) \cap Ids(Content) = {}

IInv ==
    /\ TypeOK
    /\ OpInv
    /\ JournalInv
    /\ AppendInv
    /\ ApplyInv
    /\ RewriteInv
    /\ TornOnlyUnderJournal
    /\ CacheCoherent

-----------------------------------------------------------------------------
(* The logbook is a durable log whose records are Content.                 *)

(* A file put in place under a pending append is completed by it.          *)
ForeignContents ==
    ForeignLogs \cup
        {SubSeq(f[1], 1, f[2]) \o f[3] :
            f \in UNION {{l} \X (0..Len(l)) \X Batches : l \in ForeignLogs}}

Durable ==
    INSTANCE DurableLog WITH log <- Content, ForeignLogs <- ForeignContents

(* Crashes at any point, write errors and recoveries included, every step  *)
(* of the store is one indivisible step of a durable log or none.          *)
ImplementsDurableLog == Durable!Spec
=============================================================================
