---------------------------- MODULE LogbookView ----------------------------
(***************************************************************************)
(* The logbook table and the pages that use its cache (feature_qso_sync,   *)
(* feature_fastlog, feature_stats): one worker reads the log in the        *)
(* background, its answer replaces the caches, and the table follows by a  *)
(* few row operations or by a rebuild in batches; edits and deletions are  *)
(* written by another thread while the table already shows them.           *)
(*                                                                         *)
(* The log of a profile is a sequence of rows in the order of the table;   *)
(* what a row shows beyond its id is a version.  The window's own state is *)
(* one record, view, and each method of the window is an operator from     *)
(* views to views, so that a handler is the composition of its calls.      *)
(***************************************************************************)
EXTENDS QsoTreeView, FiniteSetsExt

CONSTANTS InitialLogs,   \* the logs of the profiles, by profile
          Filters,       \* the choices of the statistics page
          Batch,         \* rows per step of a rebuild (400)
          MaxOps,        \* how often the user, another program or a sync acts
          MaxFaults,     \* how many reads and writes fail
          DisturbRebuild \* the user leaves the page or deletes rows during a rebuild

VARIABLES logs,          \* the ADI logs
          profile,       \* the active profile
          view,          \* the window
          refresh,       \* the worker that reads the log
          write,         \* the thread that edits or deletes
          unannounced,   \* a sync has changed the log and not yet said so
          ops, faults,
          gone           \* history: ids the user deleted, unless that failed

vars == <<logs, profile, view, refresh, write, unannounced, ops, faults, gone>>

Profiles == DOMAIN InitialLogs
Pages == {"qsos", "fast_log", "stats", "log"}
Log == logs[profile]

ASSUME ParametersAssumption ==
    /\ Batch \in Nat \ {0}
    /\ MaxOps \in Nat /\ MaxFaults \in Nat /\ DisturbRebuild \in BOOLEAN

NoRows == [known |-> FALSE, rows |-> <<>>]
Rows(rows) == [known |-> TRUE, rows |-> rows]
NoKey == [generation |-> 0, filter |-> "none"]

-----------------------------------------------------------------------------
(* The methods of the window                                               *)

Visible(v, rows) == SelectSeq(rows, LAMBDA row : row.id \notin v.hidden)

\* _render_qso_tree_batch: the next rows of the cache as it is now; the last batch marks
\* the table as showing the present generation.
RenderQsoTreeBatch(v) ==
    LET first == v.rebuild.at + 1
        last  == Min({Len(v.cached), v.rebuild.at + Batch})
        added == Visible(v, SubSeq(v.cached, first, last))
        new   == SelectSeq(added, LAMBDA row : row.id \notin Ids(v.tree))
        rendered == v.rebuild.rendered \o new
    IN  IF last < Len(v.cached)
        THEN [v EXCEPT !.tree = @ \o new,
                       !.rebuild = [active |-> TRUE, at |-> last, rendered |-> rendered]]
        ELSE [v EXCEPT !.tree = @ \o new, !.treeRows = Rows(rendered),
                       !.treeGeneration = v.cacheGeneration,
                       !.rebuild = [active |-> FALSE, at |-> 0, rendered |-> <<>>]]

\* The full rebuild: an empty table and its first batch.
Rebuild(v) ==
    RenderQsoTreeBatch([v EXCEPT !.tree = <<>>, !.treeRows = NoRows,
                                 !.rebuild = [active |-> TRUE, at |-> 0, rendered |-> <<>>]])

\* _ensure_qso_tree_rendered
EnsureQsoTreeRendered(v) ==
    LET rows == Visible(v, v.cached)
        diff == Operations(v.treeRows.rows, rows)
    IN  IF ~v.loaded \/ v.treeGeneration = v.cacheGeneration THEN v
        ELSE IF /\ v.treeRows.known /\ v.treeRows.rows # <<>>
                /\ ~NeedsRebuild(v.treeRows.rows, rows)
                /\ AcceptsAll(v.tree, diff)
             THEN [v EXCEPT !.tree = ApplyRowDiff(v.tree, diff), !.treeRows = Rows(rows),
                            !.treeGeneration = v.cacheGeneration]
             ELSE Rebuild(v)

\* Mutant: a change during a refresh is not told apart from the one being read.
RefreshQsosUncounted(v, force) ==
    LET d == IF force THEN [v EXCEPT !.dirty = TRUE] ELSE v
    IN  IF d.loaded /\ ~d.dirty
        THEN IF d.page = "qsos" THEN EnsureQsoTreeRendered(d) ELSE d
        ELSE IF d.running THEN d ELSE [d EXCEPT !.job = TRUE]

\* refresh_qsos: with nothing to read it only renders, else a refresh is scheduled unless
\* one is running, whose end looks at the generation again.
RefreshQsos(v, force) ==
    LET d == IF force THEN [v EXCEPT !.dirty = TRUE, !.generation = @ + 1] ELSE v
    IN  IF d.loaded /\ ~d.dirty
        THEN IF d.page = "qsos" THEN EnsureQsoTreeRendered(d) ELSE d
        ELSE IF d.running THEN d ELSE [d EXCEPT !.job = TRUE]

\* refresh_fast_log_page: the worked keys follow the cache when it has changed.
RefreshFastLogPage(v) ==
    IF ~v.loaded THEN RefreshQsos(v, FALSE)
    ELSE LET r == IF v.dirty THEN RefreshQsos(v, FALSE) ELSE v
         IN  IF r.fastGeneration = r.cacheGeneration THEN r
             ELSE [r EXCEPT !.keys = Ids(r.cached), !.fastGeneration = r.cacheGeneration]

\* refresh_stats: one request per cache generation and filter, unless it is shown already
\* or is the one being computed.
RefreshStats(v) ==
    LET key == [generation |-> v.cacheGeneration, filter |-> v.filter]
    IN  IF ~v.loaded \/ v.dirty THEN RefreshQsos(v, FALSE)
        ELSE IF v.statsRendered = key \/ (v.statsRunning /\ v.statsPending = key) THEN v
        ELSE [v EXCEPT !.statsRequest = @ + 1, !.statsRunning = TRUE, !.statsPending = key,
                       !.statsFailed = FALSE, !.statsThreads = @ \union {[request |-> v.statsRequest + 1, key |-> key]}]

\* _show_page
ShowPageOf(v, page) ==
    LET shown == [v EXCEPT !.page = page]
    IN  CASE page = "qsos"     -> RefreshQsos(shown, FALSE)
          [] page = "fast_log" -> RefreshFastLogPage(shown)
          [] page = "stats"    -> RefreshStats(shown)
          [] OTHER             -> shown

\* _remove_tree_rows_now: the rows disappear before the deletion is written.
RemoveTreeRowsNow(v, ids) ==
    LET Stays(row) == row.id \notin ids
    IN  [v EXCEPT !.hidden = @ \union ids, !.tree = SelectSeq(@, Stays),
                  !.treeRows.rows = SelectSeq(@, Stays)]

-----------------------------------------------------------------------------
NoWrite == [kind |-> "none", ids |-> {}, done |-> "", deleted |-> {}]
NoRefresh == [phase |-> "idle", generation |-> 0, profile |-> "", rows |-> <<>>]

FirstView ==
    [page |-> "log", filter |-> "all", dirty |-> TRUE, loaded |-> FALSE, running |-> FALSE,
     job |-> FALSE, failed |-> FALSE, generation |-> 0, cacheGeneration |-> 0, cached |-> <<>>,
     tree |-> <<>>, treeRows |-> Rows(<<>>), treeGeneration |-> -1,
     rebuild |-> [active |-> FALSE, at |-> 0, rendered |-> <<>>], hidden |-> {},
     keys |-> {}, fastGeneration |-> -1, session |-> <<>>,
     statsRequest |-> 0, statsRunning |-> FALSE, statsFailed |-> FALSE, statsPending |-> NoKey,
     statsRendered |-> NoKey, statsThreads |-> {}]

\* The window asks for the first refresh as soon as it is built.
Init ==
    /\ logs = InitialLogs
    /\ profile \in Profiles
    /\ view = RefreshQsos(FirstView, TRUE)
    /\ refresh = NoRefresh
    /\ write = NoWrite
    /\ unannounced = FALSE
    /\ ops = 0 /\ faults = 0
    /\ gone = {}

Operation == ops < MaxOps /\ ops' = ops + 1
Fault == faults < MaxFaults /\ faults' = faults + 1

\* Every id that is still known somewhere; a new QSO gets the next one.
UsedIds ==
    UNION {Ids(logs[p]) : p \in Profiles} \union gone \union ToSet(view.session)
    \union Ids(view.cached) \union Ids(view.tree) \union Ids(refresh.rows)
    \union view.hidden \union write.ids
NewRow == [id |-> Max(UsedIds \union {0}) + 1, ver |-> 0]

-----------------------------------------------------------------------------
(* The worker that reads the log                                           *)

\* _start_qso_refresh, when the scheduled job is due.
StartQsoRefresh ==
    /\ view.job
    /\ LET due == [view EXCEPT !.job = FALSE] IN
       IF due.running THEN view' = due /\ UNCHANGED refresh
       ELSE IF due.loaded /\ ~due.dirty
            THEN view' = EnsureQsoTreeRendered(due) /\ UNCHANGED refresh
            ELSE /\ view' = [due EXCEPT !.running = TRUE, !.failed = FALSE]
                 /\ refresh' = [phase |-> "scan", generation |-> view.generation,
                                profile |-> profile, rows |-> <<>>]
    /\ UNCHANGED <<logs, profile, write, unannounced, ops, faults, gone>>

\* A worker that outlives its profile may find the database closed.
Scan ==
    /\ refresh.phase = "scan"
    /\ refresh' = [refresh EXCEPT !.phase = "ready", !.rows = logs[refresh.profile]]
    /\ UNCHANGED <<logs, profile, view, write, unannounced, ops, faults, gone>>

ScanFails ==
    /\ refresh.phase = "scan"
    /\ \/ refresh.profile # profile /\ UNCHANGED faults
       \/ Fault
    /\ refresh' = [refresh EXCEPT !.phase = "failed"]
    /\ UNCHANGED <<logs, profile, view, write, unannounced, ops, gone>>

\* Mutant: only a switch of the profile makes an answer stale.
StaleProfile == refresh.profile # profile

Stale == refresh.generation # view.generation \/ refresh.profile # profile


\* The caches of an accepted answer; hidden ids that are not in it are forgotten.
Accepted(v) ==
    [v EXCEPT !.cached = refresh.rows, !.hidden = @ \intersect Ids(refresh.rows),
              !.dirty = FALSE, !.loaded = TRUE, !.cacheGeneration = @ + 1]

Shown(v) ==
    CASE v.page = "qsos"     -> EnsureQsoTreeRendered(v)
      [] v.page = "fast_log" -> RefreshFastLogPage(v)
      [] v.page = "stats"    -> RefreshStats(v)
      [] OTHER               -> v

\* _qso_refresh_ready
QsoRefreshReady ==
    /\ refresh.phase = "ready"
    /\ LET ended == [view EXCEPT !.running = FALSE] IN
       view' = IF Stale THEN RefreshQsos(ended, FALSE) ELSE Shown(Accepted(ended))
    /\ refresh' = NoRefresh
    /\ UNCHANGED <<logs, profile, write, unannounced, ops, faults, gone>>

\* _qso_refresh_failed: only a change in the meantime makes it try again.
QsoRefreshFailed ==
    /\ refresh.phase = "failed"
    /\ LET ended == [view EXCEPT !.running = FALSE] IN
       view' = IF refresh.generation # view.generation THEN RefreshQsos(ended, FALSE)
               ELSE [ended EXCEPT !.failed = TRUE]
    /\ refresh' = NoRefresh
    /\ UNCHANGED <<logs, profile, write, unannounced, ops, faults, gone>>

\* The next batch of a rebuild, when the window is idle.
RenderBatch ==
    /\ view.rebuild.active
    /\ view' = RenderQsoTreeBatch(view)
    /\ UNCHANGED <<logs, profile, refresh, write, unannounced, ops, faults, gone>>

-----------------------------------------------------------------------------
(* Edits and deletions                                                     *)

Writing == write.kind # "none"
Undisturbed == DisturbRebuild \/ ~view.rebuild.active

DeleteSelectedQso ==
    /\ Operation
    /\ view.page = "qsos" /\ ~Writing /\ Undisturbed
    /\ \E ids \in SUBSET Ids(view.tree) :
          /\ ids # {}
          /\ view' = RemoveTreeRowsNow(view, ids)
          /\ write' = [kind |-> "delete", ids |-> ids, done |-> "", deleted |-> {}]
          /\ gone' = gone \union ids
    /\ UNCHANGED <<logs, profile, refresh, unannounced, faults>>

\* The edit dialog writes one QSO, which must still be there.
SaveEditedQso ==
    /\ Operation
    /\ view.page = "qsos" /\ ~Writing
    /\ \E id \in Ids(view.tree) \intersect Ids(Log) :
          write' = [kind |-> "edit", ids |-> {id}, done |-> "", deleted |-> {}]
    /\ UNCHANGED <<logs, profile, view, refresh, unannounced, faults, gone>>

\* store.delete_many and mark_pending_delete_many.
WriteDeletes ==
    /\ write.kind = "delete" /\ write.done = ""
    /\ logs' = [logs EXCEPT ![profile] = SelectSeq(@, LAMBDA row : row.id \notin write.ids)]
    /\ write' = [write EXCEPT !.done = "ok", !.deleted = write.ids \intersect Ids(Log)]
    /\ UNCHANGED <<profile, view, refresh, unannounced, ops, faults, gone>>

\* store.update: another version, at another place when its time was changed.
Edited(rows, id) ==
    LET row   == RowOf(rows, id)
        new   == [row EXCEPT !.ver = @ + 1]
        other == SelectSeq(rows, LAMBDA r : r.id # id)
    IN  {[i \in DOMAIN rows |-> IF rows[i].id = id THEN new ELSE rows[i]], <<new>> \o other}

WriteEdits ==
    /\ write.kind = "edit" /\ write.done = ""
    /\ IF write.ids \subseteq Ids(Log)
       THEN /\ \E id \in write.ids : \E rows \in Edited(Log, id) :
                  logs' = [logs EXCEPT ![profile] = rows]
            /\ write' = [write EXCEPT !.done = "ok"]
       ELSE /\ write' = [write EXCEPT !.done = "failed"]
            /\ UNCHANGED logs
    /\ UNCHANGED <<profile, view, refresh, unannounced, ops, faults, gone>>

WriteFails ==
    /\ Writing /\ write.done = ""
    /\ Fault
    /\ write' = [write EXCEPT !.done = "failed"]
    /\ UNCHANGED <<logs, profile, view, refresh, unannounced, ops, gone>>

\* Ids that were not deleted reappear; the deleted ones stay hidden until a refresh without them.
WriteDone ==
    /\ write.done = "ok"
    /\ view' = RefreshQsos([view EXCEPT !.hidden = @ \ (write.ids \ write.deleted)], TRUE)
    /\ write' = NoWrite
    /\ UNCHANGED <<logs, profile, refresh, unannounced, ops, faults, gone>>

WriteFailed ==
    /\ write.done = "failed"
    /\ LET shown == IF write.kind = "delete" THEN [view EXCEPT !.hidden = @ \ write.ids]
                    ELSE view
       IN  view' = RefreshQsos(shown, TRUE)
    /\ gone' = IF write.kind = "delete" THEN gone \ write.ids ELSE gone
    /\ write' = NoWrite
    /\ UNCHANGED <<logs, profile, refresh, unannounced, ops, faults>>

-----------------------------------------------------------------------------
(* New QSOs, other programs, the user                                      *)

SaveFastLogQso ==
    /\ Operation
    /\ view.page = "fast_log"
    /\ LET saved == [view EXCEPT !.session = Append(@, NewRow.id),
                                 !.keys = @ \union {NewRow.id}]
       IN  view' = RefreshFastLogPage(RefreshQsos(saved, TRUE))
    /\ logs' = [logs EXCEPT ![profile] = <<NewRow>> \o @]
    /\ UNCHANGED <<profile, refresh, write, unannounced, faults, gone>>

\* Only a QSO that is in the log and has not been sent can be taken back.
UndoLastFastLogQso ==
    /\ Operation
    /\ view.page = "fast_log" /\ view.session # <<>>
    /\ Last(view.session) \in Ids(Log)
    /\ LET id == Last(view.session) IN
       /\ logs' = [logs EXCEPT ![profile] = SelectSeq(@, LAMBDA row : row.id # id)]
       /\ gone' = gone \union {id}
    /\ view' = RefreshFastLogPage(RefreshQsos([view EXCEPT !.session = Front(@)], TRUE))
    /\ UNCHANGED <<profile, refresh, write, unannounced, faults>>

\* A QSO received by UDP, or saved in the form, is announced at once.
SaveQso ==
    /\ Operation
    /\ logs' = [logs EXCEPT ![profile] = <<NewRow>> \o @]
    /\ view' = RefreshQsos(view, TRUE)
    /\ UNCHANGED <<profile, refresh, write, unannounced, faults, gone>>

\* A sync writes from its own thread, also while an edit or a deletion is being written,
\* and refreshes the view when it has ended.
SyncChangesLog ==
    /\ Operation
    /\ ~unannounced
    /\ \/ \E id \in Ids(Log) : \E rows \in Edited(Log, id) :
             logs' = [logs EXCEPT ![profile] = rows]
       \/ logs' = [logs EXCEPT ![profile] = Append(@, NewRow)]
       \/ \E id \in Ids(Log) :
             logs' = [logs EXCEPT ![profile] = SelectSeq(@, LAMBDA row : row.id # id)]
    /\ unannounced' = TRUE
    /\ UNCHANGED <<profile, view, refresh, write, faults, gone>>

SyncEnds ==
    /\ unannounced
    /\ unannounced' = FALSE
    /\ view' = RefreshQsos(view, TRUE)
    /\ UNCHANGED <<logs, profile, refresh, write, ops, faults, gone>>

ShowPage ==
    /\ Operation
    /\ \E page \in Pages \ {view.page} :
          /\ view.page = "qsos" => Undisturbed
          /\ view' = ShowPageOf(view, page)
    /\ UNCHANGED <<logs, profile, refresh, write, unannounced, faults, gone>>

ChooseFilter ==
    /\ Operation
    /\ view.page = "stats"
    /\ \E filter \in Filters \ {view.filter} :
          view' = RefreshStats([view EXCEPT !.filter = filter])
    /\ UNCHANGED <<logs, profile, refresh, write, unannounced, faults, gone>>

\* switch_profile is refused during a sync or a write.  It empties the Fast Log session
\* and asks for a refresh; the caches stay those of the old profile until it is there.
SwitchProfile ==
    /\ Operation
    /\ ~Writing /\ ~unannounced /\ Undisturbed
    /\ profile' \in Profiles \ {profile}
    /\ LET cleared == RefreshFastLogPage([view EXCEPT !.session = <<>>])
       IN  view' = RefreshStats(RefreshQsos(cleared, TRUE))
    /\ UNCHANGED <<logs, refresh, write, unannounced, faults, gone>>

-----------------------------------------------------------------------------
(* Statistics                                                              *)

\* _stats_refresh_ready: the answer of an older request is dropped, one for an older
\* cache asks again.
StatsReady(thread) ==
    /\ thread \in view.statsThreads
    /\ LET rest == [view EXCEPT !.statsThreads = @ \ {thread}]
           ended == [rest EXCEPT !.statsRunning = FALSE, !.statsPending = NoKey]
       IN  view' = IF thread.request # view.statsRequest THEN rest
                   ELSE IF thread.key.generation # view.cacheGeneration THEN RefreshStats(ended)
                   ELSE [ended EXCEPT !.statsRendered = thread.key]
    /\ UNCHANGED <<logs, profile, refresh, write, unannounced, ops, faults, gone>>

StatsRefreshReady == \E thread \in view.statsThreads : StatsReady(thread)

\* _stats_refresh_failed: only the failure of the last request shows.
StatsRefreshFailed ==
    /\ Fault
    /\ \E thread \in view.statsThreads :
          LET rest == [view EXCEPT !.statsThreads = @ \ {thread}]
          IN  view' = IF thread.request # view.statsRequest THEN rest
                      ELSE [rest EXCEPT !.statsRunning = FALSE, !.statsPending = NoKey,
                                        !.statsFailed = TRUE]
    /\ UNCHANGED <<logs, profile, refresh, write, unannounced, ops, gone>>

-----------------------------------------------------------------------------
Next ==
    \/ StartQsoRefresh \/ Scan \/ ScanFails \/ QsoRefreshReady \/ QsoRefreshFailed
    \/ RenderBatch
    \/ DeleteSelectedQso \/ SaveEditedQso
    \/ WriteDeletes \/ WriteEdits \/ WriteFails \/ WriteDone \/ WriteFailed
    \/ SaveFastLogQso \/ UndoLastFastLogQso \/ SaveQso
    \/ SyncChangesLog \/ SyncEnds
    \/ ShowPage \/ ChooseFilter \/ SwitchProfile
    \/ StatsRefreshReady \/ StatsRefreshFailed

\* The Tk loop runs its jobs, threads end, a sync ends.
Fairness ==
    /\ WF_vars(StartQsoRefresh)
    /\ WF_vars(Scan \/ ScanFails)
    /\ WF_vars(QsoRefreshReady \/ QsoRefreshFailed)
    /\ WF_vars(RenderBatch)
    /\ WF_vars(WriteDeletes \/ WriteEdits \/ WriteFails)
    /\ WF_vars(WriteDone \/ WriteFailed)
    /\ WF_vars(SyncEnds)
    /\ WF_vars(StatsRefreshReady \/ StatsRefreshFailed)

Spec == Init /\ [][Next]_vars /\ Fairness

-----------------------------------------------------------------------------
(* Properties                                                              *)

\* The pages catch up: once nobody acts any more, the logbook page shows exactly the log,
\* whatever the order in which writes, syncs, refreshes and batches ended, and the
\* statistics page shows statistics of the present cache, of the whole log, and computes
\* none; unless they say that reading or computing failed (feature_qso_sync.py:204, :417,
\* feature_stats.py:376).
ViewCatchesUp ==
    <>[]/\ view.page = "qsos" /\ ~view.failed => view.tree = Log
        /\ view.page = "stats" /\ ~view.failed /\ ~view.statsFailed =>
              /\ ~view.statsRunning
              /\ view.statsRendered.generation = view.cacheGeneration
              /\ view.cached = Log


\* Fast Log knows its own QSOs: a QSO of the session that is in the log counts as worked
\* without a gap, although the keys are replaced whenever the cache is
\* (feature_fastlog.py:211, :264).
FastLogKnowsItsQsos ==
    ToSet(view.session) \intersect Ids(Log) \subseteq view.keys
=============================================================================
