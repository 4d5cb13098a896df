----------------------------- MODULE ContestSync -----------------------------
(***************************************************************************)
(* Contest presets and the contest sessions of Wavelog (ContestSyncEngine, *)
(* feature_contest): presets are edited and QSOs are logged with serial    *)
(* numbers here, sessions change on Wavelog, and a sync copies the presets *)
(* into memory, talks to Wavelog request by request, and writes the copy   *)
(* back.  The handlers of the user do the same within one call: they read  *)
(* the presets in one transaction and write them in another, and the sync, *)
(* which is a thread of its own, may come between.  Simplifications:       *)
(*  - content stands for what both sides store of a contest (times,        *)
(*    comment, exchange); every edit makes a content of its own;           *)
(*  - names are valid ADIF names, as the dialog demands, and unique; an    *)
(*    edit keeps the contest and the name;                                 *)
(*  - a contest stands for its ADIF name and year, a QSO here for its      *)
(*    Wavelog id once it is uploaded; uploads are those of SyncEngine;     *)
(*  - serial numbers count per station, not per band or operator;          *)
(*  - the catalogue of contests and the status line are left out.          *)
(***************************************************************************)
EXTENDS Naturals, FiniteSets, FiniteSetsExt, Functions

CONSTANTS Contests, QsoIds,
          PresetIds, SessionIds,   \* 1 .. n: each is used once, in order
          None,
          Starts,                  \* presets and log a profile may be opened with
          MaxOps,                  \* bound: acts of the user and of others on Wavelog
          MaxFaults,               \* bound: requests that fail and crashes
          MaxSyncs                 \* bound: syncs

ASSUME IdsAssumption ==
    /\ IsFiniteSet(PresetIds) /\ PresetIds \subseteq Nat \ {0}
    /\ IsFiniteSet(SessionIds) /\ SessionIds \subseteq Nat \ {0}
    /\ IsFiniteSet(QsoIds) /\ QsoIds \subseteq Nat
    /\ None \notin [contest : Contests, content : Nat, dirty : BOOLEAN,
                    rid : SessionIds \union {0}, qsos : SUBSET QsoIds]

VARIABLES
    presets,                \* contest_presets
    running,                \* contest_session: preset and next serial number
    log,                    \* contest QSOs of the local log: contest, serial and preset
    uploaded,               \* those that have a Wavelog id
    sessions, api,          \* contest sessions on Wavelog, and whether it has any
    job, at, todo,          \* the running sync and where it stands
    mine,                   \* its copy of the presets
    found,                  \* the sessions it has listed or made
    result,                 \* how it goes: "ok", "history" or "failed"
    born, minted,           \* preset and session ids used so far
    ops, faults, syncs,
    hand,                   \* the handler of the user that is under way
    quiet,                  \* history: nobody interfered with the running sync
    disturbed,              \* history: QSOs logged during a sync, or whose save broke off
    overwritten,            \* history: saves of a sync undone by the write of a handler
    made                    \* history: sessions created for each preset

vars == <<presets, running, log, uploaded, sessions, api, job, at, todo, mine, found,
          result, born, minted, ops, faults, syncs, hand, quiet, disturbed, overwritten, made>>
jobVars == <<job, at, todo, mine, found, result>>
boundVars == <<faults, syncs>>
handVars == <<hand, disturbed, overwritten>>

Preset(contest, content, dirty, rid, qsos) ==
    [contest |-> contest, content |-> content, dirty |-> dirty, rid |-> rid, qsos |-> qsos]
Session(contest, content, linked) ==
    [contest |-> contest, content |-> content, linked |-> linked]

Known(f) == {x \in DOMAIN f : f[x] # None}

\* What earlier use leaves behind: presets numbered from 1 on, and QSOs that belong to the
\* preset they were logged with, each with a serial number of its own.
ASSUME StartsAssumption ==
    \A start \in Starts :
        /\ start.presets \in [PresetIds ->
               [contest : Contests, content : Nat, dirty : BOOLEAN,
                rid : SessionIds \union {0}, qsos : SUBSET QsoIds] \union {None}]
        /\ start.log \in [QsoIds ->
               [contest : Contests, serial : Nat, of : PresetIds] \union {None}]
        /\ Known(start.presets) = 1 .. Cardinality(Known(start.presets))
        /\ \A q \in Known(start.log) :
               /\ start.log[q].of \in Known(start.presets)
               /\ q \in start.presets[start.log[q].of].qsos
               /\ \A r \in Known(start.log) :
                      (q # r /\ start.log[q].of = start.log[r].of)
                         => start.log[q].serial # start.log[r].serial

\* A handler goes through its steps: a contest QSO is in the log and to be assigned to its
\* preset, the presets are read and to be written, the serial number is to be counted.
Idle == [step |-> "idle", saving |-> {}, draft |-> [p \in PresetIds |-> None], stale |-> FALSE]
Drafted(rows, saving) == [step |-> "write", saving |-> saving, draft |-> rows, stale |-> FALSE]

Init ==
    /\ \E start \in Starts :
          /\ presets = start.presets /\ log = start.log
          /\ born = Cardinality(Known(start.presets))
    /\ running = None /\ uploaded = {}
    /\ sessions = [s \in SessionIds |-> None] /\ api \in BOOLEAN
    /\ job = "none" /\ at = "idle" /\ todo = {} /\ mine = presets
    /\ found = {} /\ result = "ok"
    /\ minted = 0
    /\ ops = 0 /\ faults = 0 /\ syncs = 0
    /\ hand = Idle
    /\ quiet = FALSE /\ disturbed = {} /\ overwritten = 0
    /\ made = [p \in PresetIds |-> 0]

Operation == ops < MaxOps /\ ops' = ops + 1
Fault == faults < MaxFaults /\ faults' = faults + 1

\* The content of the next edit.
Edition == ops + 1

-----------------------------------------------------------------------------
(* The user                                                                *)

outsideVars == <<uploaded, sessions, api, jobVars, minted, boundVars, made>>

\* The user begins something: the window runs one handler at a time.
Begins == Operation /\ hand.step = "idle"

\* The handler goes on; whatever sync is running is not undisturbed.
GoesOn(next) == hand' = next /\ quiet' = FALSE

\* _save_contest_preset: a new preset, or an edited one, is to be pushed.
NewPreset ==
    /\ Begins
    /\ born + 1 \in PresetIds
    /\ born' = born + 1
    /\ \E contest \in Contests :
          GoesOn(Drafted([presets EXCEPT ![born'] = Preset(contest, Edition, TRUE, 0, {})], {}))
    /\ UNCHANGED <<presets, running, log, outsideVars, disturbed, overwritten>>

Edited(p) == [presets EXCEPT ![p].content = Edition, ![p].dirty = TRUE]

EditPreset ==
    /\ Begins
    /\ \E p \in Known(presets) : GoesOn(Drafted(Edited(p), {}))
    /\ UNCHANGED <<presets, running, log, born, outsideVars, disturbed, overwritten>>

\* delete_contest_preset: locally, and not the one of the running session.
DeletePreset ==
    /\ Begins
    /\ \E p \in Known(presets) :
          /\ running # None => running.preset # p
          /\ GoesOn(Drafted([presets EXCEPT ![p] = None], {}))
    /\ UNCHANGED <<presets, running, log, born, outsideVars, disturbed, overwritten>>

\* Mutant: every session counts from the start serial.
StartSerialOnly(preset) == 1

\* The serial after the highest one of the QSOs already assigned to the preset.
NextSerial(preset) ==
    Max({1} \union {log[q].serial + 1 : q \in preset.qsos \intersect Known(log)})

StartContestSession ==
    /\ Begins
    /\ running = None
    /\ \E p \in Known(presets) : running' = [preset |-> p, next |-> NextSerial(presets[p])]
    /\ UNCHANGED <<presets, log, born, outsideVars, hand, quiet, disturbed, overwritten>>

\* The session is ended first; its end is an edit of its preset, if that is still there.
StopContestSession ==
    /\ Begins
    /\ running # None
    /\ running' = None
    /\ GoesOn(Drafted(IF presets[running.preset] = None THEN presets
                      ELSE Edited(running.preset), {}))
    /\ UNCHANGED <<presets, log, born, outsideVars, disturbed, overwritten>>

\* save_contest_qso, up to the append to the log.
AddContestQso ==
    /\ Begins
    /\ running # None /\ presets[running.preset] # None
    /\ \E q \in QsoIds \ Known(log) :
          /\ \A r \in QsoIds \ Known(log) : q <= r
          /\ log' = [log EXCEPT ![q] = [contest |-> presets[running.preset].contest,
                                        serial |-> running.next, of |-> running.preset]]
          /\ GoesOn([Idle EXCEPT !.step = "assign", !.saving = {q}])
          /\ disturbed' = IF job = "none" THEN disturbed ELSE disturbed \union {q}
    /\ UNCHANGED <<presets, running, born, outsideVars, overwritten>>

\* The presets are read again and the QSO is added to its own.
AssignContestQso ==
    /\ hand.step = "assign"
    /\ GoesOn(Drafted(IF presets[running.preset] = None THEN presets
                      ELSE [presets EXCEPT ![running.preset].qsos = @ \union hand.saving],
                      hand.saving))
    /\ UNCHANGED <<presets, running, log, born, ops, outsideVars, disturbed, overwritten>>

\* _save_contest_presets: what was read, with the change, replaces what is there now.
WritePresets ==
    /\ hand.step = "write"
    /\ presets' = hand.draft
    /\ overwritten' = IF hand.stale THEN overwritten + 1 ELSE overwritten
    /\ GoesOn(IF hand.saving = {} THEN Idle
              ELSE [Idle EXCEPT !.step = "count", !.saving = hand.saving])
    /\ UNCHANGED <<running, log, born, ops, outsideVars, disturbed>>

\* The session is stored with the next serial number.
CountContestQso ==
    /\ hand.step = "count"
    /\ running' = [running EXCEPT !.next = @ + 1]
    /\ GoesOn(Idle)
    /\ UNCHANGED <<presets, log, born, ops, outsideVars, disturbed, overwritten>>

\* A statement of the handler raises: the error is shown and the rest is not done.
HandlerFails ==
    /\ hand.step # "idle" /\ Fault
    /\ GoesOn(Idle)
    /\ disturbed' = disturbed \union hand.saving
    /\ UNCHANGED <<presets, running, log, uploaded, sessions, api, jobVars, born, minted, ops,
                   syncs, overwritten, made>>

-----------------------------------------------------------------------------
(* Wavelog and its other users                                             *)

\* A push or the QSO part of a full sync has uploaded a QSO.
QsoUploaded ==
    /\ job = "none"
    /\ \E q \in Known(log) \ uploaded : uploaded' = uploaded \union {q}
    /\ UNCHANGED <<presets, running, log, sessions, api, jobVars, born, minted, ops, boundVars,
                   handVars, quiet, made>>

SessionsChange ==
    /\ Operation /\ api
    /\ \/ /\ minted + 1 \in SessionIds
          /\ minted' = minted + 1
          /\ \E contest \in Contests, linked \in SUBSET uploaded :
                sessions' = [sessions EXCEPT ![minted'] = Session(contest, Edition, linked)]
       \/ /\ \E s \in Known(sessions) :
                \/ sessions' = [sessions EXCEPT ![s].content = Edition]
                \/ sessions' = [sessions EXCEPT ![s] = None]
          /\ UNCHANGED minted
    /\ quiet' = FALSE
    /\ UNCHANGED <<presets, running, log, uploaded, api, jobVars, born, boundVars, handVars, made>>

\* An older Wavelog is updated and offers contest sessions from now on.
WavelogUpdated ==
    /\ ~api /\ job = "none"
    /\ api' = TRUE
    /\ UNCHANGED <<presets, running, log, uploaded, sessions, jobVars, born, minted, ops,
                   boundVars, handVars, quiet, made>>

-----------------------------------------------------------------------------
(* The sync                                                                *)

userVars == <<running, log, uploaded, api, ops, overwritten>>

ToLink(rows) == {p \in Known(rows) : rows[p].rid # 0 /\ rows[p].qsos \intersect uploaded # {}}

\* A QSO that is not yet written to its preset is not in the copy the sync makes.
Copies ==
    /\ mine' = presets /\ result' = "ok" /\ found' = {}
    /\ quiet' = (hand.step = "idle")
    /\ disturbed' = IF hand.step = "count" THEN disturbed ELSE disturbed \union hand.saving

StartFull ==
    /\ job = "none" /\ syncs < MaxSyncs
    /\ job' = "full" /\ at' = "list" /\ todo' = {}
    /\ Copies
    /\ syncs' = syncs + 1
    /\ UNCHANGED <<presets, sessions, userVars, hand, born, minted, faults, made>>

\* link_pending, after a push of new QSOs.
StartLinkPending ==
    /\ job = "none" /\ syncs < MaxSyncs
    /\ job' = "link" /\ at' = "link" /\ todo' = ToLink(presets)
    /\ Copies
    /\ syncs' = syncs + 1
    /\ UNCHANGED <<presets, sessions, userVars, hand, born, minted, faults, made>>

Step == job # "none" /\ UNCHANGED <<presets, job, userVars, hand, disturbed, syncs, quiet>>

\* _merge_qso_history: the first preset of a contest gets all its QSOs; a contest without
\* one gets a preset that is not to be pushed.
MergeQsoHistory(rows, new) ==
    LET Of(contest) == {q \in Known(log) : log[q].contest = contest}
        Presets(contest) == {p \in Known(rows) : rows[p].contest = contest}
    IN  [p \in PresetIds |->
            IF p = new.id THEN Preset(new.contest, 0, FALSE, 0, Of(new.contest))
            ELSE IF rows[p] # None /\ p = Min(Presets(rows[p].contest))
                 THEN [rows[p] EXCEPT !.qsos = @ \union Of(rows[p].contest)]
            ELSE rows[p]]

Unlisted == {log[q].contest : q \in Known(log)} \ {mine[p].contest : p \in Known(mine)}

\* Wavelog answers that it has no contest sessions: the presets of contests in the log are
\* restored one by one, then saved.
ListMissing ==
    /\ Step /\ at = "list" /\ ~api
    /\ result' = "history"
    /\ IF Unlisted = {}
       THEN /\ mine' = MergeQsoHistory(mine, [id |-> 0, contest |-> None])
            /\ at' = "save"
            /\ UNCHANGED born
       ELSE /\ born + 1 \in PresetIds /\ born' = born + 1
            /\ \E contest \in Unlisted :
                  mine' = MergeQsoHistory(mine, [id |-> born', contest |-> contest])
            /\ UNCHANGED at
    /\ UNCHANGED <<sessions, todo, found, minted, faults, made>>

\* Any other failure of the list ends the sync and saves nothing.
ListFails ==
    /\ at = "list" /\ result = "ok" /\ Fault
    /\ job' = "none" /\ at' = "idle" /\ mine' = presets
    /\ UNCHANGED <<presets, sessions, userVars, hand, disturbed, todo, found, result, born,
                   minted, syncs, quiet, made>>

Listed ==
    /\ Step /\ at = "list" /\ api
    /\ found' = Known(sessions)
    /\ todo' = {p \in Known(mine) : mine[p].dirty}
    /\ at' = "push"
    /\ UNCHANGED <<sessions, mine, result, born, minted, faults, made>>

Next1 == Min(todo)
Done == todo' = todo \ {Next1}

\* What Wavelog does with a preset: it patches its session or creates one.
Patches(p) ==
    /\ mine[p].rid # 0 /\ sessions[mine[p].rid] # None
    /\ sessions' = [sessions EXCEPT ![mine[p].rid].content = mine[p].content]
    /\ UNCHANGED <<minted, made>>

Creates(p) ==
    /\ mine[p].rid = 0 /\ minted + 1 \in SessionIds
    /\ minted' = minted + 1
    /\ sessions' = [sessions EXCEPT ![minted'] = Session(mine[p].contest, mine[p].content, {})]
    /\ made' = [made EXCEPT ![p] = @ + 1]

\* Mutant: the QSOs of the preset are not carried over.
FromRemoteBare(s, session, old) == Preset(session.contest, session.content, FALSE, s, {})

\* _contest_preset_from_remote
FromRemote(s, session, old) ==
    Preset(session.contest, session.content, FALSE, s, IF old = None THEN {} ELSE old.qsos)

\* Mutant: the answer to a push does not bring the session id.
PushPresetUnnamed ==
    /\ Step /\ at = "push" /\ todo # {} /\ Done
    /\ Patches(Next1) \/ Creates(Next1)
    /\ LET s == IF mine[Next1].rid # 0 THEN mine[Next1].rid ELSE minted'
       IN  /\ mine' = [mine EXCEPT ![Next1].dirty = FALSE]
           /\ found' = found \union {s}
    /\ UNCHANGED <<at, result, born, faults>>

PushPreset ==
    /\ Step /\ at = "push" /\ todo # {} /\ Done
    /\ Patches(Next1) \/ Creates(Next1)
    /\ LET s == IF mine[Next1].rid # 0 THEN mine[Next1].rid ELSE minted'
       IN  /\ mine' = [mine EXCEPT ![Next1] = FromRemote(s, sessions'[s], @)]
           /\ found' = found \union {s}
    /\ UNCHANGED <<at, result, born, faults>>

\* The session is gone, the request does not arrive, or its answer is lost.
PushPresetFails ==
    /\ Step /\ at = "push" /\ todo # {} /\ Done
    /\ \/ /\ mine[Next1].rid # 0 /\ sessions[mine[Next1].rid] = None
          /\ UNCHANGED <<sessions, minted, made, faults>>
       \/ Fault /\ UNCHANGED <<sessions, minted, made>>
       \/ Fault /\ (Patches(Next1) \/ Creates(Next1))
    /\ result' = "failed"
    /\ UNCHANGED <<at, mine, found, born>>

PushesDone ==
    /\ Step /\ at = "push" /\ todo = {}
    /\ at' = "pull" /\ todo' = found
    /\ UNCHANGED <<sessions, mine, found, result, born, minted, faults, made>>

\* The preset of a session: the one with its id, else a new one.
PullSession ==
    /\ Step /\ at = "pull" /\ todo # {} /\ Done
    /\ sessions[Next1] # None
    /\ LET s == Next1
           linked == sessions[s].linked \intersect uploaded
           mineOf == {p \in Known(mine) : mine[p].rid = s}
       IN  IF mineOf # {}
           THEN LET p == Min(mineOf)
                    merged == FromRemote(s, sessions[s], mine[p])
                IN  /\ mine' = [mine EXCEPT ![p] = [merged EXCEPT !.qsos = @ \union linked]]
                    /\ UNCHANGED born
           ELSE /\ born + 1 \in PresetIds /\ born' = born + 1
                /\ mine' = [mine EXCEPT ![born'] =
                               [FromRemote(s, sessions[s], None) EXCEPT !.qsos = linked]]
    /\ UNCHANGED <<sessions, at, found, result, minted, faults, made>>

PullSessionFails ==
    /\ Step /\ at = "pull" /\ todo # {} /\ Done
    /\ \/ sessions[Next1] = None /\ UNCHANGED faults
       \/ Fault
    /\ result' = "failed"
    /\ UNCHANGED <<sessions, at, mine, found, born, minted, made>>

PullsDone ==
    /\ Step /\ at = "pull" /\ todo = {}
    /\ at' = "link" /\ todo' = ToLink(mine)
    /\ UNCHANGED <<sessions, mine, found, result, born, minted, faults, made>>

\* _link_pending_presets: Wavelog adds the uploaded QSOs of a preset to its session.
Links(p) ==
    /\ sessions[mine[p].rid] # None
    /\ sessions' = [sessions EXCEPT ![mine[p].rid].linked =
                       @ \union (mine[p].qsos \intersect uploaded)]

LinkPreset ==
    /\ Step /\ at = "link" /\ todo # {} /\ Done
    /\ Links(Next1)
    /\ UNCHANGED <<at, mine, found, result, born, minted, faults, made>>

LinkPresetFails ==
    /\ Step /\ at = "link" /\ todo # {} /\ Done
    /\ \/ sessions[mine[Next1].rid] = None /\ UNCHANGED <<sessions, faults>>
       \/ Fault /\ UNCHANGED sessions
       \/ Fault /\ Links(Next1)
    /\ result' = "failed"
    /\ UNCHANGED <<at, mine, found, born, minted, made>>

LinksDone ==
    /\ Step /\ at = "link" /\ todo = {}
    /\ at' = "save"
    /\ UNCHANGED <<sessions, todo, mine, found, result, born, minted, faults, made>>

\* The copy replaces the presets, whatever they have become in the meantime; a handler that
\* has read them before will undo that.
SavePresets ==
    /\ at = "save"
    /\ presets' = mine
    /\ job' = "none" /\ at' = "idle"
    /\ hand' = IF hand.step = "write" THEN [hand EXCEPT !.stale = TRUE] ELSE hand
    /\ UNCHANGED <<sessions, userVars, disturbed, todo, mine, found, result, born, minted,
                   boundVars, quiet, made>>

\* The settings and the log survive, the sync and the handler do not.
Crash ==
    /\ job # "none" \/ hand.step # "idle"
    /\ Fault
    /\ job' = "none" /\ at' = "idle" /\ mine' = presets
    /\ hand' = Idle /\ disturbed' = disturbed \union hand.saving
    /\ UNCHANGED <<presets, sessions, userVars, todo, found, result, born, minted, syncs, quiet, made>>

User == \/ NewPreset \/ EditPreset \/ DeletePreset \/ StartContestSession \/ StopContestSession
        \/ AddContestQso \/ AssignContestQso \/ WritePresets \/ CountContestQso \/ HandlerFails

Sync == \/ StartFull \/ StartLinkPending
        \/ ListMissing \/ ListFails \/ Listed
        \/ PushPreset \/ PushPresetFails \/ PushesDone
        \/ PullSession \/ PullSessionFails \/ PullsDone
        \/ LinkPreset \/ LinkPresetFails \/ LinksDone
        \/ SavePresets \/ Crash

Next == User \/ QsoUploaded \/ SessionsChange \/ WavelogUpdated \/ Sync

Spec == Init /\ [][Next]_vars

-----------------------------------------------------------------------------
(* Properties                                                              *)

\* Both sides agree about the presets: every session has one preset, with its content and
\* all its QSOs, and knows every uploaded QSO of it; every preset has been pushed.
Agreed ==
    /\ \A s \in Known(sessions) : \E p \in Known(presets) :
          /\ {r \in Known(presets) : presets[r].rid = s} = {p}
          /\ presets[p].content = sessions[s].content
          /\ sessions[s].linked = presets[p].qsos \intersect uploaded
    /\ \A p \in Known(presets) : ~presets[p].dirty

\* Every QSO logged in a contest still belongs to its preset, unless it was logged during a
\* sync or its save broke off.
Assigned ==
    \A q \in Known(log) \ disturbed :
        LET p == log[q].of IN presets[p] # None => q \in presets[p].qsos

\* Every contest of the log can be chosen, with all its QSOs.
Restored ==
    \A q \in Known(log) : \E p \in Known(presets) :
        /\ presets[p].contest = log[q].contest
        /\ \A r \in Known(log) : log[r].contest = log[q].contest => r \in presets[p].qsos

\* A full sync that met no error and that nobody interfered with leaves nothing out, in
\* whatever state earlier syncs, crashes, lost answers and overwritten saves have left the
\* two sides: they agree (logger_core.py:2871), the QSOs still belong to their presets, but
\* for those the sync cannot know of (see Assigned), and without the contest API the presets
\* of all contests in the log are there, with all their QSOs (logger_core.py:2767).
SyncLeavesNothingOut ==
    [][(job = "full" /\ at = "save" /\ job' = "none" /\ faults' = faults /\ quiet) =>
          /\ Assigned'
          /\ result = "ok" => Agreed'
          /\ result = "history" => Restored']_vars

\* A preset gets a second session on Wavelog only for a reason, and only one for each: the
\* answer with the id of its first was lost or the program ended before the id was saved
\* (logger_core.py:2946), or a handler that had read the presets before the save of a sync
\* wrote them after it, without the id (feature_contest.py:149 and :165, 177 and 178, 229
\* and 234, 368 and 375).
NoSecondSession ==
    \A p \in PresetIds : made[p] <= 1 + faults + overwritten

SameSerial(q, r) == q # r /\ log[q].of = log[r].of /\ log[q].serial = log[r].serial

\* Serial numbers are given once: when two QSOs logged with the same preset have the same
\* number, one of them was logged during a sync, whose save may have taken it out of its
\* preset again (logger_core.py:2985), or its save broke off between the log, the presets
\* and the session (feature_contest.py:367, :375, :379).  This is so over any number of
\* sessions, edits, syncs, errors and crashes (feature_contest.py:201).
SerialsDistinct ==
    \A q, r \in Known(log) : SameSerial(q, r) => q \in disturbed \/ r \in disturbed
=============================================================================
