---------------------------- MODULE AppLifecycle ----------------------------
(***************************************************************************)
(* The application object: which background work may run, how it reports   *)
(* to the Tk thread, how profiles are switched and how the program closes. *)
(*                                                                         *)
(* A Tk callback runs to its end before the next one, so a handler is one  *)
(* action.  Handlers call one another; each is therefore an operator from  *)
(* the attributes of the application to the set of attribute values it may *)
(* leave behind.  switch_profile is two actions: its question box is an    *)
(* event loop of its own, in which callbacks run.  Worker threads run      *)
(* between the handlers and post their result back unless the program is   *)
(* closing.  on_close does nothing while Hamlib is being updated           *)
(* (HamlibDevice); the close modelled here is the one that is accepted.    *)
(*                                                                         *)
(* Settings are read again by every handler, as in the code: the constants *)
(* DeltaOnStart ... Lookups hold the values a setting may be found to      *)
(* have.  MaxOps bounds what the user does by hand.                        *)
(***************************************************************************)
EXTENDS Naturals, FiniteSets

CONSTANTS Profiles,            \* profile ids
          Qsos,                \* QSOs that will be logged
          MaxOps,              \* bound: operations started by the user
          MaxListens,          \* bound: generations of the UDP listener
          DeltaOnStart, DeltaOnExit, AutoSync, WsjtxOnStart, WsjtxOnExit,
          Configured, Lookups, \* sets of values of the settings
          FormFilled,          \* whether the QSO form holds input, likewise
          QslKey,              \* TRUE: a key of the QSL Card Manager is stored
          TransientFailures    \* TRUE: Wavelog may recover before a check

ASSUME SettingsAssumption ==
    /\ Profiles # {}
    /\ "nobody" \notin Profiles   \* Nobody, below
    /\ UNION {DeltaOnStart, DeltaOnExit, AutoSync, WsjtxOnStart, WsjtxOnExit, Configured,
              Lookups, FormFilled, {QslKey, TransientFailures}} \subseteq BOOLEAN

VARIABLES
    self,       \* the attributes of the application object
    up,         \* Wavelog answers requests
    fresh,      \* per profile: logged QSOs that wait for their upload
    heard,      \* profile whose form or UDP listener a QSO came from
    probes,     \* reachability checks in flight or answered
    datagrams,  \* QSOs received by UDP and posted to the Tk thread
    lookups,    \* external_enrichment_pending, with the state of the lookup
    ops         \* number of operations the user has started

vars == <<self, up, fresh, heard, probes, datagrams, lookups, ops>>

Nobody == "nobody"
NoDialog == [reason |-> "none", state |-> "none"]
SyncKinds == {"push", "delta", "full", "wsjtx"}

SyncThreads == {w \in self.workers : w.kind \in SyncKinds}

Closing(u) == u.phase # "running"
SyncBusy(u) == u.operation # "none"
QslBusy(u) == \E w \in u.workers : w.kind = "qsl"

Init ==
    /\ self = [phase |-> "running", closeRequested |-> FALSE,
               servicesStopped |-> FALSE, closePoll |-> FALSE,
               profile |-> CHOOSE p \in Profiles : TRUE, session |-> 0,
               dbOpen |-> TRUE, question |-> Nobody,
               operation |-> "none", cancel |-> "none", dialog |-> NoDialog,
               workers |-> {}, write |-> "none",
               online |-> FALSE, answeredIn |-> 0, generation |-> 0,
               checkBusy |-> FALSE, checkJob |-> TRUE, autoJob |-> FALSE,
               startupPending |-> TRUE, wsjtxJob |-> TRUE,
               listening |-> FALSE, udpGeneration |-> 0]
    /\ up = TRUE
    /\ fresh = [p \in Profiles |-> {}]
    /\ heard = [q \in Qsos |-> Nobody]
    /\ probes = {}
    /\ datagrams = {}
    /\ lookups = {}
    /\ ops = 0

-----------------------------------------------------------------------------
(* Starting work.                                                          *)

StopServices(u) ==
    [u EXCEPT !.listening = FALSE, !.udpGeneration = @ + 1]

(* A worker has the settings of the session that starts it.  Its thread    *)
(* takes log and database (book, profile) when it gets there.  asked: it   *)
(* was started while the question of switch_profile was open.              *)
StartWorker(u, kind, reason) ==
    [u EXCEPT !.workers = @ \union
        {[kind |-> kind, reason |-> reason, session |-> u.session,
          book |-> u.session, profile |-> u.profile, asked |-> u.question # Nobody,
          phase |-> IF kind = "qsl" THEN "busy" ELSE "start", taken |-> {}]}]

StartSyncWorker(u, kind, reason) ==
    [StartWorker(u, kind, reason) EXCEPT !.operation = kind]

ShowSyncProgress(u, reason) ==
    [u EXCEPT !.dialog = [reason |-> reason, state |-> "running"]]

StartDeltaSync(u, reason) ==
    IF SyncBusy(u) \/ Closing(u) THEN u
    ELSE ShowSyncProgress([StartSyncWorker(u, "delta", reason) EXCEPT !.cancel = "clear"], reason)

StartWsjtxOnlySync(u, reason) ==
    IF SyncBusy(u) \/ Closing(u) THEN u ELSE StartSyncWorker(u, "wsjtx", reason)

EnrichmentPending(u, l) == \E x \in l : x.profile = u.profile

PushAllowed(u, f, l) ==
    /\ ~Closing(u) /\ ~u.closeRequested /\ u.dialog = NoDialog
    /\ ~EnrichmentPending(u, l)
    /\ u.online /\ ~SyncBusy(u) /\ f[u.profile] # {}

RequestAutoSync(u, f, l) ==
    IF PushAllowed(u, f, l) /\ ~u.autoJob
    THEN {[u EXCEPT !.autoJob = a] : a \in AutoSync}
    ELSE {u}

LocalSyncChange(u, f, l) == IF u.online THEN RequestAutoSync(u, f, l) ELSE {u}

StartNewQsoPush(u, f, l) ==
    IF PushAllowed(u, f, l)
    THEN {IF a THEN StartSyncWorker(u, "push", "auto") ELSE u : a \in AutoSync}
    ELSE {u}

-----------------------------------------------------------------------------
(* Closing.                                                                *)

CancelActiveSync(u) ==
    [u EXCEPT !.cancel = IF @ = "none" THEN @ ELSE "set"]

(* shutdown() waits for the thread of an edit or deletion; if one runs,    *)
(* the Tk thread stands still in phase "joining".                          *)
FinalizeClose(u) ==
    LET s == [StopServices(u) EXCEPT !.generation = @ + 1,
                                     !.checkJob = FALSE, !.autoJob = FALSE]
    IN  IF u.write = "writing"
        THEN [s EXCEPT !.phase = "joining"]
        ELSE [s EXCEPT !.phase = "gone", !.dbOpen = @ /\ SyncBusy(u)]

BeginCloseSequence(u) ==
    IF Closing(u) THEN {u}
    ELSE IF u.write # "none" THEN {[u EXCEPT !.closePoll = TRUE]}
    ELSE LET s == IF u.servicesStopped THEN u
                  ELSE [StopServices(u) EXCEPT !.servicesStopped = TRUE]
         IN  IF u.operation = "wsjtx" THEN {s}
             ELSE IF SyncBusy(u)
             THEN {ShowSyncProgress(CancelActiveSync(s), "shutdown")}
             ELSE UNION {IF d /\ u.online
                         THEN {StartDeltaSync([s EXCEPT !.startupPending = FALSE], "shutdown")}
                         ELSE {IF x THEN StartWsjtxOnlySync(s, "shutdown")
                                    ELSE FinalizeClose(s) : x \in WsjtxOnExit}
                         : d \in DeltaOnExit}

OnClose ==
    /\ ~Closing(self) /\ ~self.closeRequested
    /\ self' \in BeginCloseSequence([self EXCEPT !.closeRequested = TRUE])
    /\ UNCHANGED <<up, fresh, heard, probes, datagrams, lookups, ops>>

(* The timer set by _begin_close_sequence while a write is running.        *)
ClosePollTimer ==
    /\ ~Closing(self) /\ self.closePoll
    /\ self' \in BeginCloseSequence([self EXCEPT !.closePoll = FALSE])
    /\ UNCHANGED <<up, fresh, heard, probes, datagrams, lookups, ops>>

(* The write has ended while shutdown() waited for it.                     *)
JoinEnds ==
    /\ self.phase = "joining" /\ self.write # "writing"
    /\ self' = [self EXCEPT !.phase = "gone", !.dbOpen = @ /\ SyncBusy(self)]
    /\ UNCHANGED <<up, fresh, heard, probes, datagrams, lookups, ops>>

-----------------------------------------------------------------------------
(* Worker threads of the four kinds of synchronisation and of the QSL      *)
(* manager.  They work on the logbook of the profile that is active when   *)
(* they get there; when its database is closed under them, a transfer      *)
(* fails.                                                                  *)

WorkerStarts(w) ==
    /\ self.phase # "gone" /\ w.phase = "start"
    /\ self' = [self EXCEPT !.workers = (@ \ {w}) \union
                 {[w EXCEPT !.phase = "busy",
                            !.book = self.session, !.profile = self.profile,
                            !.taken = IF w.kind \in {"push", "delta", "full"}
                                      THEN fresh[self.profile] ELSE {}]}]
    /\ UNCHANGED <<up, fresh, heard, probes, datagrams, lookups, ops>>

(* The thread posts its result, unless the program is closing.             *)
Posts(w, result) ==
    self' = [self EXCEPT !.workers = (@ \ {w}) \union
              (IF Closing(self) THEN {} ELSE {[w EXCEPT !.phase = result]})]

WorkerSucceeds(w) ==
    /\ self.phase # "gone" /\ w.phase = "busy"
    /\ \/ /\ w.kind \in {"push", "delta", "full"} => up /\ w.book = self.session
          /\ Posts(w, "ok")
          /\ fresh' = [fresh EXCEPT ![w.profile] = @ \ w.taken]
          /\ UNCHANGED heard
       \/ /\ w.kind = "wsjtx"
          /\ Posts(w, "imported")
          /\ \E q \in Qsos :
               /\ heard[q] = Nobody
               /\ heard' = [heard EXCEPT ![q] = w.profile]
               /\ fresh' = [fresh EXCEPT ![w.profile] = @ \union {q}]
    /\ UNCHANGED <<up, probes, datagrams, lookups, ops>>

(* An import that fails leaves the application as one that had nothing to  *)
(* do.                                                                     *)
WorkerFails(w) ==
    /\ self.phase # "gone" /\ w.phase = "busy"
    /\ \/ w.kind \in {"push", "delta", "full"} /\ ~(up /\ w.book = self.session)
       \/ w.kind \in {"delta", "full"} /\ self.cancel = "set"
    /\ Posts(w, "failed")
    /\ UNCHANGED <<up, fresh, heard, probes, datagrams, lookups, ops>>

-----------------------------------------------------------------------------
(* Results of the workers on the Tk thread.                                *)

Finished(u, w) == [u EXCEPT !.operation = "none", !.workers = @ \ {w}]

CompleteSyncProgress(u) == [u EXCEPT !.dialog.state = "complete"]

NewQsoPushFinished(u, w, f, l) ==
    LET s == Finished(u, w)
    IN  IF u.closeRequested THEN BeginCloseSequence(s) ELSE RequestAutoSync(s, f, l)

NewQsoPushFailsQuietly(u, w) == {[Finished(u, w) EXCEPT !.checkJob = TRUE]}

NewQsoPushFailed(u, w) ==
    LET s == [Finished(u, w) EXCEPT !.checkJob = TRUE]
    IN  IF u.closeRequested THEN BeginCloseSequence(s) ELSE {s}

DeltaSyncFinished(u, w) ==
    LET s == [Finished(u, w) EXCEPT !.cancel = "none"]
    IN  IF u.dialog # NoDialog THEN {CompleteSyncProgress(s)}
        ELSE IF w.reason = "shutdown" THEN {FinalizeClose(s)} ELSE {s}

DeltaSyncFailed(u, w) ==
    LET s == [Finished(u, w) EXCEPT !.cancel = "none"]
    IN  IF w.reason = "shutdown" THEN {FinalizeClose(s)}
        ELSE {IF u.dialog # NoDialog THEN CompleteSyncProgress(s) ELSE s}

SyncFinished(u, w, f, l) ==
    LET s == [Finished(u, w) EXCEPT !.cancel = "none", !.online = TRUE,
                                    !.answeredIn = w.session, !.checkJob = TRUE]
    IN  IF u.dialog # NoDialog THEN {CompleteSyncProgress(s)}
        ELSE IF u.closeRequested THEN {FinalizeClose(s)} ELSE RequestAutoSync(s, f, l)

SyncFailed(u, w) ==
    LET s == [Finished(u, w) EXCEPT !.cancel = "none", !.checkJob = TRUE]
    IN  IF u.dialog # NoDialog THEN {CompleteSyncProgress(s)}
        ELSE IF u.closeRequested THEN {FinalizeClose(s)} ELSE {s}

WsjtxOnlySyncEnds(u, w, f, l) ==
    LET s == Finished(u, w)
    IN  IF ~u.closeRequested
        THEN IF w.phase = "imported" THEN LocalSyncChange(s, f, l) ELSE {s}
        ELSE IF w.reason = "shutdown" THEN {FinalizeClose(s)} ELSE BeginCloseSequence(s)

WorkerResult(w) ==
    /\ ~Closing(self) /\ w.phase \in {"ok", "imported", "failed"}
    /\ self' \in
         CASE w.kind = "push"  -> IF w.phase = "ok" THEN NewQsoPushFinished(self, w, fresh, lookups)
                                                    ELSE NewQsoPushFailed(self, w)
           [] w.kind = "delta" -> IF w.phase = "ok" THEN DeltaSyncFinished(self, w)
                                                    ELSE DeltaSyncFailed(self, w)
           [] w.kind = "full"  -> IF w.phase = "ok" THEN SyncFinished(self, w, fresh, lookups)
                                                    ELSE SyncFailed(self, w)
           [] w.kind = "wsjtx" -> WsjtxOnlySyncEnds(self, w, fresh, lookups)
    /\ UNCHANGED <<up, fresh, heard, probes, datagrams, lookups, ops>>

-----------------------------------------------------------------------------
(* The progress window.  It is modal: while it is open the user can only   *)
(* press its two buttons or ask the window manager to close the program.   *)

MaybeStartupWsjtxSync(u) ==
    IF Closing(u) \/ u.closeRequested THEN {u}
    ELSE UNION {IF ~x \/ (c /\ d) THEN {u}
                ELSE IF SyncBusy(u) THEN {[u EXCEPT !.wsjtxJob = TRUE]}
                ELSE {StartWsjtxOnlySync(u, "startup")}
                : x \in WsjtxOnStart, c \in Configured, d \in DeltaOnStart}

StartupWsjtxTimer ==
    /\ ~Closing(self) /\ self.wsjtxJob
    /\ self' \in MaybeStartupWsjtxSync([self EXCEPT !.wsjtxJob = FALSE])
    /\ UNCHANGED <<up, fresh, heard, probes, datagrams, lookups, ops>>

SyncProgressAcknowledged(u, f, l) ==
    LET s == [u EXCEPT !.dialog = NoDialog]
    IN  IF u.closeRequested \/ u.dialog.reason = "shutdown" THEN {FinalizeClose(s)}
        ELSE IF u.dialog.reason = "startup"
        THEN UNION {RequestAutoSync(m, f, l) : m \in MaybeStartupWsjtxSync(s)}
        ELSE {s}

PressOk ==
    /\ ~Closing(self) /\ self.dialog.state = "complete"
    /\ self' \in SyncProgressAcknowledged(self, fresh, lookups)
    /\ UNCHANGED <<up, fresh, heard, probes, datagrams, lookups, ops>>

PressCancel ==
    /\ ~Closing(self) /\ self.dialog.state = "running"
    /\ self' = CancelActiveSync(self)
    /\ UNCHANGED <<up, fresh, heard, probes, datagrams, lookups, ops>>

(* What the user does in the main window.                                  *)
UserActs ==
    /\ ~Closing(self) /\ self.dialog = NoDialog /\ self.question = Nobody /\ ops < MaxOps
    /\ ops' = ops + 1

(* sync_now, and sync_wsjtx_now while Wavelog is reachable.                *)
StartSync ==
    /\ UserActs /\ ~SyncBusy(self) /\ TRUE \in Configured
    /\ self' = ShowSyncProgress([StartSyncWorker(self, "full", "manual")
                                   EXCEPT !.cancel = "clear"], "manual")
    /\ UNCHANGED <<up, fresh, heard, probes, datagrams, lookups>>

SyncWsjtxNow ==
    /\ UserActs /\ ~SyncBusy(self) /\ ~self.online
    /\ self' = StartWsjtxOnlySync(self, "manual")
    /\ UNCHANGED <<up, fresh, heard, probes, datagrams, lookups>>

LogQso(q) ==
    /\ ~Closing(self) /\ self.dialog = NoDialog /\ self.question = Nobody
    /\ heard[q] = Nobody
    /\ heard' = [heard EXCEPT ![q] = self.profile]
    /\ fresh' = [fresh EXCEPT ![self.profile] = @ \union {q}]
    /\ self' \in LocalSyncChange(self, fresh', lookups)
    /\ UNCHANGED <<up, probes, datagrams, lookups, ops>>

(* _run_qso_write for an edit or a deletion, and its thread.               *)
StartQsoWrite ==
    /\ UserActs /\ self.write = "none"
    /\ self' = [self EXCEPT !.write = "writing"]
    /\ UNCHANGED <<up, fresh, heard, probes, datagrams, lookups>>

QsoWriteEnds ==
    /\ self.phase # "gone" /\ self.write = "writing"
    /\ self' = [self EXCEPT !.write = IF Closing(self) THEN "none" ELSE "ended"]
    /\ UNCHANGED <<up, fresh, heard, probes, datagrams, lookups, ops>>

FinishQsoWrite ==
    /\ ~Closing(self) /\ self.write = "ended"
    /\ self' \in LocalSyncChange([self EXCEPT !.write = "none"], fresh, lookups)
    /\ UNCHANGED <<up, fresh, heard, probes, datagrams, lookups, ops>>

(* Opening the storage of the new profile gives the application another    *)
(* database and another store: a new session.                              *)
OpenProfile(u, p) ==
    [StopServices(u) EXCEPT
       !.profile = p, !.session = @ + 1, !.dbOpen = TRUE,
       !.generation = @ + 2, !.checkBusy = FALSE, !.checkJob = TRUE,
       !.autoJob = FALSE, !.online = FALSE]

SwitchGuardWithoutSync(u) == u.write = "none" /\ ~QslBusy(u)

SwitchGuard(u) ==
    ~SyncBusy(u) /\ u.write = "none" /\ ~QslBusy(u)

(* The storage is opened at once, or, if the form holds input, after a     *)
(* question.  The guard is not read again when it is answered.             *)
SwitchProfile(p) ==
    /\ UserActs /\ p # self.profile
    /\ SwitchGuard(self)
    /\ self' \in {IF x THEN [self EXCEPT !.question = p] ELSE OpenProfile(self, p)
                  : x \in FormFilled}
    /\ UNCHANGED <<up, fresh, heard, probes, datagrams, lookups>>

Answered(u) == [u EXCEPT !.question = Nobody]

AnswerYes ==
    /\ ~Closing(self) /\ self.question # Nobody
    /\ self' = OpenProfile(Answered(self), self.question)
    /\ UNCHANGED <<up, fresh, heard, probes, datagrams, lookups, ops>>

AnswerNo ==
    /\ ~Closing(self) /\ self.question # Nobody
    /\ self' = [Answered(self) EXCEPT !.workers = {[w EXCEPT !.asked = FALSE] : w \in @}]
    /\ UNCHANGED <<up, fresh, heard, probes, datagrams, lookups, ops>>

-----------------------------------------------------------------------------
(* Reachability of Wavelog.                                                *)

MonitorTick ==
    /\ ~Closing(self) /\ self.checkJob
    /\ LET s == [self EXCEPT !.checkJob = FALSE]
       IN  IF s.checkBusy
           THEN self' = s /\ UNCHANGED probes
           ELSE \E c \in Configured :
                  IF c
                  THEN /\ self' = [s EXCEPT !.checkBusy = TRUE]
                       /\ probes' = probes \union
                            {[generation |-> s.generation, session |-> s.session,
                              phase |-> "busy", online |-> FALSE]}
                  ELSE /\ self' = [s EXCEPT !.startupPending = FALSE,
                                            !.online = FALSE, !.checkJob = TRUE]
                       /\ UNCHANGED probes
    /\ UNCHANGED <<up, fresh, heard, datagrams, lookups, ops>>

ProbeAnswers(x) ==
    /\ ~Closing(self) /\ x.phase = "busy"
    /\ probes' = (probes \ {x}) \union {[x EXCEPT !.phase = "posted", !.online = up]}
    /\ UNCHANGED <<self, up, fresh, heard, datagrams, lookups, ops>>

AnyAnswerCounts(u, x) == TRUE

AnswerCounts(u, x) == x.generation = u.generation

WavelogCheckFinished(x) ==
    /\ ~Closing(self) /\ x.phase = "posted"
    /\ probes' = probes \ {x}
    /\ IF ~AnswerCounts(self, x) THEN UNCHANGED self
       ELSE LET s == [self EXCEPT !.checkBusy = FALSE, !.online = x.online,
                                  !.answeredIn = x.session, !.checkJob = TRUE,
                                  !.startupPending = FALSE]
            IN  IF ~x.online THEN self' = s
                ELSE \E d \in DeltaOnStart :
                       IF d /\ self.startupPending /\ ~SyncBusy(self)
                       THEN self' = StartDeltaSync(s, "startup")
                       ELSE self' \in IF self.online THEN {s}
                                      ELSE RequestAutoSync(s, fresh, lookups)
    /\ UNCHANGED <<up, fresh, heard, datagrams, lookups, ops>>

RunAutoSync ==
    /\ ~Closing(self) /\ self.autoJob
    /\ self' \in StartNewQsoPush([self EXCEPT !.autoJob = FALSE], fresh, lookups)
    /\ UNCHANGED <<up, fresh, heard, probes, datagrams, lookups, ops>>

WavelogFails ==
    /\ up /\ up' = FALSE
    /\ UNCHANGED <<self, fresh, heard, probes, datagrams, lookups, ops>>

(* Without TransientFailures an outage lasts until the check has noticed   *)
(* it and no transfer is left that it may still break.                     *)
WavelogRecovers ==
    /\ ~up /\ up' = TRUE
    /\ TransientFailures \/ (~self.online /\ SyncThreads = {})
    /\ UNCHANGED <<self, fresh, heard, probes, datagrams, lookups, ops>>

-----------------------------------------------------------------------------
(* QSOs received by UDP and completed from a callbook.                     *)

StartUdp(u) == [u EXCEPT !.listening = TRUE, !.udpGeneration = @ + 1]

(* By hand, or by the autostart timer of the program or of a new profile.  *)
StartUdpLog ==
    /\ ~Closing(self) /\ ~self.listening /\ self.udpGeneration < MaxListens
    /\ self' = StartUdp(self)
    /\ UNCHANGED <<up, fresh, heard, probes, datagrams, lookups, ops>>

StopUdpLog ==
    /\ UserActs /\ self.listening
    /\ self' = StopServices(self)
    /\ UNCHANGED <<up, fresh, heard, probes, datagrams, lookups>>

ReceiveDatagram(q) ==
    /\ ~Closing(self) /\ self.listening /\ heard[q] = Nobody
    /\ heard' = [heard EXCEPT ![q] = self.profile]
    /\ datagrams' = datagrams \union {[generation |-> self.udpGeneration, qso |-> q]}
    /\ UNCHANGED <<self, up, fresh, probes, lookups, ops>>

AcceptUdpLogEvent(d) ==
    /\ ~Closing(self)
    /\ datagrams' = datagrams \ {d}
    /\ IF d.generation # self.udpGeneration \/ ~self.listening
       THEN UNCHANGED <<self, fresh, lookups>>
       ELSE /\ fresh' = [fresh EXCEPT ![self.profile] = @ \union {d.qso}]
            /\ \E lookup \in Lookups :
                 IF lookup
                 THEN /\ lookups' = lookups \union
                           {[profile |-> self.profile, qso |-> d.qso, phase |-> "busy"]}
                      /\ self' = [self EXCEPT !.autoJob = FALSE]
                 ELSE /\ self' \in LocalSyncChange(self, fresh', lookups)
                      /\ UNCHANGED lookups
    /\ UNCHANGED <<up, heard, probes, ops>>

LookupEnds(x) ==
    /\ ~Closing(self) /\ x.phase = "busy"
    /\ lookups' = (lookups \ {x}) \union {[x EXCEPT !.phase = "posted"]}
    /\ UNCHANGED <<self, up, fresh, heard, probes, datagrams, ops>>

(* The completed record is written, and its row touched, in the logbook    *)
(* that is open now: the QSO becomes (or stays) an upload candidate there. *)
EnrichmentApplies(u, x) == x.profile = u.profile

FinishEnrichmentQuietly(x) ==
    /\ ~Closing(self) /\ x.phase = "posted"
    /\ lookups' = lookups \ {x}
    /\ UNCHANGED <<self, up, fresh, heard, probes, datagrams, ops>>

FinishExternalQsoEnrichment(x) ==
    /\ ~Closing(self) /\ x.phase = "posted"
    /\ lookups' = lookups \ {x}
    /\ IF EnrichmentApplies(self, x)
       THEN self' \in LocalSyncChange(self, fresh, lookups')
       ELSE UNCHANGED self
    /\ UNCHANGED <<up, fresh, heard, probes, datagrams, ops>>

-----------------------------------------------------------------------------
(* The QSL manager: its background timer is always set, and the same work  *)
(* can be started by hand; both wait for the one that runs.  It is busy    *)
(* until its answer is handled, and whatever that is, nothing else follows *)
(* from it: the end of the thread and its handler are one step.            *)

StartQslSync ==
    /\ ~Closing(self) /\ QslKey /\ ~QslBusy(self)
    /\ self' = StartWorker(self, "qsl", "background")
    /\ UNCHANGED <<up, fresh, heard, probes, datagrams, lookups, ops>>

QslSyncEnds(w) ==
    /\ self.phase # "gone" /\ w.kind = "qsl"
    /\ self' = [self EXCEPT !.workers = @ \ {w}]
    /\ UNCHANGED <<up, fresh, heard, probes, datagrams, lookups, ops>>

-----------------------------------------------------------------------------
Handlers ==
    \/ ClosePollTimer \/ JoinEnds \/ StartupWsjtxTimer \/ PressOk
    \/ FinishQsoWrite \/ MonitorTick \/ RunAutoSync
    \/ \E w \in SyncThreads : WorkerResult(w)
    \/ \E x \in probes : WavelogCheckFinished(x)
    \/ \E d \in datagrams : AcceptUdpLogEvent(d)
    \/ \E x \in lookups : FinishExternalQsoEnrichment(x)

Threads ==
    \/ QsoWriteEnds
    \/ \E w \in SyncThreads : WorkerStarts(w) \/ WorkerSucceeds(w) \/ WorkerFails(w)
    \/ \E w \in self.workers : QslSyncEnds(w)
    \/ \E x \in probes : ProbeAnswers(x)
    \/ \E x \in lookups : LookupEnds(x)

Environment ==
    \/ WavelogFails \/ WavelogRecovers
    \/ OnClose \/ PressCancel \/ StartSync \/ SyncWsjtxNow \/ StartQsoWrite
    \/ StartUdpLog \/ StopUdpLog \/ StartQslSync
    \/ \E q \in Qsos : LogQso(q) \/ ReceiveDatagram(q)
    \/ \E p \in Profiles : SwitchProfile(p)
    \/ AnswerYes \/ AnswerNo

Next == Handlers \/ Threads \/ Environment

(* The event loop runs every callback that is due, threads end because     *)
(* every request has a timeout, and the user presses OK in a modal window. *)
(* A thread and the handler of its result share one condition.             *)
Fairness ==
    /\ WF_vars(ClosePollTimer \/ JoinEnds) /\ WF_vars(StartupWsjtxTimer)
    /\ WF_vars(PressOk) /\ WF_vars(MonitorTick) /\ WF_vars(RunAutoSync)
    /\ WF_vars(QsoWriteEnds \/ FinishQsoWrite)
    /\ WF_vars(\E w \in SyncThreads :
                 WorkerStarts(w) \/ WorkerSucceeds(w) \/ WorkerFails(w) \/ WorkerResult(w))
    /\ WF_vars(\E x \in probes : ProbeAnswers(x) \/ WavelogCheckFinished(x))
    /\ WF_vars(\E x \in lookups : LookupEnds(x) \/ FinishExternalQsoEnrichment(x))

Spec == Init /\ [][Next]_vars /\ Fairness

-----------------------------------------------------------------------------
(* Properties.                                                             *)

(* At most one synchronisation runs, it is the one sync_busy and           *)
(* sync_operation stand for, and it works with the database and the log it *)
(* was started for, still open, until its result has been handled: unless  *)
(* it was started while the user was asked whether to switch, and the user *)
(* agreed (feature_qso_sync.py:961,1079,1211; feature_profiles.py:121).    *)
SyncOwnsProfile ==
    self.phase # "gone" =>
        /\ \A w \in self.workers :
             ~w.asked => w.session = self.session /\ w.book = self.session
        /\ \A w \in SyncThreads : w.kind = self.operation /\ self.dbOpen
        /\ Closing(self) \/ Cardinality(SyncThreads) = (IF SyncBusy(self) THEN 1 ELSE 0)

(* "Während einer Synchronisierung kann das Profil nicht gewechselt        *)
(* werden." (feature_profiles.py:128).  Not so if the question at line 132 *)
(* lets a synchronisation start after the check: such runs are left out.   *)
NoSwitchDuringSync ==
    self.phase # "gone" => \A w \in SyncThreads : w.session = self.session

(* What was received or answered for one profile has no effect in another: *)
(* a QSO is logged in the profile whose listener or form it came from, and *)
(* the reachability shown is that of the active profile's server           *)
(* (feature_udp.py:392,480; feature_wavelog_online.py:97).                 *)
ResultsStayInProfile ==
    /\ \A p \in Profiles : \A q \in fresh[p] : heard[q] = p
    /\ self.online => self.answeredIn = self.session

(* Once the user has asked to close, the program ends, whatever runs then  *)
(* (feature_lifecycle.py:16).                                              *)
CloseEnds == self.closeRequested ~> self.phase = "gone"

(* With automatic upload on and Wavelog reachable, a new QSO does not stay *)
(* behind (feature_wavelog_online.py:126).  The weaker form leaves out the *)
(* runs in which a progress window was open, WSJT-X was synchronised or    *)
(* the profile was switched under a push, by the question of               *)
(* switch_profile: that push fails, and nothing asks again.                *)
Waiting(q) == self.online /\ ~self.closeRequested /\ q \in fresh[self.profile]

NoQsoStaysBehind == \A q \in Qsos : Waiting(q) ~> ~Waiting(q)

NewQsosArePushed ==
    [](self.dialog = NoDialog /\ self.operation # "wsjtx" /\ NoSwitchDuringSync)
        => NoQsoStaysBehind

=============================================================================
