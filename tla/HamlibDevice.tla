---------------------------- MODULE HamlibDevice ----------------------------
(***************************************************************************)
(* CAT and rotor control: one Hamlib program (rigctld or rotctld) per      *)
(* device, its manager (HamlibManager, RotatorManager) and the window that *)
(* starts, stops, tests, polls and uses it (feature_cat, feature_rotor).   *)
(*                                                                         *)
(* The managers of the two devices are alike; kind says which one a        *)
(* behaviour is about.  Tk handlers are atomic; every thread they start is *)
(* a worker with its own program counter, and what it answers is posted    *)
(* to the Tk thread with the generation under which it was started.        *)
(***************************************************************************)
EXTENDS HamlibRuntime, Sequences

CONSTANTS MaxOps,      \* how often the user acts
          MaxFaults,   \* how often a program dies or does not start, for no visible reason
          MaxDiskFaults, \* how many file operations or downloads of an update fail
          Slots,       \* the threads that may run at once
          RestartWhileTuning \* the user may press "CAT starten" during a tuner command

VARIABLES kind,        \* "cat" or "rotor"
          manager,     \* generation, and the process it owns (0: none)
          alive,       \* the processes that run
          fromCurrent, \* those that were started from the directory "current"
          spawned,     \* how many processes were ever started
          worker,      \* the threads
          posts,       \* answers waiting for the Tk thread
          ui,          \* what the window remembers
          ops, faults, diskFaults

deviceVars == <<manager, alive, fromCurrent, spawned>>
vars == <<kind, manager, alive, fromCurrent, spawned, worker, posts, ui, ops, faults,
          diskFaults, disk, updater>>

ASSUME BoundsAssumption == MaxOps \in Nat /\ MaxFaults \in Nat /\ MaxDiskFaults \in Nat
                        /\ RestartWhileTuning \in BOOLEAN

Free == [job |-> "none", gen |-> 0, at |-> "idle", reserved |-> 0, process |-> 0]

Thread(job, gen, at) ==
    [job |-> job, gen |-> gen, at |-> at, reserved |-> 0, process |-> 0]

Init ==
    /\ kind \in {"cat", "rotor"}
    /\ manager = [generation |-> 0, process |-> 0]
    /\ alive = {} /\ fromCurrent = {} /\ spawned = 0
    /\ worker = [s \in Slots |-> Free]
    /\ posts = {}
    /\ ui = [generation |-> 0, starting |-> FALSE, pollJob |-> FALSE, pollBusy |-> FALSE,
             tunerBusy |-> FALSE, tunerPending |-> FALSE, motionBusy |-> FALSE,
             connected |-> FALSE, startButton |-> TRUE, cutShort |-> FALSE, closing |-> FALSE]
    /\ ops = 0 /\ faults = 0 /\ diskFaults = 0
    /\ RuntimeInit

Running == manager.process # 0 /\ manager.process \in alive

\* The running programs keep Windows from renaming the directory they came from.
Locked == fromCurrent # {}

\* A thread reserves its start within its first statements, long before the next click:
\* the user acts only when every thread that was started has done so.
ThreadsUnderWay == \A s \in Slots : worker[s].at # "reserve"

Operation == ~ui.closing /\ ThreadsUnderWay /\ ops < MaxOps /\ ops' = ops + 1

Fault == faults < MaxFaults /\ faults' = faults + 1

DiskFault == diskFaults < MaxDiskFaults /\ diskFaults' = diskFaults + 1

\* A thread is started in a free slot.
HasSlot == \E s \in Slots : worker[s].job = "none"

Started(thread) == [worker EXCEPT ![CHOOSE s \in Slots : worker[s].job = "none"] = thread]

Kill(p) == /\ alive' = alive \ {p}
           /\ fromCurrent' = fromCurrent \ {p}

\* An answer is posted unless the program is closing; then the thread ends.
Answer(s, what) ==
    /\ worker' = [worker EXCEPT ![s] = Free]
    /\ posts' = IF ui.closing THEN posts
                ELSE posts \union {[what |-> what, gen |-> worker[s].gen]}

-----------------------------------------------------------------------------
(* The manager, as the threads run it                                      *)

\* start: reserve the next generation, take the previous process and terminate it.
Reserve(s) ==
    /\ worker[s].at = "reserve"
    /\ manager' = [generation |-> manager.generation + 1, process |-> 0]
    /\ Kill(manager.process)
    /\ worker' = [worker EXCEPT ![s].at = "spawn", ![s].reserved = manager.generation + 1]
    /\ UNCHANGED <<spawned, posts>>

\* The answer of a start that failed; a test also stops the manager, whatever it owns.
FailedStart(s) ==
    /\ Answer(s, IF worker[s].job = "tempTest" THEN "testDone" ELSE "startFailed")
    /\ manager' = IF worker[s].job = "test"
                  THEN [generation |-> manager.generation + 1, process |-> 0]
                  ELSE manager

\* What a failed start terminates: its own process, and for a test the manager's too.
FailedStartKills(s) ==
    {worker[s].process} \union (IF worker[s].job = "test" THEN {manager.process} ELSE {})

Spawn(s) ==
    /\ worker[s].at = "spawn"
    /\ Runs(Active)
    /\ spawned' = spawned + 1
    /\ alive' = alive \union {spawned + 1}
    /\ fromCurrent' = IF Usable(disk.current) THEN fromCurrent \union {spawned + 1}
                      ELSE fromCurrent
    /\ worker' = [worker EXCEPT ![s].at = "accept", ![s].process = spawned + 1]
    /\ UNCHANGED <<manager, posts>>

SpawnFails(s) ==
    /\ worker[s].at = "spawn"
    /\ alive' = alive \ FailedStartKills(s)
    /\ fromCurrent' = fromCurrent \ FailedStartKills(s)
    /\ FailedStart(s)
    /\ UNCHANGED spawned

\* A process is accepted only under the generation its start reserved.
MayOwnAlways(s) == worker[s].at \in {"accept", "wait"}

MayOwn(s) == worker[s].job = "tempTest" \/ manager.generation = worker[s].reserved

Accept(s) ==
    /\ worker[s].at = "accept"
    /\ MayOwn(s)
    /\ manager' = IF worker[s].job = "tempTest" THEN manager
                  ELSE [manager EXCEPT !.process = worker[s].process]
    /\ worker' = [worker EXCEPT ![s].at = "wait"]
    /\ UNCHANGED <<alive, fromCurrent, spawned, posts>>

Superseded(s) ==
    \/ worker[s].at = "accept" /\ ~MayOwn(s)
    \/ /\ worker[s].at = "wait" /\ worker[s].job # "tempTest"
       /\ \/ manager.generation # worker[s].reserved
          \/ manager.process # worker[s].process

Abandon(s) ==
    /\ Superseded(s)
    /\ alive' = alive \ FailedStartKills(s)
    /\ fromCurrent' = fromCurrent \ FailedStartKills(s)
    /\ FailedStart(s)
    /\ UNCHANGED spawned

Ready(s) ==
    /\ worker[s].at = "wait"
    /\ worker[s].process \in alive
    /\ IF worker[s].job = "start"
       THEN Answer(s, "started")
       ELSE worker' = [worker EXCEPT ![s].at = "read"] /\ UNCHANGED posts
    /\ UNCHANGED deviceVars

\* The program died while it was waited for, or did not answer in time.
NeverReady(s) ==
    /\ worker[s].at = "wait"
    /\ ~Superseded(s)
    /\ alive' = alive \ FailedStartKills(s)
    /\ fromCurrent' = fromCurrent \ FailedStartKills(s)
    /\ Answer(s, IF worker[s].job = "tempTest" THEN "testDone" ELSE "startFailed")
    /\ manager' = IF worker[s].job = "tempTest" THEN manager
                  ELSE [generation |-> manager.generation +
                                         (IF worker[s].job = "test" THEN 1 ELSE 0),
                        process |-> 0]
    /\ UNCHANGED spawned

\* The reading of a test; then the test stops what it started, or what the manager owns now.
TestRead(s) ==
    /\ worker[s].at = "read"
    /\ LET stopped == IF worker[s].job = "tempTest" THEN worker[s].process
                      ELSE manager.process
       IN  Kill(stopped)
    /\ manager' = IF worker[s].job = "tempTest" THEN manager
                  ELSE [generation |-> manager.generation + 1, process |-> 0]
    /\ \E what \in IF worker[s].job = "tempTest" THEN {"testDone"}
                   ELSE {"testOk", "startFailed"} : Answer(s, what)
    /\ UNCHANGED spawned

\* One transaction under the I/O lock: a poll, the tuner, a turn of the rotor or its STOP.
\* The answer of the device counts only when the manager had a live program.
Transaction(s) == Running /\ Answer(s, worker[s].job)

\* No program, no connection to it, or an error it reports.
Failed(job) == CASE job = "poll"  -> "pollFailed"
                 [] job = "tuner" -> "tunerFailed"
                 [] job = "turn"  -> "turnFailed"
                 [] OTHER         -> "sendFailed"

TransactionFails(s) == Answer(s, Failed(worker[s].job))

Operate(s) ==
    /\ worker[s].at = "operate"
    /\ Transaction(s) \/ TransactionFails(s)
    /\ UNCHANGED deviceVars

ThreadStep(s) ==
    \/ Reserve(s)
    \/ Spawn(s)
    \/ Accept(s)
    \/ Abandon(s)
    \/ Ready(s)
    \/ TestRead(s)
    \/ Operate(s)
    \/ SpawnFails(s) /\ ~Runs(Active)
    \/ NeverReady(s) /\ worker[s].process \notin alive

ThreadStepOnly(s) ==
    /\ ThreadStep(s)
    /\ UNCHANGED <<kind, ui, ops, faults, diskFaults, disk, updater>>

\* No program could be started, or it did not become ready, for no reason of its own.
ThreadFails(s) ==
    /\ Fault
    /\ SpawnFails(s) \/ NeverReady(s)
    /\ UNCHANGED <<kind, ui, ops, diskFaults, disk, updater>>

\* The program ends on its own, when the device is unplugged for example.
ProgramDies ==
    /\ Fault
    /\ \E p \in alive : Kill(p)
    /\ UNCHANGED <<kind, manager, spawned, worker, posts, ui, ops, diskFaults, disk, updater>>

-----------------------------------------------------------------------------
(* The window: what the user does                                          *)

\* _stop_cat_runtime, _stop_rotor_runtime: the manager's stop is part of the handler.
\* Neither enables the start button; cutShort remembers that a start was under way, whose
\* answer comes too late to do it.
RuntimeStopped ==
    /\ manager' = [generation |-> manager.generation + 1, process |-> 0]
    /\ Kill(manager.process)

UiStopped ==
    [ui EXCEPT !.generation = @ + 1, !.pollJob = FALSE, !.pollBusy = FALSE,
               !.starting = FALSE, !.tunerBusy = FALSE, !.tunerPending = FALSE,
               !.motionBusy = FALSE, !.connected = FALSE, !.cutShort = ~ui.startButton]

\* _start_cat_runtime, and the part of start_rotor after its guards.
UiStarting(u) ==
    [u EXCEPT !.generation = @ + 1, !.starting = TRUE, !.connected = FALSE,
              !.cutShort = FALSE, !.startButton = IF kind = "cat" THEN FALSE ELSE @,
              !.pollJob = IF kind = "cat" THEN FALSE ELSE @]

\* The CAT button is disabled by a start and enabled by its answer; the rotor asks itself.
MayStart == IF kind = "cat" THEN ui.startButton ELSE ~ui.starting /\ ~Running

StartDevice ==
    /\ Operation /\ HasSlot
    /\ MayStart
    /\ RestartWhileTuning \/ ~ui.tunerBusy
    /\ ui' = UiStarting(ui)
    /\ worker' = Started(Thread("start", ui.generation + 1, "reserve"))
    /\ UNCHANGED <<kind, deviceVars, posts, faults, diskFaults, disk, updater>>

StopDevice ==
    /\ Operation
    /\ kind = "rotor" => Running
    /\ RuntimeStopped
    /\ ui' = UiStopped
    /\ UNCHANGED <<kind, spawned, worker, posts, faults, diskFaults, disk, updater>>

\* The CAT test takes the manager over, and the answer of a start that was under way with
\* it; the rotor test does when the rotor is off only
\* a manager of its own, and otherwise reads the position of the running one.
TestDevice ==
    /\ Operation /\ HasSlot
    /\ IF kind = "cat"
       THEN /\ ui' = [ui EXCEPT !.generation = @ + 1, !.pollJob = FALSE, !.connected = FALSE,
                                !.cutShort = ~ui.startButton]
            /\ worker' = Started(Thread("test", ui.generation + 1, "reserve"))
       ELSE /\ UNCHANGED ui
            /\ worker' = Started(IF Running THEN Thread("testDone", 0, "operate")
                                 ELSE Thread("tempTest", 0, "spawn"))
    /\ UNCHANGED <<kind, deviceVars, posts, faults, diskFaults, disk, updater>>

\* _begin_tuner_operation: the periodic poll is put off while the tuner command is sent.
TunerBegun(u) == [u EXCEPT !.pollJob = FALSE, !.tunerBusy = TRUE, !.tunerPending = FALSE]

\* start_tuner_from_qso: CAT is started first when it is off.
Tune ==
    /\ kind = "cat"
    /\ Operation /\ HasSlot
    /\ ~ui.tunerBusy /\ ~ui.starting
    /\ IF Running
       THEN /\ ui' = TunerBegun(ui)
            /\ worker' = Started(Thread("tuner", ui.generation, "operate"))
       ELSE /\ ui' = UiStarting([ui EXCEPT !.tunerBusy = TRUE, !.tunerPending = TRUE])
            /\ worker' = Started(Thread("start", ui.generation + 1, "reserve"))
    /\ UNCHANGED <<kind, deviceVars, posts, faults, diskFaults, disk, updater>>

\* turn_rotor_to_qso
Turn ==
    /\ kind = "rotor"
    /\ Operation /\ HasSlot
    /\ Running /\ ~ui.motionBusy
    /\ ui' = [ui EXCEPT !.motionBusy = TRUE]
    /\ worker' = Started(Thread("turn", ui.generation, "operate"))
    /\ UNCHANGED <<kind, deviceVars, posts, faults, diskFaults, disk, updater>>

\* stop_rotor_motion of the rotor; tuning the radio to a spot of the DX cluster.
\* Neither answer changes anything but a status line.
SendOnly ==
    /\ Operation /\ HasSlot
    /\ Running
    /\ worker' = Started(Thread("send", ui.generation, "operate"))
    /\ UNCHANGED <<kind, deviceVars, posts, ui, faults, diskFaults, disk, updater>>

\* Both runtimes are stopped before a Hamlib version is installed or restored.
ReplaceHamlib ==
    /\ Operation
    /\ BeginRestore \/ \E release \in Versions : BeginInstall(release)
    /\ RuntimeStopped
    /\ ui' = UiStopped
    /\ UNCHANGED <<kind, spawned, worker, posts, faults, diskFaults, disk>>

\* The close of the window stops the runtimes; later answers are not posted.  The threads
\* go on to their end here; in the code they are daemons, and the end of the process may
\* come before (see NoProgramLeaks).
CloseWindow ==
    /\ ~ui.closing /\ ThreadsUnderWay
    /\ RuntimeStopped
    /\ ui' = [UiStopped EXCEPT !.closing = TRUE]
    /\ UNCHANGED <<kind, spawned, worker, posts, ops, faults, diskFaults, disk, updater>>

UpdaterStep ==
    /\ RegularStep(Locked) \/ CertainError(Locked)
    /\ UNCHANGED <<kind, deviceVars, worker, posts, ui, ops, faults, diskFaults>>

UpdaterFails ==
    /\ DiskFault
    /\ FaultyStep(Locked)
    /\ UNCHANGED <<kind, deviceVars, worker, posts, ui, ops, faults>>

-----------------------------------------------------------------------------
(* The window: polls and answers                                           *)

\* _cat_poll, _rotor_poll: the timer fires.
PollSkipped == ui' = [ui EXCEPT !.pollJob = FALSE] /\ UNCHANGED worker

PollPutOff == UNCHANGED <<ui, worker>>

PollBegins ==
    /\ HasSlot
    /\ ui' = [ui EXCEPT !.pollJob = FALSE, !.pollBusy = TRUE]
    /\ worker' = Started(Thread("poll", ui.generation, "operate"))

PollTimer ==
    /\ ui.pollJob
    /\ IF ui.closing \/ ~Running THEN PollSkipped
       ELSE IF ui.pollBusy THEN PollPutOff ELSE PollBegins
    /\ UNCHANGED <<kind, deviceVars, posts, ops, faults, diskFaults, disk, updater>>

\* _schedule_rotor_poll looks whether the rotor runs, _schedule_cat_poll does not.
Scheduled(u) ==
    [u EXCEPT !.pollJob = ~u.closing /\ (kind = "rotor" => Running)]

Current(post) == post.gen = ui.generation /\ ~ui.closing

\* _cat_started, _rotor_started
OnStarted(post) ==
    IF ~Current(post) THEN UNCHANGED <<ui, worker>>
    ELSE LET connected == [ui EXCEPT !.starting = FALSE, !.startButton = TRUE,
                                       !.connected = TRUE] IN
         IF ui.tunerPending
         THEN /\ HasSlot
              /\ ui' = TunerBegun(connected)
              /\ worker' = Started(Thread("tuner", ui.generation, "operate"))
         ELSE ui' = Scheduled(connected) /\ UNCHANGED worker

OnStartFailedShown(post) ==
    /\ ui' = IF Current(post) THEN [ui EXCEPT !.startButton = TRUE] ELSE ui
    /\ UNCHANGED worker

\* _cat_start_failed, _rotor_start_failed
OnStartFailed(post) ==
    /\ ui' = IF Current(post)
             THEN [ui EXCEPT !.starting = FALSE, !.startButton = TRUE, !.cutShort = FALSE,
                             !.tunerPending = FALSE, !.tunerBusy = FALSE]
             ELSE ui
    /\ UNCHANGED worker

\* _cat_poll_ok, _cat_poll_failed and the rotor's: with a tuner command under way
\* the next poll is left to the end of that command.
OnPolled(post) ==
    /\ LET idle == [ui EXCEPT !.pollBusy = FALSE] IN
       ui' = IF Current(post) /\ ~ui.tunerBusy THEN Scheduled(idle) ELSE idle
    /\ UNCHANGED worker

OnTunerFinishedOnly(post) ==
    /\ ui' = [ui EXCEPT !.tunerBusy = FALSE]
    /\ UNCHANGED worker

\* _tuner_finished
OnTunerFinished(post) ==
    /\ LET idle == [ui EXCEPT !.tunerBusy = FALSE] IN
       ui' = IF Current(post) /\ Running THEN Scheduled(idle) ELSE idle
    /\ UNCHANGED worker

\* _rotor_motion_sent: an error ends it, else the position is read soon.
OnTurned(post) ==
    /\ LET idle == [ui EXCEPT !.motionBusy = FALSE] IN
       ui' = IF Current(post) /\ post.what = "turn" THEN Scheduled(idle) ELSE idle
    /\ UNCHANGED worker

\* _cat_test_ok, _rotor_test_finished, _rotor_stop_motion_finished, _dx_cluster_tuned
OnShown == UNCHANGED <<ui, worker>>

Handle(post) ==
    /\ post \in posts
    /\ posts' = posts \ {post}
    /\ CASE post.what = "started"                   -> OnStarted(post)
         [] post.what = "startFailed"               -> OnStartFailed(post)
         [] post.what \in {"poll", "pollFailed"}    -> OnPolled(post)
         [] post.what \in {"tuner", "tunerFailed"}  -> OnTunerFinished(post)
         [] post.what \in {"turn", "turnFailed"}    -> OnTurned(post)
         [] OTHER                                   -> OnShown
    /\ UNCHANGED <<kind, deviceVars, ops, faults, diskFaults, disk, updater>>

HandleAnswer == \E post \in posts : Handle(post)

-----------------------------------------------------------------------------
UserActs ==
    \/ StartDevice
    \/ StopDevice
    \/ TestDevice
    \/ Tune
    \/ Turn
    \/ SendOnly
    \/ ReplaceHamlib
    \/ CloseWindow

Next ==
    \/ UserActs
    \/ \E s \in Slots : ThreadStepOnly(s) \/ ThreadFails(s)
    \/ ProgramDies
    \/ UpdaterStep
    \/ UpdaterFails
    \/ PollTimer
    \/ HandleAnswer

\* Threads run to their end, the Tk loop handles every answer and every timer.
Fairness ==
    /\ \A s \in Slots : WF_vars(ThreadStepOnly(s))
    /\ \A kinds \in {{"started", "startFailed"}, {"tuner", "tunerFailed"},
                     {"turn", "turnFailed"}} :
          WF_vars(\E post \in posts : post.what \in kinds /\ Handle(post))

Spec == Init /\ [][Next]_vars /\ Fairness

-----------------------------------------------------------------------------
(* Properties                                                              *)

\* A thread that has started a program and not yet handed it over or ended it.
Holds(s, p) == worker[s].process = p /\ worker[s].at \in {"accept", "wait", "read"}

\* No program is left behind, as long as the process of the logger runs: whatever the order
\* of starts, stops and tests, a running rigctld or rotctld belongs to the manager, which
\* the next stop asks, or to a thread that ends it (the reservation in start,
\* cat_control.py:662).  A thread between Popen and the reservation's check dies with the
\* process, and only the job object of the Windows launcher ends its program then.
NoProgramLeaks ==
    \A p \in alive : p = manager.process \/ \E s \in Slots : Holds(s, p)

\* An answer to the window that is still to come, under its present generation.
Coming(what) ==
    \/ \E s \in Slots : worker[s].job = what /\ worker[s].gen = ui.generation
    \/ \E post \in posts : /\ post.what \in {what, Failed(what)}
                            /\ post.gen = ui.generation

\* Polling goes on: while the window shows a device as connected and its program runs, the
\* next poll is scheduled, or a poll or a tuner command is under way whose answer
\* schedules it (feature_cat.py:969 leaves the schedule to _tuner_finished).
PollingGoesOn ==
    ui.connected /\ Running => ui.pollJob \/ Coming("poll") \/ Coming("tuner")

\* What the user may press: TUNE, and "CAT starten" when the device is the radio.
ControlsFree == ~ui.starting /\ ~ui.tunerBusy /\ ui.startButton

\* The controls come back: a start ends in an answer that enables "CAT starten" and TUNE
\* again, a tuner command and a turn of the rotor in one that allows the next
\* (feature_cat.py:827, :876, :894; feature_rotor.py:753), whatever the user does meanwhile,
\* unless a stop, a test or an update has cut a CAT start short: its answer then enables
\* nothing (feature_cat.py:1033, 980).
ControlsComeBack ==
    /\ ~ControlsFree ~> ControlsFree \/ ui.cutShort \/ ui.closing
    /\ ui.motionBusy ~> ~ui.motionBusy

\* The worker of a replacement reports an error after at most one failed operation, and a
\* version the user had installed was in use before.
FailsOnce == updater'.result = "failed" /\ Usable(updater.had) /\ diskFaults' <= 1 /\ ~Locked

\* The replacement is complete: the new version is in use, the one before can be brought back.
Replaced == Active' = updater.release /\ disk'.backup = updater.active

\* An update leaves a Hamlib that works.  When one fails after a single error, the version in
\* use is still the one before, unless a program was started from the directory in the
\* meantime, or what failed is the clean-up of a complete installation, which the page then
\* reports as not installed (hamlib_update.py:279, feature_cat.py:491).  When one succeeds, the version that was replaced is in the backup
\* ("The previous version remains available for rollback", feature_cat.py:417).
UpdateKeepsHamlib ==
    [][updater.step # "idle" =>
          /\ FailsOnce => Active' = updater.active \/ (updater.step = "cleanUp" /\ Replaced)
          /\ updater'.result = "installed" \/ (updater'.result = "restored" /\ Usable(updater.had))
                => Replaced]_vars
=============================================================================
