------------------------- MODULE HamlibDevice_proofs -------------------------
(***************************************************************************)
(* No helper program of a device is left behind, polling goes on, and an   *)
(* update that fails leaves a Hamlib that works, for any number of threads,*)
(* operations and failures.                                                *)
(***************************************************************************)
EXTENDS HamlibDevice, TLAPS

Jobs  == {"none", "start", "test", "tempTest", "testDone", "tuner", "poll", "turn", "send"}
Steps == {"idle", "reserve", "spawn", "accept", "wait", "read", "operate"}

Threads == [job : Jobs, gen : Nat, at : Steps, reserved : Nat, process : Nat]

Windows == [generation : Nat, starting : BOOLEAN, pollJob : BOOLEAN, pollBusy : BOOLEAN,
            tunerBusy : BOOLEAN, tunerPending : BOOLEAN, motionBusy : BOOLEAN,
            connected : BOOLEAN, startButton : BOOLEAN, cutShort : BOOLEAN, closing : BOOLEAN]

(* The type of what the argument is about: the manager, the processes, the *)
(* threads and the window.                                                 *)
TypeInv ==
    /\ kind \in {"cat", "rotor"}
    /\ manager \in [generation : Nat, process : Nat]
    /\ spawned \in Nat
    /\ alive \subseteq 1 .. spawned
    /\ worker \in [Slots -> Threads]
    /\ \A s \in Slots : worker[s].process <= spawned
    /\ ui \in Windows

(* A slot without a job is not in the middle of a start.                   *)
SlotsInv == \A s \in Slots : worker[s].job = "none" => worker[s].at = "idle"

(* A thread that is about to hand its program to the manager, or has not   *)
(* even started it.                                                        *)
Starting(s) == worker[s].at \in {"spawn", "accept"} /\ worker[s].job # "tempTest"

(* Every start has a generation of its own, and while the last one is      *)
(* waiting for its program the manager owns none.                          *)
ReservationInv ==
    /\ \A s \in Slots : worker[s].reserved <= manager.generation
    /\ \A s, t \in Slots :
          s # t /\ worker[s].reserved = worker[t].reserved => worker[s].reserved = 0
    /\ \A s \in Slots :
          Starting(s) => /\ worker[s].reserved # 0
                         /\ worker[s].reserved = manager.generation => manager.process = 0

(* A program that was handed over is the manager's until it ends.          *)
OwnerInv ==
    \A s \in Slots :
        /\ worker[s].at \in {"wait", "read"} /\ worker[s].job # "tempTest"
        /\ worker[s].process \in alive
        => manager.process = worker[s].process

IInv == TypeInv /\ SlotsInv /\ ReservationInv /\ OwnerInv /\ NoProgramLeaks

-----------------------------------------------------------------------------
(* At the start nothing runs. *)
LEMMA InitInvariant == Init => IInv
<1> SUFFICES ASSUME Init PROVE IInv
  OBVIOUS
<1>1. Free \in Threads /\ \A s \in Slots : worker[s] = Free
  BY DEF Init, Free, Threads, Jobs, Steps
<1>2. worker \in [Slots -> Threads]
  BY <1>1 DEF Init
<1>3. ui \in Windows
  BY DEF Init, Windows
<1>4. TypeInv
  BY <1>1, <1>2, <1>3 DEF Init, TypeInv, Free
<1>5. SlotsInv /\ ReservationInv /\ OwnerInv /\ NoProgramLeaks
  BY <1>1 DEF Init, SlotsInv, ReservationInv, OwnerInv, NoProgramLeaks, Starting, Free
<1>6. QED BY <1>4, <1>5 DEF IInv

(* A step that changes only the window and the updates preserves it. *)
LEMMA WindowChanges ==
    ASSUME IInv, UNCHANGED <<kind, manager, alive, spawned, worker>>, ui' \in Windows
    PROVE  IInv'
BY DEF IInv, TypeInv, SlotsInv, ReservationInv, OwnerInv, NoProgramLeaks, Starting, Holds

(* A new thread takes a slot that was free, so it takes no program from    *)
(* the one that had it.                                                    *)
LEMMA ThreadStarts ==
    ASSUME IInv, HasSlot, NEW t \in Threads,
           t.job # "none", t.reserved = 0, t.process = 0,
           t.at \in {"reserve", "operate"} \/ (t.at = "spawn" /\ t.job = "tempTest"),
           worker' = Started(t), ui' \in Windows,
           UNCHANGED <<kind, manager, alive, spawned>>
    PROVE  IInv'
<1>1. PICK c \in Slots : worker[c].at = "idle" /\ worker' = [worker EXCEPT ![c] = t]
  <2>1. PICK c \in Slots : c = CHOOSE s \in Slots : worker[s].job = "none"
    BY DEF HasSlot
  <2>2. worker[c].job = "none"
    BY <2>1 DEF HasSlot
  <2>3. QED BY <2>1, <2>2 DEF Started, IInv, SlotsInv
<1>2. worker' \in [Slots -> Threads] /\ worker'[c] = t
      /\ \A s \in Slots \ {c} : worker'[s] = worker[s]
  BY <1>1 DEF IInv, TypeInv
<1>3. TypeInv' /\ SlotsInv'
  BY <1>2 DEF IInv, TypeInv, SlotsInv
<1>4. ReservationInv'
  BY <1>2 DEF IInv, TypeInv, ReservationInv, Starting
<1>5. OwnerInv'
  BY <1>2 DEF IInv, OwnerInv
<1>6. NoProgramLeaks'
  BY <1>1, <1>2 DEF IInv, NoProgramLeaks, Holds
<1>7. QED BY <1>3, <1>4, <1>5, <1>6 DEF IInv

(* The stop of the manager terminates the program it owned and begins a    *)
(* new generation.                                                         *)
LEMMA ManagerStops ==
    ASSUME IInv, RuntimeStopped, UNCHANGED <<kind, spawned, worker>>, ui' \in Windows
    PROVE  IInv'
<1>1. /\ manager' \in [generation : Nat, process : Nat]
      /\ manager'.generation > manager.generation /\ manager'.process = 0
      /\ alive' = alive \ {manager.process}
  BY DEF RuntimeStopped, Kill, IInv, TypeInv
<1>2. TypeInv' /\ SlotsInv'
  BY <1>1 DEF IInv, TypeInv, SlotsInv
<1>3. ReservationInv'
  BY <1>1 DEF IInv, TypeInv, ReservationInv, Starting, Threads, Jobs, Steps
<1>4. OwnerInv'
  BY <1>1 DEF IInv, OwnerInv
<1>5. NoProgramLeaks'
  BY <1>1 DEF IInv, NoProgramLeaks, Holds
<1>6. QED BY <1>2, <1>3, <1>4, <1>5 DEF IInv

(* A thread may end when it terminates what it holds, or the manager owns  *)
(* it, and when the manager gives nothing up that goes on running.         *)
LEMMA ThreadEnds ==
    ASSUME IInv, NEW s \in Slots, NEW kills,
           worker' = [worker EXCEPT ![s] = Free],
           alive' = alive \ kills,
           UNCHANGED <<kind, spawned, ui>>,
           manager' \in [generation : Nat, process : Nat],
           manager'.generation >= manager.generation,
           manager'.process \in {0, manager.process},
           manager'.process # manager.process => manager.process \in kills,
           \A p \in alive \ kills : Holds(s, p) => p = manager'.process
    PROVE  IInv'
<1>1. /\ worker' \in [Slots -> Threads] /\ worker'[s] = Free
      /\ \A t \in Slots \ {s} : worker'[t] = worker[t]
  BY DEF IInv, TypeInv, Free, Threads, Jobs, Steps
<1>2. TypeInv' /\ SlotsInv'
  <2>1. \A t \in Slots : worker'[t].process <= spawned'
    BY <1>1 DEF IInv, TypeInv, Free
  <2>2. \A t \in Slots : worker'[t].job = "none" => worker'[t].at = "idle"
    BY <1>1 DEF IInv, SlotsInv, Free
  <2>3. alive' \subseteq 1 .. spawned'
    BY DEF IInv, TypeInv
  <2>4. QED BY <1>1, <2>1, <2>2, <2>3 DEF IInv, TypeInv, SlotsInv
<1>3. ReservationInv'
  BY <1>1 DEF IInv, TypeInv, ReservationInv, Starting, Threads, Jobs, Steps, Free
<1>4. OwnerInv'
  BY <1>1 DEF IInv, OwnerInv, Free
<1>5. NoProgramLeaks'
  BY <1>1 DEF IInv, NoProgramLeaks, Holds
<1>6. QED BY <1>2, <1>3, <1>4, <1>5 DEF IInv

-----------------------------------------------------------------------------
(* The steps of a thread.                                                  *)

(* A step of a thread moves it on, with a reservation or a program of its own. *)
LEMMA ThreadMoves ==
    ASSUME NEW t \in Threads, NEW step \in Steps, NEW n \in Nat
    PROVE  /\ [t EXCEPT !.at = step] \in Threads
           /\ [t EXCEPT !.at = step, !.reserved = n] \in Threads
           /\ [t EXCEPT !.at = step, !.process = n] \in Threads
<1>1. [t EXCEPT !.at = step] \in Threads
  BY DEF Threads
<1>2. \A u \in Threads : [u EXCEPT !.reserved = n] \in Threads
  BY DEF Threads
<1>3. \A u \in Threads : [u EXCEPT !.process = n] \in Threads
  BY DEF Threads
<1>4. QED BY <1>1, <1>2, <1>3

(* The reservation: no other thread has the new generation. *)
LEMMA ReserveStep ==
    ASSUME IInv, NEW s \in Slots, Reserve(s), UNCHANGED <<kind, ui>>
    PROVE  IInv'
<1>1. /\ manager' \in [generation : Nat, process : Nat]
      /\ manager'.generation = manager.generation + 1 /\ manager'.process = 0
      /\ alive' = alive \ {manager.process} /\ spawned' = spawned
  BY DEF Reserve, Kill, IInv, TypeInv
<1>2. /\ worker[s] \in Threads /\ worker[s].at = "reserve"
      /\ worker' = [worker EXCEPT ![s].at = "spawn", ![s].reserved = manager'.generation]
  BY <1>1 DEF Reserve, IInv, TypeInv
<1>3. /\ worker' \in [Slots -> Threads]
      /\ worker'[s].job = worker[s].job /\ worker'[s].at = "spawn"
      /\ worker'[s].reserved = manager'.generation
      /\ worker'[s].process = worker[s].process
      /\ \A t \in Slots \ {s} : worker'[t] = worker[t]
  <2>1. worker'[s] = [worker[s] EXCEPT !.at = "spawn", !.reserved = manager'.generation]
    BY <1>2 DEF IInv, TypeInv
  <2>2. \A t \in Slots \ {s} : worker'[t] = worker[t]
    BY <1>2 DEF IInv, TypeInv
  <2>3. worker'[s] \in Threads
    <3>1. "spawn" \in Steps /\ manager'.generation \in Nat
      BY <1>1 DEF Steps
    <3>2. [worker[s] EXCEPT !.at = "spawn", !.reserved = manager'.generation] \in Threads
      BY <1>2, <3>1, ThreadMoves, Zenon
    <3>3. QED BY <2>1, <3>2, Zenon
  <2>4. worker' \in [Slots -> Threads]
    BY <1>2, <2>2, <2>3 DEF IInv, TypeInv
  <2>5. QED BY <1>2, <2>1, <2>2, <2>4 DEF Threads
<1>4. TypeInv' /\ SlotsInv'
  <2>1. \A t \in Slots : worker'[t].process <= spawned'
    BY <1>1, <1>2, <1>3 DEF IInv, TypeInv
  <2>2. SlotsInv'
    BY <1>2, <1>3 DEF IInv, SlotsInv
  <2>3. QED BY <1>1, <1>3, <2>1, <2>2 DEF IInv, TypeInv
<1>5. ReservationInv'
  <2>1. \A t \in Slots \ {s} : worker'[t].reserved < manager'.generation
    BY <1>1, <1>2 DEF IInv, TypeInv, ReservationInv, Threads, Jobs, Steps
  <2>2. \A t, u \in Slots :
           t # u /\ worker'[t].reserved = worker'[u].reserved => worker'[t].reserved = 0
    BY <1>1, <1>2, <1>3, <2>1 DEF IInv, TypeInv, ReservationInv, Threads, Jobs, Steps
  <2>3. \A t \in Slots : worker'[t].reserved <= manager'.generation
    BY <1>1, <1>3, <2>1, <1>2 DEF Threads, Jobs, Steps
  <2>4. \A t \in Slots : Starting(t)' => worker'[t].reserved # 0
    BY <1>1, <1>2, <1>3 DEF IInv, TypeInv, ReservationInv, Starting
  <2>5. QED BY <1>1, <2>2, <2>3, <2>4 DEF ReservationInv
<1>6. OwnerInv'
  BY <1>1, <1>2, <1>3 DEF IInv, OwnerInv
<1>7. NoProgramLeaks'
  BY <1>1, <1>2, <1>3 DEF IInv, NoProgramLeaks, Holds
<1>8. QED BY <1>4, <1>5, <1>6, <1>7 DEF IInv

(* The start of a program: no thread and no manager can know the new one. *)
LEMMA SpawnStep ==
    ASSUME IInv, NEW s \in Slots, Spawn(s), UNCHANGED <<kind, ui>>
    PROVE  IInv'
<1>1. /\ worker[s] \in Threads /\ worker[s].at = "spawn" /\ spawned \in Nat
      /\ worker' = [worker EXCEPT ![s].at = "accept", ![s].process = spawned + 1]
      /\ alive' = alive \union {spawned + 1} /\ spawned' = spawned + 1
      /\ manager' = manager
  BY DEF Spawn, IInv, TypeInv
<1>2. /\ worker' \in [Slots -> Threads]
      /\ worker'[s].job = worker[s].job /\ worker'[s].at = "accept"
      /\ worker'[s].reserved = worker[s].reserved
      /\ worker'[s].process = spawned + 1
      /\ \A t \in Slots \ {s} : worker'[t] = worker[t]
  <2>1. worker'[s] = [worker[s] EXCEPT !.at = "accept", !.process = spawned + 1]
    BY <1>1 DEF IInv, TypeInv
  <2>2. \A t \in Slots \ {s} : worker'[t] = worker[t]
    BY <1>1 DEF IInv, TypeInv
  <2>3. worker'[s] \in Threads
    <3>1. "accept" \in Steps /\ spawned + 1 \in Nat
      BY <1>1 DEF Steps
    <3>2. [worker[s] EXCEPT !.at = "accept", !.process = spawned + 1] \in Threads
      BY <1>1, <3>1, ThreadMoves, Zenon
    <3>3. QED BY <2>1, <3>2, Zenon
  <2>4. worker' \in [Slots -> Threads]
    BY <1>1, <2>2, <2>3 DEF IInv, TypeInv
  <2>5. QED BY <1>1, <2>1, <2>2, <2>4 DEF Threads
<1>3. TypeInv' /\ SlotsInv'
  <2>1. \A t \in Slots : worker'[t].process <= spawned'
    BY <1>1, <1>2 DEF IInv, TypeInv, Threads
  <2>2. alive' \subseteq 1 .. spawned'
    BY <1>1 DEF IInv, TypeInv
  <2>3. SlotsInv'
    BY <1>1, <1>2 DEF IInv, SlotsInv
  <2>4. QED BY <1>1, <1>2, <2>1, <2>2, <2>3 DEF IInv, TypeInv
<1>4. ReservationInv'
  BY <1>1, <1>2 DEF IInv, ReservationInv, Starting
<1>5. OwnerInv'
  <2>1. \A t \in Slots : worker[t].process # spawned + 1
    BY <1>1 DEF IInv, TypeInv, Threads
  <2>2. QED BY <1>1, <1>2, <2>1 DEF IInv, OwnerInv
<1>6. NoProgramLeaks'
  BY <1>1, <1>2 DEF IInv, NoProgramLeaks, Holds
<1>7. QED BY <1>3, <1>4, <1>5, <1>6 DEF IInv

(* A step of a thread that changes nothing but where it is. *)
LEMMA ThreadGoesOn ==
    ASSUME TypeInv, NEW s \in Slots, NEW step \in Steps,
           worker' = [worker EXCEPT ![s].at = step]
    PROVE  /\ worker' \in [Slots -> Threads]
           /\ worker'[s].job = worker[s].job /\ worker'[s].at = step
           /\ worker'[s].reserved = worker[s].reserved
           /\ worker'[s].process = worker[s].process
           /\ \A t \in Slots \ {s} : worker'[t] = worker[t]
<1>1. /\ worker[s] \in Threads /\ worker'[s] = [worker[s] EXCEPT !.at = step]
      /\ \A t \in Slots \ {s} : worker'[t] = worker[t]
  BY DEF TypeInv
<1>2. worker'[s] \in Threads
  BY <1>1, ThreadMoves, Zenon
<1>3. worker' \in [Slots -> Threads]
  BY <1>1, <1>2 DEF TypeInv
<1>4. QED BY <1>1, <1>3 DEF Threads

(* A program is handed over only to a manager that owns none, so none is   *)
(* forgotten.                                                              *)
LEMMA AcceptStep ==
    ASSUME IInv, NEW s \in Slots, Accept(s), UNCHANGED <<kind, ui>>
    PROVE  IInv'
<1>1. /\ worker' = [worker EXCEPT ![s].at = "wait"]
      /\ worker[s] \in Threads /\ worker[s].at = "accept"
      /\ UNCHANGED <<alive, spawned>> /\ alive \subseteq 1 .. spawned
  BY DEF Accept, IInv, TypeInv
<1>2. /\ worker' \in [Slots -> Threads]
      /\ worker'[s].job = worker[s].job /\ worker'[s].at = "wait"
      /\ worker'[s].reserved = worker[s].reserved
      /\ worker'[s].process = worker[s].process
      /\ \A t \in Slots \ {s} : worker'[t] = worker[t]
  <2>1. "wait" \in Steps
    BY DEF Steps
  <2>2. QED BY <1>1, <2>1, ThreadGoesOn DEF IInv
<1>3. /\ manager' \in [generation : Nat, process : Nat]
      /\ manager'.generation = manager.generation
      /\ IF worker[s].job = "tempTest" THEN manager'.process = manager.process
         ELSE manager.process = 0 /\ manager'.process = worker[s].process
  <2>1. CASE worker[s].job = "tempTest"
    BY <2>1 DEF Accept, IInv, TypeInv
  <2>2. CASE worker[s].job # "tempTest"
    <3>1. manager' = [manager EXCEPT !.process = worker[s].process]
          /\ manager.generation = worker[s].reserved
      BY <2>2 DEF Accept, MayOwn
    <3>2. manager.process = 0
      BY <1>1, <2>2, <3>1 DEF IInv, ReservationInv, Starting
    <3>3. QED BY <1>1, <2>2, <3>1, <3>2 DEF IInv, TypeInv, Threads
  <2>3. QED BY <2>1, <2>2
<1>4. TypeInv' /\ SlotsInv'
  <2>1. \A t \in Slots : worker'[t].process <= spawned'
    BY <1>1, <1>2 DEF IInv, TypeInv
  <2>2. SlotsInv'
    BY <1>1, <1>2 DEF IInv, SlotsInv
  <2>3. QED BY <1>1, <1>2, <1>3, <2>1, <2>2 DEF IInv, TypeInv
<1>5. ReservationInv'
  BY <1>1, <1>2, <1>3 DEF IInv, ReservationInv, Starting, MayOwn, Accept
<1>6. OwnerInv'
  <2>1. \A p \in alive : p # 0
    BY <1>1 DEF IInv, TypeInv
  <2>2. QED BY <1>1, <1>2, <1>3, <2>1 DEF IInv, OwnerInv
<1>7. NoProgramLeaks'
  <2>1. \A p \in alive : p # 0
    BY <1>1 DEF IInv, TypeInv
  <2>2. QED BY <1>1, <1>2, <1>3, <2>1 DEF IInv, NoProgramLeaks, Holds
<1>8. QED BY <1>4, <1>5, <1>6, <1>7 DEF IInv

(* A program that became ready is the manager's when its thread ends; a    *)
(* test goes on to read with it.                                           *)
LEMMA ReadyStep ==
    ASSUME IInv, NEW s \in Slots, Ready(s), UNCHANGED <<kind, ui>>
    PROVE  IInv'
<1>1. worker[s].at = "wait" /\ worker[s].process \in alive
      /\ UNCHANGED <<manager, alive, spawned>>
  BY DEF Ready, deviceVars
<1>2. CASE worker[s].job = "start"
  <2>1. worker' = [worker EXCEPT ![s] = Free]
    BY <1>2 DEF Ready, Answer
  <2>2. worker[s].process = manager.process
    BY <1>1, <1>2 DEF IInv, OwnerInv
  <2>3. \A p \in alive \ {} : Holds(s, p) => p = manager'.process
    BY <1>1, <2>2 DEF Holds
  <2>4. manager' \in [generation : Nat, process : Nat]
        /\ manager'.generation >= manager.generation
    BY <1>1 DEF IInv, TypeInv
  <2>5. alive' = alive \ {}
    BY <1>1
  <2>6. QED BY <1>1, <2>1, <2>3, <2>4, <2>5, ThreadEnds
<1>3. CASE worker[s].job # "start"
  <2>1. worker' = [worker EXCEPT ![s].at = "read"] /\ "read" \in Steps
    BY <1>3 DEF Ready, Steps
  <2>2. /\ worker' \in [Slots -> Threads]
        /\ worker'[s].job = worker[s].job /\ worker'[s].at = "read"
        /\ worker'[s].reserved = worker[s].reserved
        /\ worker'[s].process = worker[s].process
        /\ \A t \in Slots \ {s} : worker'[t] = worker[t]
    BY <2>1, ThreadGoesOn DEF IInv
  <2>3. TypeInv' /\ SlotsInv'
    <3>1. \A t \in Slots : worker'[t].process <= spawned'
      BY <1>1, <2>2 DEF IInv, TypeInv
    <3>2. SlotsInv'
      BY <1>1, <2>2 DEF IInv, SlotsInv
    <3>3. QED BY <1>1, <2>2, <3>1, <3>2 DEF IInv, TypeInv
  <2>4. ReservationInv'
    BY <1>1, <2>2 DEF IInv, ReservationInv, Starting
  <2>5. OwnerInv'
    BY <1>1, <2>2 DEF IInv, OwnerInv
  <2>6. NoProgramLeaks'
    BY <1>1, <2>2 DEF IInv, NoProgramLeaks, Holds
  <2>7. QED BY <2>3, <2>4, <2>5, <2>6 DEF IInv
<1>4. QED BY <1>2, <1>3

(* A failed start terminates its program, and a test what the manager owns *)
(* as well.                                                                *)
LEMMA FailedStartStep ==
    ASSUME IInv, NEW s \in Slots, FailedStart(s),
           alive' = alive \ FailedStartKills(s), UNCHANGED <<kind, ui, spawned>>
    PROVE  IInv'
<1>1. worker' = [worker EXCEPT ![s] = Free]
  BY DEF FailedStart, Answer
<1>2. /\ manager' \in [generation : Nat, process : Nat]
      /\ manager'.generation >= manager.generation
      /\ manager'.process \in {0, manager.process}
      /\ manager'.process # manager.process => manager.process \in FailedStartKills(s)
  <2>1. CASE worker[s].job = "test"
    BY <2>1 DEF FailedStart, FailedStartKills, IInv, TypeInv
  <2>2. CASE worker[s].job # "test"
    BY <2>2 DEF FailedStart, IInv, TypeInv
  <2>3. QED BY <2>1, <2>2
<1>3. \A p \in alive \ FailedStartKills(s) : Holds(s, p) => p = manager'.process
  BY DEF Holds, FailedStartKills
<1>4. QED BY <1>1, <1>2, <1>3, ThreadEnds

LEMMA SpawnFailsStep ==
    ASSUME IInv, NEW s \in Slots, SpawnFails(s), UNCHANGED <<kind, ui>>
    PROVE  IInv'
BY FailedStartStep DEF SpawnFails

LEMMA AbandonStep ==
    ASSUME IInv, NEW s \in Slots, Abandon(s), UNCHANGED <<kind, ui>>
    PROVE  IInv'
BY FailedStartStep DEF Abandon

(* A program that does not become ready is taken from the manager that     *)
(* owns it.                                                                *)
LEMMA NeverReadyStep ==
    ASSUME IInv, NEW s \in Slots, NeverReady(s), UNCHANGED <<kind, ui>>
    PROVE  IInv'
<1>1. worker' = [worker EXCEPT ![s] = Free] /\ spawned' = spawned
      /\ alive' = alive \ FailedStartKills(s)
  BY DEF NeverReady, Answer
<1>2. /\ manager' \in [generation : Nat, process : Nat]
      /\ manager'.generation >= manager.generation
      /\ manager'.process \in {0, manager.process}
      /\ manager'.process # manager.process => manager.process \in FailedStartKills(s)
  <2>1. CASE worker[s].job = "tempTest"
    BY <2>1 DEF NeverReady, IInv, TypeInv
  <2>2. CASE worker[s].job # "tempTest"
    <3>1. manager.process = worker[s].process
      BY <2>2 DEF NeverReady, Superseded
    <3>2. manager.process \in FailedStartKills(s)
      BY <3>1 DEF FailedStartKills
    <3>3. \E n \in {0, 1} : manager' = [generation |-> manager.generation + n, process |-> 0]
      BY <2>2 DEF NeverReady
    <3>4. QED BY <3>2, <3>3 DEF IInv, TypeInv
  <2>3. QED BY <2>1, <2>2
<1>3. \A p \in alive \ FailedStartKills(s) : Holds(s, p) => p = manager'.process
  BY DEF Holds, FailedStartKills
<1>4. QED BY <1>1, <1>2, <1>3, ThreadEnds

(* A test ends by stopping what it started: its own program, or the        *)
(* manager.                                                                *)
LEMMA TestReadStep ==
    ASSUME IInv, NEW s \in Slots, TestRead(s), UNCHANGED <<kind, ui>>
    PROVE  IInv'
<1>1. worker' = [worker EXCEPT ![s] = Free] /\ spawned' = spawned
      /\ worker[s].at = "read"
  BY DEF TestRead, Answer
<1>2. CASE worker[s].job = "tempTest"
  <2>1. alive' = alive \ {worker[s].process} /\ manager' = manager
    BY <1>2 DEF TestRead, Kill
  <2>2. manager' \in [generation : Nat, process : Nat]
        /\ manager'.generation >= manager.generation
    BY <2>1 DEF IInv, TypeInv
  <2>3. \A p \in alive \ {worker[s].process} : Holds(s, p) => p = manager'.process
    BY DEF Holds
  <2>4. QED BY <1>1, <2>1, <2>2, <2>3, ThreadEnds
<1>3. CASE worker[s].job # "tempTest"
  <2>1. alive' = alive \ {manager.process}
        /\ manager' = [generation |-> manager.generation + 1, process |-> 0]
    BY <1>3 DEF TestRead, Kill
  <2>2. manager' \in [generation : Nat, process : Nat]
        /\ manager'.generation >= manager.generation
    BY <2>1 DEF IInv, TypeInv
  <2>3. \A p \in alive \ {manager.process} : Holds(s, p) => p = manager'.process
    BY <1>1, <1>3 DEF Holds, IInv, OwnerInv
  <2>4. manager'.process = 0
    BY <2>1
  <2>5. QED BY <1>1, <2>1, <2>2, <2>3, <2>4, ThreadEnds
<1>4. QED BY <1>2, <1>3

(* A transaction over the network holds no program. *)
LEMMA OperateStep ==
    ASSUME IInv, NEW s \in Slots, Operate(s), UNCHANGED <<kind, ui>>
    PROVE  IInv'
<1>1. worker' = [worker EXCEPT ![s] = Free] /\ UNCHANGED <<manager, alive, spawned>>
      /\ worker[s].at = "operate"
  BY DEF Operate, Transaction, TransactionFails, Answer, deviceVars
<1>2. manager' \in [generation : Nat, process : Nat]
      /\ manager'.generation >= manager.generation
  BY <1>1 DEF IInv, TypeInv
<1>3. \A p \in alive \ {} : Holds(s, p) => p = manager'.process
  BY <1>1 DEF Holds
<1>4. alive' = alive \ {}
  BY <1>1
<1>5. QED BY <1>1, <1>2, <1>3, <1>4, ThreadEnds

(* The step of a thread, whether it succeeds or fails. *)
LEMMA ThreadInvariant ==
    ASSUME IInv, NEW s \in Slots, ThreadStepOnly(s) \/ ThreadFails(s)
    PROVE  IInv'
<1>1. UNCHANGED <<kind, ui>>
  BY DEF ThreadStepOnly, ThreadFails
<1>2. \/ Reserve(s) \/ Spawn(s) \/ Accept(s) \/ Abandon(s) \/ Ready(s)
      \/ TestRead(s) \/ Operate(s) \/ SpawnFails(s) \/ NeverReady(s)
  BY DEF ThreadStepOnly, ThreadStep, ThreadFails
<1>3. QED BY <1>1, <1>2, ReserveStep, SpawnStep, AcceptStep, AbandonStep, ReadyStep,
             TestReadStep, OperateStep, SpawnFailsStep, NeverReadyStep

(* A program that ends on its own takes nothing with it. *)
LEMMA DeathStep ==
    ASSUME IInv, ProgramDies
    PROVE  IInv'
<1>1. PICK p \in alive : alive' = alive \ {p}
  BY DEF ProgramDies, Kill
<1>2. UNCHANGED <<kind, manager, spawned, worker, ui>>
  BY DEF ProgramDies
<1>3. TypeInv' /\ SlotsInv' /\ ReservationInv'
  BY <1>1, <1>2 DEF IInv, TypeInv, SlotsInv, ReservationInv, Starting
<1>4. OwnerInv' /\ NoProgramLeaks'
  BY <1>1, <1>2 DEF IInv, OwnerInv, NoProgramLeaks, Holds
<1>5. QED BY <1>3, <1>4 DEF IInv

-----------------------------------------------------------------------------
(* Every field may be set. *)
LEMMA FieldTypes ==
    ASSUME NEW u \in Windows, NEW b \in BOOLEAN, NEW n \in Nat
    PROVE  /\ [u EXCEPT !.generation = n] \in Windows
           /\ [u EXCEPT !.starting = b] \in Windows
           /\ [u EXCEPT !.pollJob = b] \in Windows
           /\ [u EXCEPT !.pollBusy = b] \in Windows
           /\ [u EXCEPT !.tunerBusy = b] \in Windows
           /\ [u EXCEPT !.tunerPending = b] \in Windows
           /\ [u EXCEPT !.motionBusy = b] \in Windows
           /\ [u EXCEPT !.connected = b] \in Windows
           /\ [u EXCEPT !.startButton = b] \in Windows
           /\ [u EXCEPT !.cutShort = b] \in Windows
           /\ [u EXCEPT !.closing = b] \in Windows
BY DEF Windows

(* What the window remembers keeps its type. *)
LEMMA WindowTypes ==
    ASSUME TypeInv, NEW u \in Windows
    PROVE  UiStarting(u) \in Windows /\ TunerBegun(u) \in Windows /\ Scheduled(u) \in Windows
<1>1. UiStarting(u) \in Windows
  <2>1. u.generation + 1 \in Nat /\ u.pollJob \in BOOLEAN /\ u.startButton \in BOOLEAN
    BY DEF Windows
  <2>2. \A poll, button \in BOOLEAN :
           [u EXCEPT !.generation = @ + 1, !.starting = TRUE, !.connected = FALSE,
                     !.cutShort = FALSE, !.startButton = button, !.pollJob = poll] \in Windows
    BY <2>1, FieldTypes
  <2>3. CASE kind = "cat"
    BY <2>2, <2>3 DEF UiStarting
  <2>4. CASE kind # "cat"
    BY <2>1, <2>2, <2>4 DEF UiStarting
  <2>5. QED BY <2>3, <2>4
<1>2. TunerBegun(u) \in Windows
  BY DEF TunerBegun, Windows
<1>3. Scheduled(u) \in Windows
  <2>1. (~u.closing /\ (kind = "rotor" => Running)) \in BOOLEAN
    BY DEF Running
  <2>2. \A b \in BOOLEAN : [u EXCEPT !.pollJob = b] \in Windows
    BY DEF Windows
  <2>3. QED BY <2>1, <2>2 DEF Scheduled
<1>4. QED BY <1>1, <1>2, <1>3

LEMMA StoppedType ==
    ASSUME TypeInv
    PROVE  UiStopped \in Windows /\ [UiStopped EXCEPT !.closing = TRUE] \in Windows
<1>1. UiStopped \in Windows
  <2>1. ui.generation + 1 \in Nat /\ ui \in Windows /\ (~ui.startButton) \in BOOLEAN
    BY DEF TypeInv, Windows
  <2>2. QED BY <2>1, FieldTypes DEF UiStopped
<1>2. \A u \in Windows : [u EXCEPT !.closing = TRUE] \in Windows
  BY DEF Windows
<1>3. QED BY <1>1, <1>2

(* A thread of the window starts with nothing reserved and no program. *)
LEMMA ThreadType ==
    ASSUME NEW job \in Jobs \ {"none"}, NEW gen \in Nat, NEW step \in Steps
    PROVE  /\ Thread(job, gen, step) \in Threads
           /\ Thread(job, gen, step).job = job /\ Thread(job, gen, step).at = step
           /\ Thread(job, gen, step).reserved = 0 /\ Thread(job, gen, step).process = 0
BY DEF Thread, Threads

(* The window starts a thread, unless it starts a rotor test of its own, to *)
(* reserve a generation or for one transaction.                             *)
LEMMA WindowStarts ==
    ASSUME IInv, HasSlot, NEW job \in Jobs \ {"none"}, NEW gen \in Nat,
           NEW step \in {"reserve", "operate"},
           worker' = Started(Thread(job, gen, step)), ui' \in Windows,
           UNCHANGED <<kind, manager, alive, spawned>>
    PROVE  IInv'
<1>1. step \in Steps
  BY DEF Steps
<1>2. /\ Thread(job, gen, step) \in Threads
      /\ Thread(job, gen, step).job = job /\ Thread(job, gen, step).at = step
      /\ Thread(job, gen, step).reserved = 0 /\ Thread(job, gen, step).process = 0
  BY <1>1, ThreadType
<1>3. QED BY <1>2, ThreadStarts

(* What the user does. *)
LEMMA UserStep ==
    ASSUME IInv, UserActs
    PROVE  IInv'
<1>1. ui \in Windows /\ ui.generation \in Nat /\ ui.generation + 1 \in Nat
  BY DEF IInv, TypeInv, Windows
<1>2. {"start", "test", "tempTest", "testDone", "tuner", "turn", "send"}
        \subseteq Jobs \ {"none"}
  BY DEF Jobs
<1>3. CASE StartDevice
  <2>1. ui' \in Windows
    BY <1>1, <1>3, WindowTypes DEF StartDevice, IInv
  <2>2. QED BY <1>1, <1>2, <1>3, <2>1, WindowStarts DEF StartDevice, deviceVars
<1>4. CASE StopDevice
  <2>1. ui' \in Windows
    BY <1>4, StoppedType DEF StopDevice, IInv
  <2>2. QED BY <1>4, <2>1, ManagerStops DEF StopDevice
<1>5. CASE TestDevice
  <2>1. HasSlot /\ UNCHANGED <<kind, manager, alive, spawned>>
    BY <1>5 DEF TestDevice, deviceVars
  <2>2. CASE kind = "cat"
    <3>1. ui' = [ui EXCEPT !.generation = @ + 1, !.pollJob = FALSE, !.connected = FALSE,
                            !.cutShort = ~ui.startButton]
          /\ worker' = Started(Thread("test", ui.generation + 1, "reserve"))
      BY <1>5, <2>2 DEF TestDevice
    <3>2. ui' \in Windows
      BY <1>1, <3>1, FieldTypes
    <3>3. QED BY <1>1, <1>2, <2>1, <3>1, <3>2, WindowStarts
  <2>3. CASE kind # "cat" /\ Running
    <3>1. ui' = ui /\ worker' = Started(Thread("testDone", 0, "operate"))
      BY <1>5, <2>3 DEF TestDevice
    <3>2. QED BY <1>1, <1>2, <2>1, <3>1, WindowStarts
  <2>4. CASE kind # "cat" /\ ~Running
    <3>1. ui' = ui /\ worker' = Started(Thread("tempTest", 0, "spawn"))
      BY <1>5, <2>4 DEF TestDevice
    <3>2. "spawn" \in Steps
      BY DEF Steps
    <3>3. QED BY <1>1, <1>2, <2>1, <3>1, <3>2, ThreadType, ThreadStarts
  <2>5. QED BY <2>2, <2>3, <2>4
<1>6. CASE Tune
  <2>1. HasSlot /\ UNCHANGED <<kind, manager, alive, spawned>>
    BY <1>6 DEF Tune, deviceVars
  <2>2. CASE Running
    <3>1. ui' = TunerBegun(ui)
          /\ worker' = Started(Thread("tuner", ui.generation, "operate"))
      BY <1>6, <2>2 DEF Tune
    <3>2. ui' \in Windows
      BY <1>1, <3>1, WindowTypes DEF IInv
    <3>3. QED BY <1>1, <1>2, <2>1, <3>1, <3>2, WindowStarts
  <2>3. CASE ~Running
    <3>1. ui' = UiStarting([ui EXCEPT !.tunerBusy = TRUE, !.tunerPending = TRUE])
          /\ worker' = Started(Thread("start", ui.generation + 1, "reserve"))
      BY <1>6, <2>3 DEF Tune
    <3>2. [ui EXCEPT !.tunerBusy = TRUE, !.tunerPending = TRUE] \in Windows
      BY <1>1, FieldTypes
    <3>3. ui' \in Windows
      BY <3>1, <3>2, WindowTypes DEF IInv
    <3>4. QED BY <1>1, <1>2, <2>1, <3>1, <3>3, WindowStarts
  <2>4. QED BY <2>2, <2>3
<1>7. CASE Turn
  <2>1. ui' \in Windows
    BY <1>1, <1>7, FieldTypes DEF Turn
  <2>2. QED BY <1>1, <1>2, <1>7, <2>1, WindowStarts DEF Turn, deviceVars
<1>8. CASE SendOnly
  BY <1>1, <1>2, <1>8, WindowStarts DEF SendOnly, deviceVars
<1>9. CASE ReplaceHamlib
  <2>1. ui' \in Windows
    BY <1>9, StoppedType DEF ReplaceHamlib, IInv
  <2>2. QED BY <1>9, <2>1, ManagerStops DEF ReplaceHamlib
<1>10. CASE CloseWindow
  <2>1. ui' \in Windows
    BY <1>10, StoppedType DEF CloseWindow, IInv
  <2>2. QED BY <1>10, <2>1, ManagerStops DEF CloseWindow
<1>11. QED BY <1>3, <1>4, <1>5, <1>6, <1>7, <1>8, <1>9, <1>10 DEF UserActs

(* The timer of the poll. *)
LEMMA PollStep ==
    ASSUME IInv, PollTimer
    PROVE  IInv'
<1>1. ui \in Windows /\ ui.generation \in Nat /\ "poll" \in Jobs \ {"none"}
  BY DEF IInv, TypeInv, Windows, Jobs
<1>2. UNCHANGED <<kind, manager, alive, spawned>>
  BY DEF PollTimer, deviceVars
<1>3. CASE PollSkipped \/ PollPutOff
  <2>1. ui' \in Windows /\ worker' = worker
    BY <1>1, <1>3, FieldTypes DEF PollSkipped, PollPutOff
  <2>2. QED BY <1>2, <2>1, WindowChanges
<1>4. CASE PollBegins
  <2>1. ui' \in Windows
    BY <1>1, <1>4, FieldTypes DEF PollBegins
  <2>2. QED BY <1>1, <1>2, <1>4, <2>1, WindowStarts DEF PollBegins
<1>5. QED BY <1>3, <1>4 DEF PollTimer

(* The answers of the threads: only a start with a tuner command waiting   *)
(* for it begins another thread.                                           *)
LEMMA AnswerStep ==
    ASSUME IInv, NEW post \in posts, Handle(post)
    PROVE  IInv'
<1>1. ui \in Windows /\ ui.generation \in Nat /\ "tuner" \in Jobs \ {"none"}
  BY DEF IInv, TypeInv, Windows, Jobs
<1>2. UNCHANGED <<kind, manager, alive, spawned>>
  BY DEF Handle, deviceVars
<1>3. \/ OnStarted(post) \/ OnStartFailed(post) \/ OnPolled(post)
      \/ OnTunerFinished(post) \/ OnTurned(post) \/ OnShown
  BY DEF Handle
<1>4. CASE OnStarted(post)
  <2>1. CASE ~Current(post)
    BY <1>1, <1>2, <1>4, <2>1, WindowChanges DEF OnStarted
  <2>2. CASE Current(post)
    <3> DEFINE connected == [ui EXCEPT !.starting = FALSE, !.startButton = TRUE,
                                       !.connected = TRUE]
    <3>1. connected \in Windows
      BY <1>1, FieldTypes
    <3>2. TunerBegun(connected) \in Windows /\ Scheduled(connected) \in Windows
      BY <3>1, WindowTypes DEF IInv
    <3>3. \/ /\ HasSlot /\ ui' = TunerBegun(connected)
             /\ worker' = Started(Thread("tuner", ui.generation, "operate"))
          \/ ui' = Scheduled(connected) /\ worker' = worker
      BY <1>4, <2>2 DEF OnStarted
    <3>4. CASE ui' = Scheduled(connected) /\ worker' = worker
      BY <1>2, <3>2, <3>4, WindowChanges
    <3>5. CASE HasSlot /\ ui' = TunerBegun(connected)
               /\ worker' = Started(Thread("tuner", ui.generation, "operate"))
      BY <1>1, <1>2, <3>2, <3>5, WindowStarts
    <3>6. QED BY <3>3, <3>4, <3>5
  <2>3. QED BY <2>1, <2>2
<1>5. CASE OnStartFailed(post)
  BY <1>1, <1>2, <1>5, FieldTypes, WindowChanges DEF OnStartFailed
<1>6. CASE OnPolled(post)
  <2>1. [ui EXCEPT !.pollBusy = FALSE] \in Windows
    BY <1>1, FieldTypes
  <2>2. QED BY <1>2, <1>6, <2>1, WindowTypes, WindowChanges DEF OnPolled, IInv
<1>7. CASE OnTunerFinished(post)
  <2>1. [ui EXCEPT !.tunerBusy = FALSE] \in Windows
    BY <1>1, FieldTypes
  <2>2. QED BY <1>2, <1>7, <2>1, WindowTypes, WindowChanges DEF OnTunerFinished, IInv
<1>8. CASE OnTurned(post)
  <2>1. [ui EXCEPT !.motionBusy = FALSE] \in Windows
    BY <1>1, FieldTypes
  <2>2. QED BY <1>2, <1>8, <2>1, WindowTypes, WindowChanges DEF OnTurned, IInv
<1>9. CASE OnShown
  BY <1>1, <1>2, <1>9, WindowChanges DEF OnShown
<1>10. QED BY <1>3, <1>4, <1>5, <1>6, <1>7, <1>8, <1>9

-----------------------------------------------------------------------------
LEMMA NextInvariant == IInv /\ [Next]_vars => IInv'
<1> SUFFICES ASSUME IInv, [Next]_vars
             PROVE  IInv'
  OBVIOUS
<1>1. ui \in Windows
  BY DEF IInv, TypeInv
<1>2. CASE UserActs
  BY <1>2, UserStep
<1>3. CASE \E s \in Slots : ThreadStepOnly(s) \/ ThreadFails(s)
  BY <1>3, ThreadInvariant
<1>4. CASE ProgramDies
  BY <1>4, DeathStep
<1>5. CASE UpdaterStep
  BY <1>1, <1>5, WindowChanges DEF UpdaterStep, deviceVars
<1>6. CASE UpdaterFails
  BY <1>1, <1>6, WindowChanges DEF UpdaterFails, deviceVars
<1>7. CASE PollTimer
  BY <1>7, PollStep
<1>8. CASE HandleAnswer
  BY <1>8, AnswerStep DEF HandleAnswer
<1>9. CASE UNCHANGED vars
  BY <1>1, <1>9, WindowChanges DEF vars
<1>10. QED BY <1>2, <1>3, <1>4, <1>5, <1>6, <1>7, <1>8, <1>9 DEF Next

(* No program is left behind: every rigctld or rotctld that runs belongs   *)
(* to the manager, or to a thread that will hand it over or end it, for    *)
(* any number of threads, operations and failures (start, stop and test of *)
(* the managers, with the reservation at cat_control.py:662).              *)
THEOREM NoProgramIsLeftBehind == Spec => []NoProgramLeaks
<1>1. IInv => NoProgramLeaks
  BY DEF IInv
<1>2. QED BY <1>1, InitInvariant, NextInvariant, PTL DEF Spec

-----------------------------------------------------------------------------
(* Polling. *)

(* A thread that starts a program for the manager. *)
Asked(s) == worker[s].job \in {"start", "test"}

(* Such a thread whose program the manager may still come to own. *)
MayBecomeOwner(s) ==
    /\ Asked(s)
    /\ \/ worker[s].at = "reserve"
       \/ worker[s].at \in {"spawn", "accept"} /\ worker[s].reserved = manager.generation

(* No answer is of a later generation than the window's, and a thread that *)
(* has still to reserve is of the present one.                             *)
GenerationsInv ==
    /\ \A post \in posts : /\ post.gen \in Nat /\ post.gen <= ui.generation
                            /\ post = [what |-> post.what, gen |-> post.gen]
    /\ \A s \in Slots : worker[s].gen <= ui.generation
    /\ \A s \in Slots : worker[s].at = "reserve" => Asked(s) /\ worker[s].gen = ui.generation
    /\ \A s \in Slots : worker[s].at \in {"spawn", "accept", "wait", "read"}
                         => Asked(s) \/ worker[s].job = "tempTest"

(* Each generation of the window has one start, and that one answer.       *)
StartsInv ==
    /\ \A s, t \in Slots : s # t /\ Asked(s) /\ Asked(t) => worker[s].gen # worker[t].gen
    /\ \A s \in Slots : \A post \in posts :
          Asked(s) /\ post.what \in {"started", "startFailed"} => worker[s].gen # post.gen
    /\ \A p, q \in posts : p.what = "started" /\ q.what = "startFailed" => p.gen # q.gen

(* While a program may still become the manager's, the window shows no     *)
(* device as connected, and is about to hear of none.                      *)
ConnectionInv ==
    /\ manager.process <= spawned
    /\ \A s \in Slots : MayBecomeOwner(s) =>
          /\ ~ui.connected
          /\ \A post \in posts : post.what = "started" => post.gen # ui.generation
          /\ worker[s].gen = ui.generation \/ \E t \in Slots : worker[t].at = "reserve"

(* A start that has not been heard of yet. *)
PendingStart ==
    \/ \E s \in Slots : worker[s].job = "start" /\ worker[s].gen = ui.generation
    \/ \E post \in posts : post.what = "started" /\ post.gen = ui.generation

(* A tuner command under way waits for a start, or its answer is to come.  *)
TuningInv ==
    /\ ui.closing => ~ui.connected
    /\ PendingStart => ui.starting /\ (ui.tunerBusy => ui.tunerPending)
    /\ ui.connected /\ ui.tunerBusy => Coming("tuner")

PollInv == GenerationsInv /\ StartsInv /\ ConnectionInv /\ TuningInv /\ PollingGoesOn

-----------------------------------------------------------------------------
LEMMA InitPolls == Init => PollInv
<1> SUFFICES ASSUME Init PROVE PollInv
  OBVIOUS
<1>1. \A s \in Slots : worker[s] = Free
  BY DEF Init, Free
<1>2. GenerationsInv /\ StartsInv /\ ConnectionInv
  BY <1>1 DEF Init, GenerationsInv, StartsInv, ConnectionInv, MayBecomeOwner, Asked, Free
<1>3. TuningInv /\ PollingGoesOn
  BY <1>1 DEF Init, TuningInv, PendingStart, PollingGoesOn, Free
<1>4. QED BY <1>2, <1>3 DEF PollInv

(* What an answer is called tells which thread it is of. *)
LEMMA AnswerNames ==
    /\ Failed("poll") = "pollFailed" /\ Failed("tuner") = "tunerFailed"
    /\ \A job : Failed(job) \notin {"started", "startFailed", "poll", "tuner"}
    /\ \A job : job # "poll" => Failed(job) # "pollFailed"
    /\ \A job : job # "tuner" => Failed(job) # "tunerFailed"
BY DEF Failed

(* A thread that ends leaves an answer under its generation: one that was  *)
(* started tells so, and what the window waits for stays to come.          *)
LEMMA EndedPolls ==
    ASSUME IInv, PollInv, NEW s \in Slots, NEW what,
           Answer(s, what), worker[s].at # "reserve",
           what = "started" => worker[s].job = "start" /\ worker[s].at = "wait",
           what = "startFailed" => Asked(s),
           worker[s].job \in {"poll", "tuner"} => what \in {worker[s].job, Failed(worker[s].job)},
           manager' \in [generation : Nat, process : Nat],
           manager'.generation >= manager.generation,
           manager'.process \in {0, manager.process},
           alive' \subseteq alive,
           UNCHANGED <<kind, spawned, ui>>
    PROVE  PollInv'
<1>1. /\ worker' \in [Slots -> Threads] /\ worker'[s] = Free
      /\ \A t \in Slots \ {s} : worker'[t] = worker[t]
      /\ \A t \in Slots : worker[t].gen \in Nat /\ worker[t].reserved \in Nat
  BY DEF Answer, IInv, TypeInv, Free, Threads, Jobs, Steps
<1>2. /\ \A post \in posts' : \/ post \in posts
                              \/ post.what = what /\ post.gen = worker[s].gen
      /\ posts \subseteq posts'
      /\ ~ui.closing => \E post \in posts' : post.what = what /\ post.gen = worker[s].gen
  <2>1. PICK answer : answer = [what |-> what, gen |-> worker[s].gen]
    OBVIOUS
  <2>2. answer.what = what /\ answer.gen = worker[s].gen
    BY <2>1
  <2>3. posts' = IF ui.closing THEN posts ELSE posts \union {answer}
    BY <2>1 DEF Answer
  <2>4. QED BY <2>2, <2>3
<1>3. Running' => Running
  BY DEF Running, IInv, TypeInv
<1>4. ui.generation \in Nat /\ ui' = ui
  BY DEF IInv, TypeInv, Windows
<1>5. GenerationsInv'
  <2>1. \A post \in posts' : post = [what |-> post.what, gen |-> post.gen]
    BY DEF Answer, PollInv, GenerationsInv
  <2>2. QED BY <1>1, <1>2, <1>4, <2>1 DEF PollInv, GenerationsInv, Asked, Free
<1>6. StartsInv'
  BY <1>1, <1>2, <1>4 DEF PollInv, StartsInv, Asked, Free
<1>7. ConnectionInv'
  <2>1. manager'.process <= spawned'
    BY DEF PollInv, ConnectionInv, IInv, TypeInv
  <2>2. ASSUME NEW t \in Slots, MayBecomeOwner(t)'
        PROVE  /\ ~ui.connected
               /\ \A post \in posts' : post.what = "started" => post.gen # ui.generation
               /\ worker'[t].gen = ui.generation \/ \E r \in Slots : worker'[r].at = "reserve"
    <3>1. t # s /\ worker'[t] = worker[t]
      BY <1>1, <2>2 DEF MayBecomeOwner, Asked, Free
    <3>2. MayBecomeOwner(t)
      <4>1. worker[t].reserved <= manager.generation /\ manager.generation \in Nat
        BY DEF IInv, ReservationInv, TypeInv
      <4>2. QED BY <1>1, <2>2, <3>1, <4>1 DEF MayBecomeOwner, Asked
    <3>3. worker[t].gen = ui.generation
          \/ \E r \in Slots : worker[r].at = "reserve" /\ r # s
      BY <3>2 DEF PollInv, ConnectionInv
    <3>4. what = "started" => worker[s].gen # ui.generation
      BY <3>1, <3>2, <3>3 DEF PollInv, StartsInv, GenerationsInv, Asked, MayBecomeOwner
    <3>5. QED BY <1>1, <1>2, <3>1, <3>2, <3>3, <3>4 DEF PollInv, ConnectionInv
  <2>3. QED BY <1>4, <2>1, <2>2 DEF ConnectionInv
<1>8. ~ui.closing => /\ Coming("poll") => Coming("poll")'
                     /\ Coming("tuner") => Coming("tuner")'
  BY <1>1, <1>2, <1>4, AnswerNames DEF Coming
<1>9. TuningInv'
  <2>1. PendingStart' => PendingStart
    BY <1>1, <1>2, <1>4 DEF PendingStart, Free
  <2>2. QED BY <1>4, <1>8, <2>1 DEF PollInv, TuningInv
<1>10. PollingGoesOn'
  BY <1>3, <1>4, <1>8 DEF PollInv, TuningInv, PollingGoesOn
<1>11. QED BY <1>5, <1>6, <1>7, <1>9, <1>10 DEF PollInv

(* The other steps of the threads. *)
LEMMA ReservePolls ==
    ASSUME IInv, PollInv, NEW s \in Slots, Reserve(s), UNCHANGED <<kind, ui>>
    PROVE  PollInv'
<1>1. /\ manager'.generation = manager.generation + 1 /\ manager'.process = 0
      /\ manager.generation \in Nat /\ spawned \in Nat
      /\ spawned' = spawned /\ posts' = posts /\ ui' = ui
  BY DEF Reserve, Kill, IInv, TypeInv
<1>2. /\ worker[s].at = "reserve"
      /\ worker' = [worker EXCEPT ![s].at = "spawn", ![s].reserved = manager.generation + 1]
  BY DEF Reserve
<1>3. /\ worker'[s].job = worker[s].job /\ worker'[s].at = "spawn"
      /\ worker'[s].gen = worker[s].gen
      /\ \A t \in Slots \ {s} : worker'[t] = worker[t]
  BY <1>2 DEF IInv, TypeInv, Threads
<1>4. \A t \in Slots : worker'[t].job = worker[t].job /\ worker'[t].gen = worker[t].gen
  BY <1>3
<1>5. ~Running'
  BY <1>1 DEF Running
<1>6. GenerationsInv'
  BY <1>1, <1>2, <1>3 DEF PollInv, GenerationsInv, Asked
<1>7. StartsInv'
  BY <1>1, <1>4 DEF PollInv, StartsInv, Asked
<1>8. ConnectionInv'
  <2>1. ASSUME NEW t \in Slots, MayBecomeOwner(t)'
        PROVE  t = s
    <3>1. CASE t # s
      <4>1. worker'[t] = worker[t] /\ worker[t].reserved <= manager.generation
            /\ worker[t].reserved \in Nat
        BY <1>3, <3>1 DEF IInv, ReservationInv, TypeInv, Threads
      <4>2. worker[t].at = "reserve"
        BY <1>1, <2>1, <4>1 DEF MayBecomeOwner
      <4>3. Asked(t) /\ Asked(s) /\ worker[t].gen = worker[s].gen
        BY <1>2, <4>2 DEF PollInv, GenerationsInv
      <4>4. QED BY <3>1, <4>3 DEF PollInv, StartsInv
    <3>2. QED BY <3>1
  <2>2. Asked(s) /\ worker[s].gen = ui.generation /\ MayBecomeOwner(s)
    BY <1>2 DEF PollInv, GenerationsInv, MayBecomeOwner
  <2>3. QED BY <1>1, <1>4, <2>1, <2>2 DEF PollInv, ConnectionInv
<1>9. Coming("tuner") => Coming("tuner")'
  BY <1>1, <1>4 DEF Coming
<1>10. TuningInv'
  <2>1. PendingStart' => PendingStart
    BY <1>1, <1>4 DEF PendingStart
  <2>2. QED BY <1>1, <1>9, <2>1 DEF PollInv, TuningInv
<1>11. PollingGoesOn'
  BY <1>5 DEF PollingGoesOn
<1>12. QED BY <1>6, <1>7, <1>8, <1>10, <1>11 DEF PollInv

(* A thread that goes on, without a reservation and without an answer. *)
LEMMA GoingOnPolls ==
    ASSUME IInv, PollInv, NEW s \in Slots,
           \A t \in Slots : worker'[t].job = worker[t].job /\ worker'[t].gen = worker[t].gen
                             /\ (worker'[t].at = "reserve" <=> worker[t].at = "reserve"),
           worker[s].at \in {"spawn", "accept", "wait"},
           \A t \in Slots \ {s} : worker'[t] = worker[t],
           MayBecomeOwner(s)' => MayBecomeOwner(s),
           UNCHANGED <<posts, ui>>,
           manager'.generation = manager.generation, manager'.process <= spawned',
           Running' => Running \/ ~ui.connected
    PROVE  PollInv'
<1>1. GenerationsInv' /\ StartsInv'
  BY DEF PollInv, GenerationsInv, StartsInv, Asked
<1>2. \A t \in Slots : MayBecomeOwner(t)' => MayBecomeOwner(t)
  BY DEF MayBecomeOwner, Asked
<1>3. ConnectionInv'
  <2>1. \A t \in Slots : MayBecomeOwner(t)' =>
           /\ ~ui'.connected
           /\ \A post \in posts' : post.what = "started" => post.gen # ui'.generation
           /\ worker'[t].gen = ui'.generation \/ \E r \in Slots : worker'[r].at = "reserve"
    BY <1>2 DEF PollInv, ConnectionInv
  <2>2. QED BY <2>1 DEF ConnectionInv
<1>4. (PendingStart' => PendingStart) /\ (Coming("tuner") => Coming("tuner")')
      /\ (Coming("poll") => Coming("poll")')
  BY DEF PendingStart, Coming
<1>5. TuningInv' /\ PollingGoesOn'
  BY <1>4 DEF PollInv, TuningInv, PollingGoesOn
<1>6. QED BY <1>1, <1>3, <1>5 DEF PollInv

LEMMA SpawnPolls ==
    ASSUME IInv, PollInv, NEW s \in Slots, Spawn(s), UNCHANGED <<kind, ui>>
    PROVE  PollInv'
<1>1. /\ worker[s].at = "spawn" /\ spawned \in Nat /\ manager.process \in Nat
      /\ worker' = [worker EXCEPT ![s].at = "accept", ![s].process = spawned + 1]
      /\ alive' = alive \union {spawned + 1} /\ spawned' = spawned + 1
      /\ UNCHANGED <<manager, posts, ui>> /\ manager.process <= spawned
  BY DEF Spawn, IInv, TypeInv, PollInv, ConnectionInv
<1>2. /\ worker'[s].job = worker[s].job /\ worker'[s].at = "accept"
      /\ worker'[s].gen = worker[s].gen /\ worker'[s].reserved = worker[s].reserved
      /\ \A t \in Slots \ {s} : worker'[t] = worker[t]
  BY <1>1 DEF IInv, TypeInv, Threads
<1>3. MayBecomeOwner(s)' => MayBecomeOwner(s)
  BY <1>1, <1>2 DEF MayBecomeOwner, Asked
<1>4. Running' => Running
  BY <1>1 DEF Running
<1>6. \A t \in Slots : worker'[t].job = worker[t].job /\ worker'[t].gen = worker[t].gen
                        /\ (worker'[t].at = "reserve" <=> worker[t].at = "reserve")
  BY <1>1, <1>2
<1>7. manager'.generation = manager.generation /\ manager'.process <= spawned'
  BY <1>1
<1>8. QED BY <1>1, <1>2, <1>3, <1>4, <1>6, <1>7, GoingOnPolls

LEMMA AcceptPolls ==
    ASSUME IInv, PollInv, NEW s \in Slots, Accept(s), UNCHANGED <<kind, ui>>
    PROVE  PollInv'
<1>1. /\ worker[s].at = "accept" /\ worker' = [worker EXCEPT ![s].at = "wait"]
      /\ UNCHANGED <<alive, spawned, posts, ui>>
  BY DEF Accept
<1>2. /\ worker'[s].job = worker[s].job /\ worker'[s].at = "wait"
      /\ worker'[s].gen = worker[s].gen
      /\ \A t \in Slots \ {s} : worker'[t] = worker[t]
      /\ worker[s].process <= spawned /\ worker[s].job \in Jobs
  BY <1>1 DEF IInv, TypeInv, Threads
<1>4. ~MayBecomeOwner(s)'
  BY <1>2 DEF MayBecomeOwner
<1>5. CASE worker[s].job = "tempTest"
  <2>1. manager' = manager
    BY <1>5 DEF Accept
  <2>2. QED BY <1>1, <1>2, <1>4, <2>1, GoingOnPolls DEF Running, PollInv, ConnectionInv
<1>6. CASE worker[s].job # "tempTest"
  <2>1. manager' = [manager EXCEPT !.process = worker[s].process]
        /\ manager.generation = worker[s].reserved
    BY <1>6 DEF Accept, MayOwn
  <2>2. manager'.generation = manager.generation /\ manager'.process <= spawned'
    BY <1>1, <1>2, <2>1 DEF IInv, TypeInv
  <2>3. ~ui.connected
    <3>1. Asked(s)
      BY <1>1, <1>6 DEF PollInv, GenerationsInv
    <3>2. QED BY <1>1, <2>1, <3>1 DEF MayBecomeOwner, PollInv, ConnectionInv
  <2>4. QED BY <1>1, <1>2, <1>4, <2>2, <2>3, GoingOnPolls
<1>7. QED BY <1>5, <1>6

LEMMA ReadyPolls ==
    ASSUME IInv, PollInv, NEW s \in Slots, Ready(s), UNCHANGED <<kind, ui>>
    PROVE  PollInv'
<1>1. worker[s].at = "wait" /\ UNCHANGED <<manager, alive, spawned>>
      /\ manager \in [generation : Nat, process : Nat] /\ manager.process <= spawned
  BY DEF Ready, deviceVars, IInv, TypeInv, PollInv, ConnectionInv
<1>2. CASE worker[s].job = "start"
  <2>1. Answer(s, "started")
    BY <1>2 DEF Ready
  <2>2. QED BY <1>1, <1>2, <2>1, EndedPolls
<1>3. CASE worker[s].job # "start"
  <2>1. worker' = [worker EXCEPT ![s].at = "read"] /\ posts' = posts
    BY <1>3 DEF Ready
  <2>2. /\ worker'[s].job = worker[s].job /\ worker'[s].at = "read"
        /\ worker'[s].gen = worker[s].gen
        /\ \A t \in Slots \ {s} : worker'[t] = worker[t]
    BY <2>1 DEF IInv, TypeInv, Threads
  <2>3. ~MayBecomeOwner(s)'
    BY <2>2 DEF MayBecomeOwner
  <2>4. Running' => Running
    BY <1>1 DEF Running
  <2>5. QED BY <1>1, <2>1, <2>2, <2>3, <2>4, GoingOnPolls
<1>4. QED BY <1>2, <1>3

LEMMA FailedStartPolls ==
    ASSUME IInv, PollInv, NEW s \in Slots, FailedStart(s),
           worker[s].at \in {"spawn", "accept", "wait"},
           alive' = alive \ FailedStartKills(s), UNCHANGED <<kind, ui, spawned>>
    PROVE  PollInv'
<1>1. PICK what : /\ what = IF worker[s].job = "tempTest" THEN "testDone" ELSE "startFailed"
                  /\ Answer(s, what)
  BY DEF FailedStart
<1>2. Asked(s) \/ worker[s].job = "tempTest"
  BY DEF PollInv, GenerationsInv
<1>3. /\ manager' \in [generation : Nat, process : Nat]
      /\ manager'.generation >= manager.generation
      /\ manager'.process \in {0, manager.process}
  BY DEF FailedStart, IInv, TypeInv
<1>4. QED BY <1>1, <1>2, <1>3, EndedPolls DEF Asked

LEMMA NeverReadyPolls ==
    ASSUME IInv, PollInv, NEW s \in Slots, NeverReady(s), UNCHANGED <<kind, ui>>
    PROVE  PollInv'
<1>1. PICK what : /\ what = IF worker[s].job = "tempTest" THEN "testDone" ELSE "startFailed"
                  /\ Answer(s, what)
  BY DEF NeverReady
<1>2. Asked(s) \/ worker[s].job = "tempTest"
  BY DEF NeverReady, PollInv, GenerationsInv
<1>3. /\ manager' \in [generation : Nat, process : Nat]
      /\ manager'.generation >= manager.generation
      /\ manager'.process \in {0, manager.process}
  <2>1. manager' = manager
        \/ \E n \in {0, 1} : manager' = [generation |-> manager.generation + n, process |-> 0]
    BY DEF NeverReady
  <2>2. QED BY <2>1 DEF IInv, TypeInv
<1>4. worker[s].at = "wait" /\ alive' \subseteq alive /\ spawned' = spawned
  BY DEF NeverReady
<1>5. QED BY <1>1, <1>2, <1>3, <1>4, EndedPolls DEF Asked

LEMMA TestReadPolls ==
    ASSUME IInv, PollInv, NEW s \in Slots, TestRead(s), UNCHANGED <<kind, ui>>
    PROVE  PollInv'
<1>1. PICK what \in {"testDone", "testOk", "startFailed"} :
         /\ Answer(s, what)
         /\ what = "startFailed" => worker[s].job # "tempTest"
  BY DEF TestRead
<1>2. worker[s].at = "read" /\ alive' \subseteq alive /\ spawned' = spawned
  BY DEF TestRead, Kill
<1>3. Asked(s) \/ worker[s].job = "tempTest"
  BY <1>2 DEF PollInv, GenerationsInv
<1>4. /\ manager' \in [generation : Nat, process : Nat]
      /\ manager'.generation >= manager.generation
      /\ manager'.process \in {0, manager.process}
  BY DEF TestRead, IInv, TypeInv
<1>5. QED BY <1>1, <1>2, <1>3, <1>4, EndedPolls DEF Asked

LEMMA OperatePolls ==
    ASSUME IInv, PollInv, NEW s \in Slots, Operate(s), UNCHANGED <<kind, ui>>
    PROVE  PollInv'
<1>1. PICK what \in {worker[s].job, Failed(worker[s].job)} : Answer(s, what)
  BY DEF Operate, Transaction, TransactionFails
<1>2. worker[s].job \in Jobs
  BY DEF IInv, TypeInv, Threads
<1>3. what \notin {"started", "startFailed"}
  BY <1>2, AnswerNames DEF Jobs
<1>4. worker[s].at = "operate" /\ UNCHANGED <<manager, alive, spawned>>
      /\ manager \in [generation : Nat, process : Nat]
  BY DEF Operate, deviceVars, IInv, TypeInv
<1>5. QED BY <1>1, <1>3, <1>4, EndedPolls

LEMMA ThreadPolls ==
    ASSUME IInv, PollInv, NEW s \in Slots, ThreadStepOnly(s) \/ ThreadFails(s)
    PROVE  PollInv'
<1>1. UNCHANGED <<kind, ui>>
  BY DEF ThreadStepOnly, ThreadFails
<1>2. \/ Reserve(s) \/ Spawn(s) \/ Accept(s) \/ Abandon(s) \/ Ready(s)
      \/ TestRead(s) \/ Operate(s) \/ SpawnFails(s) \/ NeverReady(s)
  BY DEF ThreadStepOnly, ThreadStep, ThreadFails
<1>3. CASE Abandon(s)
  BY <1>1, <1>3, FailedStartPolls DEF Abandon, Superseded
<1>4. CASE SpawnFails(s)
  BY <1>1, <1>4, FailedStartPolls DEF SpawnFails
<1>5. QED BY <1>1, <1>2, <1>3, <1>4, ReservePolls, SpawnPolls, AcceptPolls, ReadyPolls,
             TestReadPolls, OperatePolls, NeverReadyPolls

(* A program that dies only ends what was said of the present one. *)
LEMMA DeathPolls ==
    ASSUME IInv, PollInv, ProgramDies
    PROVE  PollInv'
<1>1. UNCHANGED <<manager, spawned, worker, posts, ui>> /\ (Running' => Running)
  BY DEF ProgramDies, Kill, Running
<1>2. GenerationsInv' /\ StartsInv'
  BY <1>1 DEF PollInv, GenerationsInv, StartsInv, Asked
<1>3. ConnectionInv'
  BY <1>1 DEF PollInv, ConnectionInv, MayBecomeOwner, Asked
<1>4. TuningInv' /\ PollingGoesOn'
  BY <1>1 DEF PollInv, TuningInv, PendingStart, PollingGoesOn, Coming
<1>5. QED BY <1>2, <1>3, <1>4 DEF PollInv

-----------------------------------------------------------------------------
(* A slot that is taken had no thread. *)
LEMMA SlotTaken ==
    ASSUME IInv, HasSlot, NEW t \in Threads, worker' = Started(t)
    PROVE  \E c \in Slots : /\ worker[c].job = "none" /\ worker[c].at = "idle"
                            /\ worker'[c] = t
                            /\ \A s \in Slots \ {c} : worker'[s] = worker[s]
<1>1. PICK c \in Slots : c = CHOOSE s \in Slots : worker[s].job = "none"
  BY DEF HasSlot
<1>2. worker[c].job = "none"
  BY <1>1 DEF HasSlot
<1>3. worker' = [worker EXCEPT ![c] = t]
  BY <1>1 DEF Started
<1>4. QED BY <1>2, <1>3 DEF IInv, SlotsInv, TypeInv

(* The fields of a thread that the window starts. *)
LEMMA ThreadFields ==
    ASSUME NEW job \in Jobs \ {"none"}, NEW gen \in Nat, NEW step \in Steps,
           NEW t, t = Thread(job, gen, step)
    PROVE  t \in Threads /\ t.job = job /\ t.gen = gen /\ t.at = step
BY DEF Thread, Threads

(* The manager is stopped: what has started and was not yet handed over no *)
(* longer can be.                                                          *)
LEMMA StopPolls ==
    ASSUME IInv, PollInv, RuntimeStopped, ThreadsUnderWay,
           ui'.generation = ui.generation + 1, ui'.connected = FALSE,
           UNCHANGED <<worker, posts, spawned>>
    PROVE  PollInv'
<1>1. /\ manager'.generation = manager.generation + 1 /\ manager'.process = 0
      /\ manager.generation \in Nat /\ spawned \in Nat /\ ui.generation \in Nat
      /\ \A s \in Slots : worker[s].gen \in Nat /\ worker[s].reserved \in Nat
                          /\ worker[s].reserved <= manager.generation
  BY DEF RuntimeStopped, IInv, TypeInv, ReservationInv, Windows, Threads
<1>2. ~Running'
  BY <1>1 DEF Running
<1>3. GenerationsInv' /\ StartsInv'
  BY <1>1 DEF PollInv, GenerationsInv, StartsInv, Asked, ThreadsUnderWay
<1>4. \A s \in Slots : ~MayBecomeOwner(s)'
  BY <1>1 DEF MayBecomeOwner, ThreadsUnderWay
<1>5. ConnectionInv'
  BY <1>1, <1>4 DEF ConnectionInv
<1>6. ~PendingStart'
  BY <1>1 DEF PendingStart, PollInv, GenerationsInv
<1>7. TuningInv' /\ PollingGoesOn'
  BY <1>2, <1>6 DEF TuningInv, PollingGoesOn
<1>8. QED BY <1>3, <1>5, <1>7 DEF PollInv

(* The window asks for a program, under a generation of its own. *)
LEMMA AskPolls ==
    ASSUME IInv, PollInv, ThreadsUnderWay, HasSlot, NEW job \in {"start", "test"},
           worker' = Started(Thread(job, ui.generation + 1, "reserve")),
           ui'.generation = ui.generation + 1, ui'.connected = FALSE,
           job = "start" => ui'.starting /\ (ui'.tunerBusy => ui'.tunerPending),
           UNCHANGED <<manager, alive, spawned, posts>>
    PROVE  PollInv'
<1>1. /\ ui.generation \in Nat /\ manager.process <= spawned
      /\ \A s \in Slots : worker[s].gen \in Nat /\ worker[s].gen <= ui.generation
  BY DEF IInv, TypeInv, Windows, Threads, PollInv, ConnectionInv, GenerationsInv
<1>2. PICK t : t = Thread(job, ui.generation + 1, "reserve")
  OBVIOUS
<1>3. t \in Threads /\ t.job = job /\ t.gen = ui.generation + 1 /\ t.at = "reserve"
  BY <1>1, <1>2, ThreadFields DEF Jobs, Steps
<1>4. PICK c \in Slots : /\ worker[c].job = "none" /\ worker[c].at = "idle"
                         /\ worker'[c] = t
                         /\ \A s \in Slots \ {c} : worker'[s] = worker[s]
  BY <1>2, <1>3, SlotTaken
<1>5. GenerationsInv'
  BY <1>1, <1>3, <1>4 DEF PollInv, GenerationsInv, Asked, ThreadsUnderWay
<1>6. StartsInv'
  BY <1>1, <1>3, <1>4 DEF PollInv, StartsInv, GenerationsInv, Asked
<1>7. ConnectionInv'
  <2>1. \A post \in posts : post.gen # ui'.generation
    BY <1>1 DEF PollInv, GenerationsInv
  <2>2. \E r \in Slots : worker'[r].at = "reserve"
    BY <1>3, <1>4
  <2>3. QED BY <1>1, <2>1, <2>2 DEF ConnectionInv
<1>8. PendingStart' => job = "start"
  BY <1>1, <1>3, <1>4 DEF PendingStart, PollInv, GenerationsInv
<1>9. TuningInv' /\ PollingGoesOn'
  BY <1>8 DEF TuningInv, PollingGoesOn
<1>10. QED BY <1>5, <1>6, <1>7, <1>9 DEF PollInv

(* Nothing but a thread that starts no program for the manager may have    *)
(* taken a free slot.                                                      *)
Told ==
    \A s \in Slots :
        \/ worker'[s] = worker[s]
        \/ /\ worker[s].job = "none" /\ worker[s].at = "idle"
           /\ worker'[s].job \in {"tempTest", "testDone", "tuner", "poll", "turn", "send"}
           /\ IF worker'[s].job = "tempTest" THEN worker'[s].at = "spawn"
              ELSE worker'[s].at = "operate"
           /\ worker'[s].gen <= ui.generation

(* What the window does under its present generation. *)
LEMMA TellPolls ==
    ASSUME IInv, PollInv, Told, posts' \subseteq posts,
           ui'.generation = ui.generation,
           ui'.connected => \/ ui.connected
                            \/ \E post \in posts : /\ post.what = "started"
                                                    /\ post.gen = ui.generation,
           UNCHANGED <<manager, alive, spawned>>
    PROVE  /\ GenerationsInv' /\ StartsInv' /\ ConnectionInv'
           /\ PendingStart' => PendingStart
           /\ Running' <=> Running
<1>1. GenerationsInv'
  <2>1. \A s \in Slots : /\ worker'[s].gen <= ui'.generation
                         /\ worker'[s].at = "reserve" => Asked(s)' /\ worker'[s].gen = ui'.generation
                         /\ worker'[s].at \in {"spawn", "accept", "wait", "read"}
                               => Asked(s)' \/ worker'[s].job = "tempTest"
    BY DEF Told, PollInv, GenerationsInv, Asked
  <2>2. QED BY <2>1 DEF PollInv, GenerationsInv
<1>2. \A s \in Slots : Asked(s)' => Asked(s) /\ worker'[s] = worker[s]
  BY DEF Told, Asked
<1>3. StartsInv'
  BY <1>2 DEF PollInv, StartsInv
<1>4. \A s \in Slots : MayBecomeOwner(s)' => MayBecomeOwner(s) /\ worker'[s] = worker[s]
  BY <1>2 DEF MayBecomeOwner
<1>5. \A s \in Slots : worker[s].at = "reserve" => worker'[s] = worker[s]
  BY DEF Told
<1>6. ConnectionInv'
  BY <1>4, <1>5 DEF PollInv, ConnectionInv
<1>7. PendingStart' => PendingStart
  <2>1. \A s \in Slots : worker'[s].job = "start" => worker'[s] = worker[s]
    BY DEF Told
  <2>2. QED BY <2>1 DEF PendingStart
<1>8. Running' <=> Running
  BY DEF Running
<1>9. QED BY <1>1, <1>3, <1>6, <1>7, <1>8

(* A thread of the window that starts no program for the manager. *)
LEMMA Tells ==
    ASSUME IInv, PollInv, HasSlot, NEW gen \in Nat, gen <= ui.generation,
           NEW job \in {"tempTest", "testDone", "tuner", "poll", "turn", "send"},
           NEW step, step = (IF job = "tempTest" THEN "spawn" ELSE "operate"),
           worker' = Started(Thread(job, gen, step))
    PROVE  /\ Told
           /\ \E s \in Slots : worker'[s].job = job /\ worker'[s].gen = gen
<1>1. PICK t : t = Thread(job, gen, step)
  OBVIOUS
<1>2. t \in Threads /\ t.job = job /\ t.gen = gen /\ t.at = step
  BY <1>1, ThreadFields DEF Jobs, Steps
<1>3. PICK c \in Slots : /\ worker[c].job = "none" /\ worker[c].at = "idle"
                         /\ worker'[c] = t
                         /\ \A s \in Slots \ {c} : worker'[s] = worker[s]
  BY <1>1, <1>2, SlotTaken
<1>4. QED BY <1>2, <1>3 DEF Told

(* What was to come is still to come, unless its answer is taken. *)
LEMMA StillComing ==
    ASSUME Told, ui'.generation = ui.generation, NEW what \in {"poll", "tuner"},
           NEW taken, posts' = posts \ taken,
           \A post \in taken : post.what \in {what, Failed(what)} => post.gen # ui.generation
    PROVE  Coming(what) => Coming(what)'
<1>1. \A s \in Slots : worker[s].job = what => worker'[s] = worker[s]
  BY DEF Told
<1>2. QED BY <1>1 DEF Coming

(* What the methods of the window set. *)
LEMMA WindowFields ==
    ASSUME NEW u \in Windows, NEW v
    PROVE  /\ v = UiStarting(u) =>
                 /\ v.generation = u.generation + 1 /\ v.connected = FALSE
                 /\ v.starting = TRUE /\ v.tunerBusy = u.tunerBusy
                 /\ v.tunerPending = u.tunerPending
           /\ v = TunerBegun(u) =>
                 /\ v.generation = u.generation /\ v.connected = u.connected
                 /\ v.starting = u.starting /\ v.tunerBusy = TRUE
                 /\ v.closing = u.closing
           /\ v = Scheduled(u) =>
                 /\ v.generation = u.generation /\ v.connected = u.connected
                 /\ v.starting = u.starting /\ v.tunerBusy = u.tunerBusy
                 /\ v.tunerPending = u.tunerPending /\ v.closing = u.closing
                 /\ v.pollJob <=> ~u.closing /\ (kind = "rotor" => Running)
<1>1. v = UiStarting(u) =>
         /\ v.generation = u.generation + 1 /\ v.connected = FALSE
         /\ v.starting = TRUE /\ v.tunerBusy = u.tunerBusy
         /\ v.tunerPending = u.tunerPending
  BY DEF UiStarting, Windows
<1>2. v = TunerBegun(u) =>
         /\ v.generation = u.generation /\ v.connected = u.connected
         /\ v.starting = u.starting /\ v.tunerBusy = TRUE
         /\ v.closing = u.closing
  BY DEF TunerBegun, Windows
<1>3. v = Scheduled(u) =>
         /\ v.generation = u.generation /\ v.connected = u.connected
         /\ v.starting = u.starting /\ v.tunerBusy = u.tunerBusy
         /\ v.tunerPending = u.tunerPending /\ v.closing = u.closing
         /\ v.pollJob <=> ~u.closing /\ (kind = "rotor" => Running)
  BY DEF Scheduled, Windows
<1>4. QED BY <1>1, <1>2, <1>3

(* A step of the window that leaves what it shows of the device. *)
LEMMA QuietPolls ==
    ASSUME IInv, PollInv, Told, posts' = posts,
           ui'.generation = ui.generation, ui'.connected = ui.connected,
           ui'.starting = ui.starting, ui'.tunerBusy = ui.tunerBusy,
           ui'.tunerPending = ui.tunerPending, ui'.closing = ui.closing,
           ui.pollJob => ui'.pollJob \/ ~ui.connected \/ ~Running \/ Coming("poll")',
           UNCHANGED <<manager, alive, spawned>>
    PROVE  PollInv'
<1>1. /\ GenerationsInv' /\ StartsInv' /\ ConnectionInv'
      /\ PendingStart' => PendingStart
      /\ Running' <=> Running
  BY TellPolls
<1>2. \A what \in {"poll", "tuner"} : Coming(what) => Coming(what)'
  <2>1. \A s \in Slots : worker[s].job \in {"poll", "tuner"} => worker'[s] = worker[s]
    BY DEF Told
  <2>2. QED BY <2>1 DEF Coming
<1>3. TuningInv' /\ PollingGoesOn'
  BY <1>1, <1>2 DEF PollInv, TuningInv, PollingGoesOn
<1>4. QED BY <1>1, <1>3 DEF PollInv

(* What the user does, who does not start CAT during a tuner command. *)
LEMMA UserPolls ==
    ASSUME IInv, PollInv, UserActs, ~RestartWhileTuning
    PROVE  PollInv'
<1>1. ui \in Windows /\ ui.generation \in Nat
  BY DEF IInv, TypeInv, Windows
<1>2. CASE StartDevice
  <2>1. ui' = UiStarting(ui) /\ ~ui.tunerBusy
    BY <1>2 DEF StartDevice
  <2>2. /\ ui'.generation = ui.generation + 1 /\ ui'.connected = FALSE
        /\ ui'.starting /\ ~ui'.tunerBusy
    BY <1>1, <2>1, WindowFields
  <2>3. QED BY <1>2, <2>2, AskPolls DEF StartDevice, Operation, deviceVars
<1>3. CASE StopDevice
  <2>1. ui'.generation = ui.generation + 1 /\ ui'.connected = FALSE
    BY <1>1, <1>3 DEF StopDevice, UiStopped, Windows
  <2>2. QED BY <1>3, <2>1, StopPolls DEF StopDevice, Operation
<1>4. CASE ReplaceHamlib
  <2>1. ui'.generation = ui.generation + 1 /\ ui'.connected = FALSE
    BY <1>1, <1>4 DEF ReplaceHamlib, UiStopped, Windows
  <2>2. QED BY <1>4, <2>1, StopPolls DEF ReplaceHamlib, Operation
<1>5. CASE CloseWindow
  <2>1. ui'.generation = ui.generation + 1 /\ ui'.connected = FALSE
    BY <1>1, <1>5 DEF CloseWindow, UiStopped, Windows
  <2>2. QED BY <1>5, <2>1, StopPolls DEF CloseWindow
<1>6. CASE TestDevice
  <2>1. HasSlot /\ ThreadsUnderWay /\ UNCHANGED <<manager, alive, spawned, posts>>
    BY <1>6 DEF TestDevice, Operation, deviceVars
  <2>2. CASE kind = "cat"
    <3>1. ui' = [ui EXCEPT !.generation = @ + 1, !.pollJob = FALSE, !.connected = FALSE,
                            !.cutShort = ~ui.startButton]
          /\ worker' = Started(Thread("test", ui.generation + 1, "reserve"))
      BY <1>6, <2>2 DEF TestDevice
    <3>2. ui'.generation = ui.generation + 1 /\ ui'.connected = FALSE
      BY <1>1, <3>1 DEF Windows
    <3>3. QED BY <2>1, <3>1, <3>2, AskPolls
  <2>3. CASE kind # "cat"
    <3>1. \E job \in {"testDone", "tempTest"} :
             worker' = Started(Thread(job, 0, IF job = "tempTest" THEN "spawn" ELSE "operate"))
      BY <1>6, <2>3 DEF TestDevice
    <3>2. Told
      BY <1>1, <2>1, <3>1, Tells
    <3>3. ui' = ui
      BY <1>6, <2>3 DEF TestDevice
    <3>4. QED BY <2>1, <3>2, <3>3, QuietPolls
  <2>4. QED BY <2>2, <2>3
<1>7. CASE Tune
  <2>1. /\ HasSlot /\ ThreadsUnderWay /\ UNCHANGED <<manager, alive, spawned, posts>>
        /\ ~ui.tunerBusy /\ ~ui.starting
    BY <1>7 DEF Tune, Operation, deviceVars
  <2>2. CASE Running
    <3>1. ui' = TunerBegun(ui)
          /\ worker' = Started(Thread("tuner", ui.generation, "operate"))
      BY <1>7, <2>2 DEF Tune
    <3>2. Told /\ \E s \in Slots : worker'[s].job = "tuner" /\ worker'[s].gen = ui.generation
      BY <1>1, <2>1, <3>1, Tells
    <3>3. /\ ui'.generation = ui.generation /\ ui'.connected = ui.connected
          /\ ui'.closing = ui.closing
      BY <1>1, <3>1, WindowFields
    <3>4. Coming("tuner")'
      BY <3>2, <3>3 DEF Coming
    <3>5. /\ GenerationsInv' /\ StartsInv' /\ ConnectionInv'
          /\ PendingStart' => PendingStart
      BY <2>1, <3>2, <3>3, TellPolls
    <3>6. ~PendingStart
      BY <2>1 DEF PollInv, TuningInv
    <3>7. TuningInv' /\ PollingGoesOn'
      BY <3>3, <3>4, <3>5, <3>6 DEF PollInv, TuningInv, PollingGoesOn
    <3>8. QED BY <3>5, <3>7 DEF PollInv
  <2>3. CASE ~Running
    <3> DEFINE u == [ui EXCEPT !.tunerBusy = TRUE, !.tunerPending = TRUE]
    <3>1. ui' = UiStarting(u)
          /\ worker' = Started(Thread("start", ui.generation + 1, "reserve"))
      BY <1>7, <2>3 DEF Tune
    <3>2. u \in Windows
      BY <1>1, FieldTypes
    <3>3. u.generation = ui.generation /\ u.tunerPending = TRUE
      BY <1>1 DEF Windows
    <3> HIDE DEF u
    <3>4. /\ ui'.generation = ui.generation + 1 /\ ui'.connected = FALSE
          /\ ui'.starting /\ (ui'.tunerBusy => ui'.tunerPending)
      <4>1. ui' = UiStarting(u)
        BY <3>1
      <4>2. /\ ui'.generation = u.generation + 1 /\ ui'.connected = FALSE
            /\ ui'.starting = TRUE /\ ui'.tunerPending = u.tunerPending
        BY <3>2, <4>1, WindowFields
      <4>3. QED BY <3>3, <4>2
    <3>5. worker' = Started(Thread("start", ui.generation + 1, "reserve"))
      BY <3>1
    <3>6. UNCHANGED <<manager, alive, spawned, posts>> /\ HasSlot /\ ThreadsUnderWay
      BY <2>1
    <3> QED BY ONLY IInv, PollInv, <3>4, <3>5, <3>6, AskPolls
  <2>4. QED BY <2>2, <2>3
<1>8. CASE Turn
  <2>1. ui' = [ui EXCEPT !.motionBusy = TRUE] /\ HasSlot
        /\ worker' = Started(Thread("turn", ui.generation, "operate"))
        /\ UNCHANGED <<manager, alive, spawned, posts>>
    BY <1>8 DEF Turn, deviceVars
  <2>2. Told
    BY <1>1, <2>1, Tells
  <2>3. QED BY <1>1, <2>1, <2>2, QuietPolls DEF Windows
<1>9. CASE SendOnly
  <2>1. ui' = ui /\ HasSlot /\ worker' = Started(Thread("send", ui.generation, "operate"))
        /\ UNCHANGED <<manager, alive, spawned, posts>>
    BY <1>9 DEF SendOnly, deviceVars
  <2>2. Told
    BY <1>1, <2>1, Tells
  <2>3. QED BY <2>1, <2>2, QuietPolls
<1>10. QED BY <1>2, <1>3, <1>4, <1>5, <1>6, <1>7, <1>8, <1>9 DEF UserActs

(* The timer of the poll. *)
LEMMA TimerPolls ==
    ASSUME IInv, PollInv, PollTimer
    PROVE  PollInv'
<1>1. /\ ui \in Windows /\ ui.generation \in Nat
      /\ UNCHANGED <<manager, alive, spawned, posts>>
  BY DEF IInv, TypeInv, Windows, PollTimer, deviceVars
<1>2. CASE (ui.closing \/ ~Running) /\ PollSkipped
  <2>1. ui' = [ui EXCEPT !.pollJob = FALSE] /\ Told
    BY <1>2 DEF PollSkipped, Told
  <2>2. ui.closing => ~ui.connected
    BY DEF PollInv, TuningInv
  <2>3. QED BY <1>1, <1>2, <2>1, <2>2, QuietPolls DEF Windows
<1>3. CASE PollPutOff
  <2>1. ui' = ui /\ Told
    BY <1>3 DEF PollPutOff, Told
  <2>2. QED BY <1>1, <2>1, QuietPolls
<1>4. CASE PollBegins
  <2>1. ui' = [ui EXCEPT !.pollJob = FALSE, !.pollBusy = TRUE] /\ HasSlot
        /\ worker' = Started(Thread("poll", ui.generation, "operate"))
    BY <1>4 DEF PollBegins
  <2>2. Told /\ \E s \in Slots : worker'[s].job = "poll" /\ worker'[s].gen = ui.generation
    BY <1>1, <2>1, Tells
  <2>3. ui'.generation = ui.generation
    BY <1>1, <2>1 DEF Windows
  <2>4. Coming("poll")'
    BY <2>2, <2>3 DEF Coming
  <2>5. QED BY <1>1, <2>1, <2>2, <2>4, QuietPolls DEF Windows
<1>5. QED BY <1>2, <1>3, <1>4 DEF PollTimer

-----------------------------------------------------------------------------
(* An answer that is taken, and that changes nothing but what is scheduled *)
(* and which of the controls are blocked.                                  *)
LEMMA TakenPolls ==
    ASSUME IInv, PollInv, NEW post \in posts, posts' = posts \ {post},
           worker' = worker,
           ui'.generation = ui.generation, ui'.connected = ui.connected,
           ui'.starting = ui.starting, ui'.tunerPending = ui.tunerPending,
           ui'.closing = ui.closing,
           ui'.tunerBusy => /\ ui.tunerBusy
                            /\ post.gen = ui.generation => post.what \notin {"tuner", "tunerFailed"},
           \/ ui.pollJob => ui'.pollJob
           \/ ui'.connected /\ Running => ui'.pollJob,
           \/ ui'.pollJob \/ ~(ui.connected /\ Running) \/ post.gen # ui.generation
           \/ post.what \notin {"poll", "pollFailed", "tuner", "tunerFailed"}
           \/ ui.tunerBusy /\ post.what \in {"poll", "pollFailed"},
           UNCHANGED <<manager, alive, spawned>>
    PROVE  PollInv'
<1>1. Told
  BY DEF Told
<1>2. posts' \subseteq posts
  OBVIOUS
<1>3. /\ GenerationsInv' /\ StartsInv' /\ ConnectionInv'
      /\ PendingStart' => PendingStart
      /\ Running' <=> Running
  BY <1>1, <1>2, TellPolls
<1>4. (post.gen = ui.generation => post.what \notin {"tuner", "tunerFailed"})
        => (Coming("tuner") => Coming("tuner")')
  BY AnswerNames DEF Coming
<1>5. (post.gen = ui.generation => post.what \notin {"poll", "pollFailed"})
        => (Coming("poll") => Coming("poll")')
  BY AnswerNames DEF Coming
<1>6. TuningInv'
  BY <1>3, <1>4 DEF PollInv, TuningInv
<1>7. PollingGoesOn'
  BY <1>3, <1>4, <1>5 DEF PollInv, TuningInv, PollingGoesOn
<1>8. QED BY <1>3, <1>6, <1>7 DEF PollInv

(* No start is awaited any more after its answer. *)
LEMMA StartAnswered ==
    ASSUME PollInv, NEW post \in posts, post.what \in {"started", "startFailed"},
           Current(post), NEW what
    PROVE  /\ \A s \in Slots : Asked(s) => worker[s].gen # ui.generation
           /\ \A other \in posts \ {post} :
                 other.what = "started" => other.gen # ui.generation
<1>1. \A other \in posts : other.what = post.what /\ other.gen = post.gen => other = post
  <2>1. \A other \in posts : other = [what |-> other.what, gen |-> other.gen]
    BY DEF PollInv, GenerationsInv
  <2>2. QED BY <2>1
<1>2. QED BY <1>1 DEF PollInv, StartsInv, Current

(* A device that is there is connected and polled, after its tuner command *)
(* if it was started for one.                                              *)
LEMMA StartedPolls ==
    ASSUME IInv, PollInv, NEW post \in posts, post.what = "started", OnStarted(post),
           posts' = posts \ {post}, UNCHANGED <<kind, manager, alive, spawned>>
    PROVE  PollInv'
<1>1. ui \in Windows /\ ui.generation \in Nat
  BY DEF IInv, TypeInv, Windows
<1>2. CASE ~Current(post)
  <2>1. ui' = ui /\ worker' = worker
    BY <1>2 DEF OnStarted
  <2>2. QED BY <2>1, TakenPolls
<1>3. CASE Current(post)
  <2> DEFINE u == [ui EXCEPT !.starting = FALSE, !.startButton = TRUE, !.connected = TRUE]
  <2>1. u \in Windows
    BY <1>1, FieldTypes
  <2>2. /\ u.generation = ui.generation /\ u.tunerBusy = ui.tunerBusy
        /\ u.tunerPending = ui.tunerPending /\ u.closing = ui.closing
    BY <1>1 DEF Windows
  <2>3. \/ /\ ui.tunerPending /\ HasSlot /\ ui' = TunerBegun(u)
           /\ worker' = Started(Thread("tuner", ui.generation, "operate"))
        \/ ~ui.tunerPending /\ ui' = Scheduled(u) /\ worker' = worker
    BY <1>3 DEF OnStarted
  <2> HIDE DEF u
  <2>4. /\ \A s \in Slots : Asked(s) => worker[s].gen # ui.generation
        /\ \A other \in posts' : other.what = "started" => other.gen # ui.generation
    BY <1>3, StartAnswered
  <2>5. ~ui.closing /\ post.gen = ui.generation
    BY <1>3 DEF Current
  <2>6. ~ui.tunerBusy \/ ui.tunerPending
    BY <2>5 DEF PollInv, TuningInv, PendingStart
  <2>7. ui'.generation = ui.generation /\ ui'.closing = ui.closing
    BY <2>1, <2>2, <2>3, WindowFields
  <2>8. Told
    <3>1. CASE worker' = worker
      BY <3>1 DEF Told
    <3>2. CASE HasSlot /\ worker' = Started(Thread("tuner", ui.generation, "operate"))
      BY <1>1, <3>2, Tells
    <3>3. QED BY <2>3, <3>1, <3>2
  <2>9. posts' \subseteq posts
    OBVIOUS
  <2>10. /\ GenerationsInv' /\ StartsInv' /\ ConnectionInv' /\ (Running' <=> Running)
    BY <2>5, <2>7, <2>8, <2>9, TellPolls
  <2>11. ~PendingStart'
    <3>1. \A s \in Slots : worker'[s].job = "start" => worker'[s] = worker[s]
      BY <2>8 DEF Told
    <3>2. \A s \in Slots : worker'[s].job = "start" => worker'[s].gen # ui.generation
      BY <2>4, <3>1 DEF Asked
    <3>3. QED BY <2>4, <2>7, <3>2 DEF PendingStart
  <2>12. CASE ui' = TunerBegun(u) /\ HasSlot
              /\ worker' = Started(Thread("tuner", ui.generation, "operate"))
    <3>1. \E s \in Slots : worker'[s].job = "tuner" /\ worker'[s].gen = ui.generation
      BY <1>1, <2>12, Tells
    <3>2. Coming("tuner")'
      BY <2>7, <3>1 DEF Coming
    <3>3. QED BY <2>5, <2>7, <2>10, <2>11, <3>2 DEF PollInv, TuningInv, PollingGoesOn
  <2>13. CASE ~ui.tunerPending /\ ui' = Scheduled(u) /\ worker' = worker
    <3>1. ui'.tunerBusy = u.tunerBusy /\ (ui'.pollJob <=> ~u.closing /\ (kind = "rotor" => Running))
      BY <2>1, <2>13, WindowFields
    <3>2. ~ui'.tunerBusy /\ (Running => ui'.pollJob)
      BY <2>2, <2>5, <2>6, <2>13, <3>1
    <3>3. QED BY <2>5, <2>7, <2>10, <2>11, <3>2 DEF PollInv, TuningInv, PollingGoesOn
  <2>14. QED BY <2>3, <2>12, <2>13
<1>4. QED BY <1>2, <1>3

(* A start that failed leaves neither a start nor a tuner command. *)
LEMMA StartFailedPolls ==
    ASSUME IInv, PollInv, NEW post \in posts, post.what = "startFailed", OnStartFailed(post),
           posts' = posts \ {post}, UNCHANGED <<kind, manager, alive, spawned>>
    PROVE  PollInv'
<1>1. worker' = worker /\ ui \in Windows
  BY DEF OnStartFailed, IInv, TypeInv
<1>2. CASE ~Current(post)
  <2>1. ui' = ui
    BY <1>2 DEF OnStartFailed
  <2>2. QED BY <1>1, <2>1, TakenPolls
<1>3. CASE Current(post)
  <2>1. ui' = [ui EXCEPT !.starting = FALSE, !.startButton = TRUE, !.cutShort = FALSE,
                         !.tunerPending = FALSE, !.tunerBusy = FALSE]
    BY <1>3 DEF OnStartFailed
  <2>2. /\ ui'.generation = ui.generation /\ ui'.connected = ui.connected
        /\ ui'.closing = ui.closing /\ ui'.tunerBusy = FALSE /\ ui'.pollJob = ui.pollJob
    BY <1>1, <2>1 DEF Windows
  <2>3. Told /\ posts' \subseteq posts
    BY <1>1 DEF Told
  <2>4. /\ GenerationsInv' /\ StartsInv' /\ ConnectionInv' /\ (Running' <=> Running)
    BY <2>2, <2>3, TellPolls
  <2>5. ~PendingStart'
    <3>1. /\ \A s \in Slots : Asked(s) => worker[s].gen # ui.generation
          /\ \A other \in posts' : other.what = "started" => other.gen # ui.generation
      BY <1>3, StartAnswered
    <3>2. QED BY <1>1, <2>2, <3>1 DEF PendingStart, Asked
  <2>6. (Coming("poll") => Coming("poll")') /\ (Coming("tuner") => Coming("tuner")')
    BY <1>1, <2>2, AnswerNames DEF Coming
  <2>7. TuningInv' /\ PollingGoesOn'
    BY <2>2, <2>4, <2>5, <2>6 DEF PollInv, TuningInv, PollingGoesOn
  <2>8. QED BY <2>4, <2>7 DEF PollInv
<1>4. QED BY <1>2, <1>3

(* The answers to a poll, a tuner command and a turn of the rotor. *)
LEMMA OperatedPolls ==
    ASSUME IInv, PollInv, NEW post \in posts,
           \/ post.what \in {"poll", "pollFailed"} /\ OnPolled(post)
           \/ post.what \in {"tuner", "tunerFailed"} /\ OnTunerFinished(post)
           \/ post.what \in {"turn", "turnFailed"} /\ OnTurned(post)
           \/ /\ post.what \notin {"poll", "pollFailed", "tuner", "tunerFailed"}
              /\ OnShown,
           posts' = posts \ {post}, UNCHANGED <<kind, manager, alive, spawned>>
    PROVE  PollInv'
<1>1. ui \in Windows /\ (ui.closing => ~ui.connected)
  BY DEF IInv, TypeInv, PollInv, TuningInv
<1>2. CASE post.what \in {"poll", "pollFailed"} /\ OnPolled(post)
  <2>1. PICK idle : idle = [ui EXCEPT !.pollBusy = FALSE]
    OBVIOUS
  <2>2. /\ idle \in Windows
        /\ idle.generation = ui.generation /\ idle.connected = ui.connected
        /\ idle.starting = ui.starting /\ idle.tunerBusy = ui.tunerBusy
        /\ idle.tunerPending = ui.tunerPending /\ idle.closing = ui.closing
        /\ idle.pollJob = ui.pollJob
    BY <1>1, <2>1 DEF Windows
  <2>3. /\ worker' = worker
        /\ ui' = IF Current(post) /\ ~ui.tunerBusy THEN Scheduled(idle) ELSE idle
    BY <1>2, <2>1 DEF OnPolled
  <2>4. CASE Current(post) /\ ~ui.tunerBusy
    <3>1. /\ ui'.generation = ui.generation /\ ui'.connected = ui.connected
          /\ ui'.starting = ui.starting /\ ui'.tunerBusy = ui.tunerBusy
          /\ ui'.tunerPending = ui.tunerPending /\ ui'.closing = ui.closing
          /\ ui'.pollJob <=> ~ui.closing /\ (kind = "rotor" => Running)
      BY <2>2, <2>3, <2>4, WindowFields
    <3>2. QED BY <1>1, <2>3, <2>4, <3>1, TakenPolls
  <2>5. CASE ~(Current(post) /\ ~ui.tunerBusy)
    <3>1. ui' = idle /\ (post.gen # ui.generation \/ ui.closing \/ ui.tunerBusy)
      BY <2>3, <2>5 DEF Current
    <3>2. QED BY <1>1, <1>2, <2>2, <2>3, <3>1, TakenPolls
  <2>6. QED BY <2>4, <2>5
<1>3. CASE post.what \in {"tuner", "tunerFailed"} /\ OnTunerFinished(post)
  <2>1. PICK idle : idle = [ui EXCEPT !.tunerBusy = FALSE]
    OBVIOUS
  <2>2. /\ idle \in Windows
        /\ idle.generation = ui.generation /\ idle.connected = ui.connected
        /\ idle.starting = ui.starting /\ idle.tunerBusy = FALSE
        /\ idle.tunerPending = ui.tunerPending /\ idle.closing = ui.closing
        /\ idle.pollJob = ui.pollJob
    BY <1>1, <2>1 DEF Windows
  <2>3. /\ worker' = worker
        /\ ui' = IF Current(post) /\ Running THEN Scheduled(idle) ELSE idle
    BY <1>3, <2>1 DEF OnTunerFinished
  <2>4. CASE Current(post) /\ Running
    <3>1. /\ ui'.generation = ui.generation /\ ui'.connected = ui.connected
          /\ ui'.starting = ui.starting /\ ui'.tunerBusy = FALSE
          /\ ui'.tunerPending = ui.tunerPending /\ ui'.closing = ui.closing
          /\ ui'.pollJob <=> ~ui.closing /\ (kind = "rotor" => Running)
      BY <2>2, <2>3, <2>4, WindowFields
    <3>2. QED BY <1>1, <2>3, <2>4, <3>1, TakenPolls
  <2>5. CASE ~(Current(post) /\ Running)
    <3>1. ui' = idle /\ (post.gen # ui.generation \/ ui.closing \/ ~Running)
      BY <2>3, <2>5 DEF Current
    <3>2. QED BY <1>1, <2>2, <2>3, <3>1, TakenPolls
  <2>6. QED BY <2>4, <2>5
<1>4. CASE post.what \in {"turn", "turnFailed"} /\ OnTurned(post)
  <2>1. PICK idle : idle = [ui EXCEPT !.motionBusy = FALSE]
    OBVIOUS
  <2>2. /\ idle \in Windows
        /\ idle.generation = ui.generation /\ idle.connected = ui.connected
        /\ idle.starting = ui.starting /\ idle.tunerBusy = ui.tunerBusy
        /\ idle.tunerPending = ui.tunerPending /\ idle.closing = ui.closing
        /\ idle.pollJob = ui.pollJob
    BY <1>1, <2>1 DEF Windows
  <2>3. /\ worker' = worker
        /\ ui' = IF Current(post) /\ post.what = "turn" THEN Scheduled(idle) ELSE idle
    BY <1>4, <2>1 DEF OnTurned
  <2>4. CASE Current(post) /\ post.what = "turn"
    <3>1. /\ ui'.generation = ui.generation /\ ui'.connected = ui.connected
          /\ ui'.starting = ui.starting /\ ui'.tunerBusy = ui.tunerBusy
          /\ ui'.tunerPending = ui.tunerPending /\ ui'.closing = ui.closing
          /\ ui'.pollJob <=> ~ui.closing /\ (kind = "rotor" => Running)
      BY <2>2, <2>3, <2>4, WindowFields
    <3>2. QED BY <1>1, <1>4, <2>3, <2>4, <3>1, TakenPolls
  <2>5. CASE ~(Current(post) /\ post.what = "turn")
    <3>1. ui' = idle
      BY <2>3, <2>5
    <3>2. QED BY <1>1, <1>4, <2>2, <2>3, <3>1, TakenPolls
  <2>6. QED BY <2>4, <2>5
<1>5. CASE /\ post.what \notin {"poll", "pollFailed", "tuner", "tunerFailed"}
           /\ OnShown
  BY <1>5, TakenPolls DEF OnShown
<1>6. QED BY <1>2, <1>3, <1>4, <1>5

LEMMA AnswerPolls ==
    ASSUME IInv, PollInv, NEW post \in posts, Handle(post)
    PROVE  PollInv'
<1>1. posts' = posts \ {post} /\ UNCHANGED <<kind, manager, alive, spawned>>
  BY DEF Handle, deviceVars
<1>2. \/ post.what = "started" /\ OnStarted(post)
      \/ post.what = "startFailed" /\ OnStartFailed(post)
      \/ post.what \in {"poll", "pollFailed"} /\ OnPolled(post)
      \/ post.what \in {"tuner", "tunerFailed"} /\ OnTunerFinished(post)
      \/ post.what \in {"turn", "turnFailed"} /\ OnTurned(post)
      \/ /\ post.what \notin {"poll", "pollFailed", "tuner", "tunerFailed"}
         /\ OnShown
  BY DEF Handle
<1>3. QED BY <1>1, <1>2, StartedPolls, StartFailedPolls, OperatedPolls

-----------------------------------------------------------------------------
LEMMA NextPolls ==
    ASSUME IInv, PollInv, [Next]_vars, ~RestartWhileTuning
    PROVE  PollInv'
<1>1. CASE UserActs
  BY <1>1, UserPolls
<1>2. CASE \E s \in Slots : ThreadStepOnly(s) \/ ThreadFails(s)
  BY <1>2, ThreadPolls
<1>3. CASE ProgramDies
  BY <1>3, DeathPolls
<1>4. CASE UpdaterStep \/ UpdaterFails \/ UNCHANGED vars
  <2>1. /\ UNCHANGED <<manager, alive, spawned, worker, posts, ui>>
    BY <1>4 DEF UpdaterStep, UpdaterFails, deviceVars, vars
  <2>2. Told
    BY <2>1 DEF Told
  <2>3. QED BY <2>1, <2>2, QuietPolls
<1>5. CASE PollTimer
  BY <1>5, TimerPolls
<1>6. CASE HandleAnswer
  BY <1>6, AnswerPolls DEF HandleAnswer
<1>7. QED BY <1>1, <1>2, <1>3, <1>4, <1>5, <1>6 DEF Next

(* Polling goes on: as long as the window shows a device as connected and  *)
(* its program runs, there is a poll to come, or a poll or a tuner command *)
(* whose answer schedules one (feature_cat.py:969), for any number of      *)
(* threads, operations and failures; unless the user starts CAT during a   *)
(* tuner command (RestartWhileTuning), which leaves the page without one.  *)
THEOREM PollsGoOn == ~RestartWhileTuning => (Spec => []PollingGoesOn)
<1> SUFFICES ASSUME ~RestartWhileTuning PROVE Spec => []PollingGoesOn
  OBVIOUS
<1>1. PollInv => PollingGoesOn
  BY DEF PollInv
<1>2. IInv /\ PollInv /\ [Next]_vars => IInv' /\ PollInv'
  BY NextInvariant, NextPolls
<1>3. QED BY <1>1, <1>2, InitInvariant, InitPolls, PTL DEF Spec

-----------------------------------------------------------------------------
(* The replacement of Hamlib. *)

(* Directories that hold a version or are not there: what updates leave    *)
(* that meet no error.                                                     *)
Whole == {Absent} \union Versions

WholeDisks == [current : Whole, backup : Whole, swap : {Absent}]

UpdateSteps == {"idle", "download", "stage", "dropBackup", "keepOld", "moveIn", "cleanUp",
                "recover", "dropSwap", "swapOut", "bringBack", "checkBack", "keepSwapped", "undo"}

UpdateTypeInv ==
    /\ disk \in [current : Contents, backup : Contents, swap : Contents]
    /\ updater \in [step : UpdateSteps, result : {"", "failed", "installed", "restored"},
                    release : Contents, active : Contents, had : Contents]
    /\ diskFaults \in Nat

(* Incomplete directories come from errors.                                *)
WholeInv ==
    diskFaults = 0 => disk.current \in Whole /\ disk.backup \in Whole /\ disk.swap \in Whole

(* The version in use at the start of an update was the installed one if   *)
(* there was a usable one, and else the one that came along.               *)
InUseInv ==
    updater.step # "idle" => /\ updater.result = ""
                             /\ updater.active = IF Usable(updater.had) THEN updater.had
                                                 ELSE Bundled

(* Where an installation has put the version that was in use.              *)
InstallInv ==
    /\ updater.step \in {"download", "stage", "dropBackup", "keepOld"} =>
          disk.current = updater.had
    /\ updater.step \in {"download", "stage", "dropBackup", "keepOld", "moveIn", "cleanUp"} =>
          updater.release \in Versions
    /\ updater.step = "moveIn" =>
          /\ disk.backup = updater.active
          /\ Usable(updater.had) => disk.current = Absent
    /\ updater.step = "cleanUp" =>
          disk.current = updater.release /\ disk.backup = updater.active
    /\ updater.step = "recover" /\ Usable(updater.had) =>
          \/ disk.current = updater.had
          \/ disk.current = Absent /\ disk.backup = updater.had /\ diskFaults > 0

(* The three situations of the directories while two versions are swapped. *)
NotYetSwapped ==
    disk.current = updater.had /\ disk.backup = updater.release /\ disk.swap = Absent

SwappedOut ==
    disk.current = Absent /\ disk.backup = updater.release /\ disk.swap = updater.had

BroughtBack ==
    disk.current = updater.release /\ disk.backup = Absent /\ disk.swap = updater.had

(* Where a restoration has put the two versions.                           *)
SwapInv ==
    /\ updater.step = "dropSwap" =>
          disk.current = updater.had /\ disk.backup = updater.release
    /\ updater.step \in {"swapOut", "bringBack", "checkBack", "keepSwapped", "undo"} =>
          Usable(updater.release)
    /\ updater.step = "swapOut" => NotYetSwapped
    /\ updater.step = "bringBack" => SwappedOut
    /\ updater.step \in {"checkBack", "keepSwapped"} => BroughtBack
    /\ updater.step = "undo" =>
          \/ NotYetSwapped
          \/ diskFaults > 0 /\ (SwappedOut \/ BroughtBack)

UpdateInv == UpdateTypeInv /\ WholeInv /\ InUseInv /\ InstallInv /\ SwapInv

(* What UpdateKeepsHamlib says of a step.                                  *)
KeepsHamlib ==
    updater.step # "idle" =>
        /\ FailsOnce => Active' = updater.active \/ (updater.step = "cleanUp" /\ Replaced)
        /\ updater'.result = "installed" \/ (updater'.result = "restored" /\ Usable(updater.had))
              => Replaced

(* The last step of an update shows its result, and no other step does.    *)
LEMMA QuietSteps ==
    ASSUME updater'.result = ""
    PROVE  KeepsHamlib
BY DEF KeepsHamlib, FailsOnce

(* A failure is harmless when the directory in use is as it was.           *)
LEMMA HarmlessFailure ==
    ASSUME UpdateInv, updater.step # "idle", updater'.result = "failed",
           Usable(updater.had) /\ diskFaults' <= 1 /\ ~Locked => disk'.current = updater.had
    PROVE  KeepsHamlib
BY DEF UpdateInv, InUseInv, KeepsHamlib, FailsOnce, Active

(* What the numbers of the directories say of them.                        *)
LEMMA Directories ==
    /\ \A dir \in Contents : dir \in Nat
    /\ \A dir \in Contents : Usable(dir) <=> dir \notin {Absent, Unusable}
    /\ \A dir \in Contents : Usable(dir) /\ dir # Partial <=> dir \in Versions
    /\ \A dir : Runs(dir) <=> dir \in Versions
    /\ Versions \subseteq Contents /\ {Absent, Unusable, Partial, Bundled} \subseteq Contents
    /\ Unusable # Absent /\ Partial # Absent /\ Partial # Unusable
    /\ {Absent, Unusable, Partial} \cap Versions = {} /\ Bundled \in Versions
BY LatestAssumption
   DEF Contents, Versions, Usable, Runs, Absent, Unusable, Partial, Bundled

(* A step leaves the numbers of errors as they are or counts one more.     *)
Counted == diskFaults' \in {diskFaults, diskFaults + 1}

LEMMA CountedType ==
    ASSUME UpdateInv, Counted
    PROVE  diskFaults' \in Nat /\ diskFaults' >= diskFaults
<1>1. diskFaults \in Nat
  BY DEF UpdateInv, UpdateTypeInv
<1>2. QED BY <1>1 DEF Counted

(* As long as there was none, all directories are whole.                   *)
LEMMA WholeStays ==
    ASSUME UpdateInv, Counted, diskFaults' = 0
    PROVE  /\ disk.current \in Whole /\ disk.backup \in Whole /\ disk.swap \in Whole
           /\ Absent \in Whole
<1>1. diskFaults = 0
  <2>1. diskFaults \in Nat
    BY DEF UpdateInv, UpdateTypeInv
  <2>2. QED BY <2>1 DEF Counted
<1>2. QED BY <1>1 DEF UpdateInv, WholeInv, Whole

LEMMA WholeDirectories ==
    ASSUME UpdateInv, Counted,
           disk'.current \in {Absent, disk.current, disk.backup, disk.swap},
           disk'.backup \in {Absent, disk.current, disk.backup, disk.swap},
           disk'.swap \in {Absent, disk.current, disk.backup, disk.swap}
    PROVE  WholeInv'
BY WholeStays DEF WholeInv

(* A step that leaves the directories as they are and goes on.             *)
LEMMA GoesOn ==
    ASSUME UpdateInv, Counted, UNCHANGED disk,
           NEW step \in UpdateSteps \ {"idle"}, updater.step # "idle", GoTo(step)
    PROVE  /\ UpdateTypeInv' /\ WholeInv' /\ InUseInv' /\ KeepsHamlib
           /\ updater'.step = step
           /\ updater'.release = updater.release /\ updater'.had = updater.had
           /\ updater'.active = updater.active
<1>1. /\ updater' = [updater EXCEPT !.step = step] /\ updater.result = ""
      /\ disk \in [current : Contents, backup : Contents, swap : Contents]
      /\ updater \in [step : UpdateSteps, result : {"", "failed", "installed", "restored"},
                      release : Contents, active : Contents, had : Contents]
  BY DEF UpdateInv, UpdateTypeInv, InUseInv, GoTo
<1>2. /\ updater' \in [step : UpdateSteps, result : {"", "failed", "installed", "restored"},
                       release : Contents, active : Contents, had : Contents]
      /\ updater'.step = step /\ updater'.result = ""
      /\ updater'.release = updater.release /\ updater'.had = updater.had
      /\ updater'.active = updater.active
  BY <1>1
<1>3. UpdateTypeInv'
  BY <1>1, <1>2, CountedType DEF UpdateTypeInv
<1>4. WholeInv'
  BY WholeDirectories
<1>5. InUseInv' /\ KeepsHamlib
  BY <1>2, QuietSteps DEF UpdateInv, InUseInv
<1>6. QED BY <1>2, <1>3, <1>4, <1>5

(* A step that changes them and goes on.                                   *)
LEMMA MovesOn ==
    ASSUME UpdateInv, Counted, updater.step # "idle",
           NEW step \in UpdateSteps \ {"idle"}, GoTo(step),
           NEW current \in Contents, NEW backup \in Contents, NEW swap \in Contents,
           disk' = [current |-> current, backup |-> backup, swap |-> swap],
           diskFaults' = 0 => current \in Whole /\ backup \in Whole /\ swap \in Whole
    PROVE  /\ UpdateTypeInv' /\ WholeInv' /\ InUseInv' /\ KeepsHamlib
           /\ updater'.step = step
           /\ updater'.release = updater.release /\ updater'.had = updater.had
           /\ updater'.active = updater.active
           /\ disk'.current = current /\ disk'.backup = backup /\ disk'.swap = swap
<1>1. /\ updater' = [updater EXCEPT !.step = step] /\ updater.result = ""
      /\ updater \in [step : UpdateSteps, result : {"", "failed", "installed", "restored"},
                      release : Contents, active : Contents, had : Contents]
  BY DEF UpdateInv, UpdateTypeInv, InUseInv, GoTo
<1>2. /\ updater' \in [step : UpdateSteps, result : {"", "failed", "installed", "restored"},
                       release : Contents, active : Contents, had : Contents]
      /\ updater'.step = step /\ updater'.result = ""
      /\ updater'.release = updater.release /\ updater'.had = updater.had
      /\ updater'.active = updater.active
  BY <1>1
<1>3. UpdateTypeInv' /\ WholeInv'
  BY <1>2, CountedType DEF UpdateTypeInv, WholeInv
<1>4. InUseInv' /\ KeepsHamlib
  BY <1>2, QuietSteps DEF UpdateInv, InUseInv
<1>5. QED BY <1>2, <1>3, <1>4

(* A step that ends the update.                                            *)
LEMMA Ends ==
    ASSUME UpdateInv, Counted, updater.step # "idle",
           NEW result \in {"failed", "installed", "restored"}, End(result),
           disk' \in [current : Contents, backup : Contents, swap : Contents],
           WholeInv'
    PROVE  UpdateInv' /\ updater'.result = result
<1>1. /\ updater' = [Idle(result) EXCEPT !.active = updater.active, !.had = updater.had]
      /\ updater' \in [step : UpdateSteps, result : {"", "failed", "installed", "restored"},
                       release : Contents, active : Contents, had : Contents]
      /\ updater'.step = "idle" /\ updater'.result = result
  BY Directories DEF End, Idle, UpdateInv, UpdateTypeInv, UpdateSteps
<1>2. UpdateTypeInv'
  BY <1>1, CountedType DEF UpdateTypeInv
<1>3. InUseInv' /\ InstallInv' /\ SwapInv'
  BY <1>1 DEF InUseInv, InstallInv, SwapInv
<1>4. QED BY <1>1, <1>2, <1>3 DEF UpdateInv

-----------------------------------------------------------------------------
(* An installation. *)

LEMMA PrepareStep ==
    ASSUME UpdateInv, Counted, Downloaded \/ Staged
    PROVE  UpdateInv' /\ KeepsHamlib
<1>1. CASE Downloaded
  <2>1. updater.step = "download" /\ GoTo("stage") /\ UNCHANGED disk
    BY <1>1 DEF Downloaded, At
  <2>2. QED BY <2>1, GoesOn DEF UpdateInv, InstallInv, SwapInv, UpdateSteps
<1>2. CASE Staged
  <2>1. updater.step = "stage" /\ GoTo("dropBackup") /\ UNCHANGED disk
    BY <1>2 DEF Staged, At
  <2>2. QED BY <2>1, GoesOn DEF UpdateInv, InstallInv, SwapInv, UpdateSteps
<1>3. QED BY <1>1, <1>2

(* The download fails before anything was changed.                         *)
LEMMA DownloadFailsStep ==
    ASSUME UpdateInv, Counted, DownloadFails
    PROVE  UpdateInv' /\ KeepsHamlib
<1>1. updater.step = "download" /\ End("failed") /\ UNCHANGED disk
  BY DEF DownloadFails, At
<1>2. WholeInv'
  BY <1>1, WholeDirectories
<1>3. UpdateInv' /\ updater'.result = "failed"
  BY <1>1, <1>2, Ends DEF UpdateInv, UpdateTypeInv
<1>4. disk'.current = updater.had
  BY <1>1 DEF UpdateInv, InstallInv
<1>5. QED BY <1>1, <1>3, <1>4, HarmlessFailure

(* The errors after which the version in use is where it was, or in the    *)
(* backup after an error of the disk.                                      *)
LEMMA InstallFailsStep ==
    ASSUME UpdateInv, Counted,
           \/ StageFails
           \/ MoveInFails /\ (disk.current # Absent \/ diskFaults' = diskFaults + 1)
    PROVE  UpdateInv' /\ KeepsHamlib
<1>1. /\ updater.step \in {"stage", "moveIn"} /\ GoTo("recover") /\ UNCHANGED disk
      /\ updater.step = "moveIn" => disk.current # Absent \/ diskFaults' = diskFaults + 1
  BY DEF StageFails, MoveInFails, At
<1>2. UpdateTypeInv' /\ WholeInv' /\ InUseInv' /\ KeepsHamlib
      /\ updater'.step = "recover" /\ updater'.had = updater.had
  BY <1>1, GoesOn DEF UpdateSteps
<1>3. Usable(updater.had) => \/ disk.current = updater.had
                             \/ /\ disk.current = Absent /\ disk.backup = updater.had
                                /\ diskFaults' = diskFaults + 1
  BY <1>1 DEF UpdateInv, InstallInv, InUseInv
<1>4. InstallInv'
  <2>1. diskFaults \in Nat
    BY DEF UpdateInv, UpdateTypeInv
  <2>2. diskFaults + 1 > 0
    BY <2>1
  <2>3. QED BY <1>1, <1>2, <1>3, <2>2 DEF InstallInv
<1>5. QED BY <1>2, <1>4 DEF UpdateInv, SwapInv

LEMMA DropBackupStep ==
    ASSUME UpdateInv, Counted,
           OldBackupDropped \/ (OldBackupStays /\ diskFaults' = diskFaults + 1)
    PROVE  UpdateInv' /\ KeepsHamlib
<1> DEFINE Left(backup) == [current |-> disk.current, backup |-> backup, swap |-> disk.swap]
<1>1. /\ updater.step = "dropBackup" /\ disk.current \in Contents /\ disk.swap \in Contents
      /\ disk.backup \in Contents /\ diskFaults \in Nat
      /\ \A b : [disk EXCEPT !.backup = b] = Left(b)
  <2>1. /\ disk \in [current : Contents, backup : Contents, swap : Contents]
        /\ diskFaults \in Nat
    BY DEF UpdateInv, UpdateTypeInv
  <2>2. \A b : [disk EXCEPT !.backup = b] = Left(b)
    BY <2>1
  <2>3. updater.step = "dropBackup"
    BY DEF OldBackupDropped, OldBackupStays, At
  <2>4. QED BY <2>1, <2>2, <2>3
<1>2. CASE OldBackupDropped
  <2>1. disk' = Left(Absent) /\ GoTo("keepOld")
    BY <1>1, <1>2 DEF OldBackupDropped
  <2>2. diskFaults' = 0 =>
          disk.current \in Whole /\ Absent \in Whole /\ disk.swap \in Whole
    BY WholeStays
  <2>3. QED BY <1>1, <2>1, <2>2, MovesOn, Directories
            DEF UpdateInv, InstallInv, SwapInv, UpdateSteps
<1>3. CASE OldBackupStays /\ diskFaults' = diskFaults + 1
  <2>1. PICK b \in Contents : disk' = Left(b) /\ GoTo("recover")
    BY <1>1, <1>3, Directories DEF OldBackupStays
  <2>2. diskFaults' # 0
    BY <1>1, <1>3
  <2>3. QED BY <1>1, <2>1, <2>2, MovesOn
            DEF UpdateInv, InstallInv, SwapInv, UpdateSteps
<1>4. QED BY <1>2, <1>3

LEMMA KeepOldStep ==
    ASSUME UpdateInv, Counted, KeepOld(Locked)
    PROVE  UpdateInv' /\ KeepsHamlib
<1>1. /\ updater.step = "keepOld" /\ GoTo("moveIn")
      /\ disk.current = updater.had /\ updater.release \in Versions
      /\ updater.active = IF Usable(updater.had) THEN updater.had ELSE Bundled
      /\ disk \in [current : Contents, backup : Contents, swap : Contents]
      /\ updater.active \in Contents
  BY DEF KeepOld, At, UpdateInv, InstallInv, InUseInv, UpdateTypeInv
<1>2. CASE Usable(disk.current)
  <2>1. disk' = [current |-> Absent, backup |-> disk.current, swap |-> disk.swap]
    BY <1>1, <1>2 DEF KeepOld
  <2>2. diskFaults' = 0 =>
          Absent \in Whole /\ disk.current \in Whole /\ disk.swap \in Whole
    BY WholeStays
  <2>3. QED BY <1>1, <1>2, <2>1, <2>2, MovesOn, Directories
            DEF UpdateInv, InstallInv, SwapInv, UpdateSteps
<1>3. CASE ~Usable(disk.current)
  <2>1. disk' = [current |-> disk.current, backup |-> updater.active, swap |-> disk.swap]
    BY <1>1, <1>3 DEF KeepOld
  <2>2. diskFaults' = 0 =>
          disk.current \in Whole /\ updater.active \in Whole /\ disk.swap \in Whole
    BY <1>1, <1>3, WholeStays, Directories DEF Whole
  <2>3. QED BY <1>1, <1>3, <2>1, <2>2, MovesOn
            DEF UpdateInv, InstallInv, SwapInv, UpdateSteps
<1>4. QED BY <1>2, <1>3

LEMMA KeepOldFailsStep ==
    ASSUME UpdateInv, Counted, KeepOldFails(Locked),
           Usable(disk.current) \/ diskFaults' = diskFaults + 1
    PROVE  UpdateInv' /\ KeepsHamlib
<1>1. /\ updater.step = "keepOld" /\ GoTo("recover") /\ disk.current = updater.had
      /\ disk \in [current : Contents, backup : Contents, swap : Contents]
      /\ diskFaults \in Nat
  BY DEF KeepOldFails, At, UpdateInv, InstallInv, UpdateTypeInv
<1>2. CASE Usable(disk.current)
  <2>1. UNCHANGED disk
    BY <1>2 DEF KeepOldFails
  <2>2. QED BY <1>1, <2>1, GoesOn DEF UpdateInv, InstallInv, SwapInv, UpdateSteps
<1>3. CASE ~Usable(disk.current)
  <2>1. PICK b \in {Unusable, Partial} :
          disk' = [current |-> disk.current, backup |-> b, swap |-> disk.swap]
    BY <1>1, <1>3 DEF KeepOldFails
  <2>2. b \in Contents /\ diskFaults' # 0
    BY <1>1, <1>3, Directories
  <2>3. QED BY <1>1, <2>1, <2>2, MovesOn DEF UpdateInv, InstallInv, SwapInv, UpdateSteps
<1>4. QED BY <1>2, <1>3

(* The new version is in place, the old one in the backup.                 *)
LEMMA MoveInStep ==
    ASSUME UpdateInv, Counted, MoveIn
    PROVE  UpdateInv' /\ KeepsHamlib
<1>1. /\ updater.step = "moveIn" /\ GoTo("cleanUp")
      /\ disk.current \in Contents /\ disk.backup \in Contents /\ disk.swap \in Contents
      /\ disk' = [current |-> updater.release, backup |-> disk.backup, swap |-> disk.swap]
      /\ updater.release \in Versions /\ updater.release \in Contents
      /\ disk.backup = updater.active
  BY Directories DEF MoveIn, At, UpdateInv, InstallInv, UpdateTypeInv
<1>2. diskFaults' = 0 =>
        updater.release \in Whole /\ disk.backup \in Whole /\ disk.swap \in Whole
  BY <1>1, WholeStays DEF Whole
<1>3. /\ UpdateTypeInv' /\ WholeInv' /\ InUseInv' /\ KeepsHamlib
      /\ updater'.step = "cleanUp" /\ updater'.release = updater.release
      /\ updater'.active = updater.active
      /\ disk'.current = updater.release /\ disk'.backup = disk.backup
  BY <1>1, <1>2, MovesOn DEF UpdateSteps
<1>4. InstallInv' /\ SwapInv'
  BY <1>1, <1>3 DEF InstallInv, SwapInv
<1>5. QED BY <1>3, <1>4 DEF UpdateInv

(* The clean-up of an installation, whatever it meets, leaves it complete. *)
LEMMA CleanUpStep ==
    ASSUME UpdateInv, Counted, CleanedUp \/ CleanUpFails
    PROVE  UpdateInv' /\ KeepsHamlib
<1>1. PICK result \in {"failed", "installed"} : End(result)
  BY DEF CleanedUp, CleanUpFails
<1>2. /\ updater.step = "cleanUp" /\ UNCHANGED disk
      /\ disk \in [current : Contents, backup : Contents, swap : Contents]
      /\ updater.release \in Versions
      /\ disk.current = updater.release /\ disk.backup = updater.active
  BY DEF CleanedUp, CleanUpFails, At, UpdateInv, InstallInv, UpdateTypeInv
<1>3. WholeInv'
  BY <1>2, WholeDirectories
<1>4. UpdateInv' /\ updater'.result = result
  BY <1>1, <1>2, <1>3, Ends
<1>5. Active' = updater.release
  BY <1>2, Directories DEF Active
<1>6. QED BY <1>2, <1>4, <1>5 DEF KeepsHamlib, Replaced

(* What was in use is copied back from the backup, if need be.             *)
LEMMA RecoverStep ==
    ASSUME UpdateInv, Counted, Recover
    PROVE  UpdateInv' /\ KeepsHamlib
<1>1. /\ updater.step = "recover" /\ End("failed")
      /\ disk \in [current : Contents, backup : Contents, swap : Contents]
      /\ disk' = IF NeedsBackup THEN [disk EXCEPT !.current = disk.backup] ELSE disk
  BY DEF Recover, At, UpdateInv, UpdateTypeInv
<1>2. /\ disk' \in [current : Contents, backup : Contents, swap : Contents]
      /\ disk'.current \in {disk.current, disk.backup}
      /\ disk'.backup = disk.backup /\ disk'.swap = disk.swap
  BY <1>1
<1>3. WholeInv'
  BY <1>2, WholeDirectories
<1>4. UpdateInv' /\ updater'.result = "failed"
  BY <1>1, <1>2, <1>3, Ends
<1>5. ASSUME Usable(updater.had) PROVE disk'.current = updater.had
  <2>1. \/ disk.current = updater.had
        \/ disk.current = Absent /\ disk.backup = updater.had
    BY <1>1, <1>5 DEF UpdateInv, InstallInv
  <2>2. ~Usable(Absent)
    BY Directories
  <2>3. QED BY <1>1, <1>5, <2>1, <2>2 DEF NeedsBackup
<1>6. QED BY <1>1, <1>4, <1>5, HarmlessFailure

(* A copy that fails too is the second error.                              *)
LEMMA RecoverFailsStep ==
    ASSUME UpdateInv, diskFaults' = diskFaults + 1, RecoverFails
    PROVE  UpdateInv' /\ KeepsHamlib
<1>1. /\ updater.step = "recover" /\ End("failed") /\ NeedsBackup
      /\ disk \in [current : Contents, backup : Contents, swap : Contents]
      /\ diskFaults \in Nat
  BY DEF RecoverFails, At, UpdateInv, UpdateTypeInv
<1>2. PICK c \in {Unusable, Partial} : disk' = [disk EXCEPT !.current = c]
  BY DEF RecoverFails
<1>3. disk' \in [current : Contents, backup : Contents, swap : Contents]
  BY <1>1, <1>2, Directories
<1>4. WholeInv'
  BY <1>1 DEF WholeInv
<1>5. UpdateInv' /\ updater'.result = "failed"
  BY <1>1, <1>3, <1>4, Ends DEF Counted
<1>6. Usable(updater.had) => diskFaults > 0
  BY <1>1 DEF UpdateInv, InstallInv, NeedsBackup
<1>7. ~(Usable(updater.had) /\ diskFaults' <= 1)
  BY <1>1, <1>6
<1>8. QED BY <1>1, <1>5, <1>7, HarmlessFailure

-----------------------------------------------------------------------------
(* A restoration. *)

LEMMA NothingToRestoreStep ==
    ASSUME UpdateInv, Counted, NothingToRestore
    PROVE  UpdateInv' /\ KeepsHamlib
<1>1. updater.step = "dropSwap" /\ End("failed") /\ UNCHANGED disk
  BY DEF NothingToRestore, At
<1>2. WholeInv'
  BY <1>1, WholeDirectories
<1>3. UpdateInv' /\ updater'.result = "failed"
  BY <1>1, <1>2, Ends DEF UpdateInv, UpdateTypeInv
<1>4. disk'.current = updater.had
  BY <1>1 DEF UpdateInv, SwapInv
<1>5. QED BY <1>1, <1>3, <1>4, HarmlessFailure

LEMMA SwapSteps ==
    ASSUME UpdateInv, Counted, SwapDropped \/ SwapOut(Locked) \/ BringBack
    PROVE  UpdateInv' /\ KeepsHamlib
<1>1. /\ disk.current \in Contents /\ disk.backup \in Contents /\ disk.swap \in Contents
      /\ disk \in [current : Contents, backup : Contents, swap : Contents]
      /\ Absent \in Contents /\ Absent \in Whole
      /\ diskFaults' = 0 =>
            disk.current \in Whole /\ disk.backup \in Whole /\ disk.swap \in Whole
  <2>1. disk \in [current : Contents, backup : Contents, swap : Contents]
    BY DEF UpdateInv, UpdateTypeInv
  <2>2. QED BY <2>1, Directories, WholeStays DEF Whole
<1>2. CASE SwapDropped
  <2>1. /\ updater.step = "dropSwap" /\ GoTo("swapOut") /\ Usable(disk.backup)
        /\ disk' = [current |-> disk.current, backup |-> disk.backup, swap |-> Absent]
        /\ disk.current = updater.had /\ disk.backup = updater.release
    BY <1>1, <1>2 DEF SwapDropped, At, UpdateInv, SwapInv
  <2>2. QED BY <1>1, <2>1, MovesOn
            DEF UpdateInv, InstallInv, SwapInv, NotYetSwapped, UpdateSteps
<1>3. CASE SwapOut(Locked)
  <2>1. /\ updater.step = "swapOut" /\ GoTo("bringBack") /\ Usable(updater.release)
        /\ disk' = [current |-> Absent, backup |-> disk.backup, swap |-> disk.current]
        /\ disk.current = updater.had /\ disk.backup = updater.release
    BY <1>1, <1>3 DEF SwapOut, At, UpdateInv, SwapInv, NotYetSwapped
  <2>2. QED BY <1>1, <2>1, MovesOn
            DEF UpdateInv, InstallInv, SwapInv, SwappedOut, UpdateSteps
<1>4. CASE BringBack
  <2>1. /\ updater.step = "bringBack" /\ GoTo("checkBack") /\ Usable(updater.release)
        /\ disk' = [current |-> disk.backup, backup |-> Absent, swap |-> disk.swap]
        /\ disk.swap = updater.had /\ disk.backup = updater.release
    BY <1>1, <1>4 DEF BringBack, At, UpdateInv, SwapInv, SwappedOut
  <2>2. QED BY <1>1, <2>1, MovesOn
            DEF UpdateInv, InstallInv, SwapInv, BroughtBack, UpdateSteps
<1>5. QED BY <1>2, <1>3, <1>4

LEMMA BroughtBackStep ==
    ASSUME UpdateInv, Counted, BroughtBackRuns
    PROVE  UpdateInv' /\ KeepsHamlib
<1>1. updater.step = "checkBack" /\ GoTo("keepSwapped") /\ UNCHANGED disk
  BY DEF BroughtBackRuns, At
<1>2. QED BY <1>1, GoesOn DEF UpdateInv, InstallInv, SwapInv, BroughtBack, UpdateSteps

(* The previous version is in place, the other one in the backup.          *)
LEMMA KeepSwappedStep ==
    ASSUME UpdateInv, Counted, KeepSwapped
    PROVE  UpdateInv' /\ KeepsHamlib
<1>1. /\ updater.step = "keepSwapped" /\ End("restored") /\ BroughtBack
      /\ Usable(updater.release)
      /\ updater.active = IF Usable(updater.had) THEN updater.had ELSE Bundled
      /\ disk \in [current : Contents, backup : Contents, swap : Contents]
      /\ disk' = IF disk.swap = Absent THEN disk
                 ELSE [disk EXCEPT !.backup = disk.swap, !.swap = Absent]
  BY DEF KeepSwapped, At, UpdateInv, UpdateTypeInv, SwapInv, InUseInv
<1>2. /\ disk' \in [current : Contents, backup : Contents, swap : Contents]
      /\ disk'.current = disk.current /\ disk'.backup \in {disk.backup, disk.swap}
      /\ disk'.swap = Absent
      /\ disk.swap # Absent => disk'.backup = disk.swap
  BY <1>1, Directories
<1>3. WholeInv'
  BY <1>2, WholeDirectories
<1>4. UpdateInv' /\ updater'.result = "restored"
  BY <1>1, <1>2, <1>3, Ends
<1>5. Active' = updater.release
  BY <1>1, <1>2 DEF Active, BroughtBack
<1>6. Usable(updater.had) => disk'.backup = updater.active
  <2>1. ~Usable(Absent)
    BY Directories
  <2>2. QED BY <1>1, <1>2, <2>1 DEF BroughtBack
<1>7. QED BY <1>4, <1>5, <1>6 DEF KeepsHamlib, FailsOnce, Replaced

(* Once the version in use has been moved, only an error of the disk makes *)
(* a restoration fail.                                                     *)
LEMMA RestoreFailsStep ==
    ASSUME UpdateInv, Counted, RestoreStepFails,
           \/ updater.step = "swapOut"
           \/ updater.step = "checkBack" /\ ~Runs(disk.current)
           \/ diskFaults' = diskFaults + 1
    PROVE  UpdateInv' /\ KeepsHamlib
<1>1. /\ updater.step \in {"swapOut", "bringBack", "checkBack", "keepSwapped"}
      /\ GoTo("undo") /\ UNCHANGED disk /\ Usable(updater.release)
      /\ NotYetSwapped \/ SwappedOut \/ BroughtBack
      /\ updater.step = "swapOut" => NotYetSwapped
      /\ updater.step = "checkBack" => BroughtBack
      /\ diskFaults \in Nat
  BY DEF RestoreStepFails, UpdateInv, UpdateTypeInv, SwapInv
<1>2. /\ UpdateTypeInv' /\ WholeInv' /\ InUseInv' /\ KeepsHamlib
      /\ updater'.step = "undo" /\ updater'.release = updater.release
      /\ updater'.had = updater.had
  BY <1>1, GoesOn DEF UpdateSteps
<1>3. NotYetSwapped \/ diskFaults' > 0
  <2>1. CASE updater.step = "checkBack" /\ ~Runs(disk.current)
    <3>1. disk.current = updater.release
      BY <1>1, <2>1 DEF BroughtBack
    <3>2. disk.current \notin Whole
      BY <1>1, <2>1, <3>1, Directories DEF Whole
    <3>3. diskFaults # 0
      BY <3>2 DEF UpdateInv, WholeInv
    <3>4. QED BY <1>1, <3>3 DEF Counted
  <2>2. QED BY <1>1, <2>1
<1>4. NotYetSwapped' = NotYetSwapped /\ SwappedOut' = SwappedOut /\ BroughtBack' = BroughtBack
  BY <1>1, <1>2 DEF NotYetSwapped, SwappedOut, BroughtBack
<1>5. SwapInv'
  BY <1>1, <1>2, <1>3, <1>4 DEF SwapInv
<1>6. InstallInv'
  BY <1>2 DEF InstallInv
<1>7. QED BY <1>2, <1>5, <1>6 DEF UpdateInv

(* Both versions are brought back where they were.                         *)
LEMMA UndoStep ==
    ASSUME UpdateInv, Counted, Undo(Locked)
    PROVE  UpdateInv' /\ KeepsHamlib
<1>1. /\ updater.step = "undo" /\ End("failed") /\ Usable(updater.release)
      /\ NotYetSwapped \/ SwappedOut \/ BroughtBack
      /\ disk \in [current : Contents, backup : Contents, swap : Contents]
      /\ disk' = SwapUndone(BackupUndone(disk))
  BY DEF Undo, At, UpdateInv, UpdateTypeInv, SwapInv
<1>2. updater.release # Absent /\ Absent \in Contents /\ Absent \in Whole
  BY <1>1, Directories DEF Whole
<1>3. /\ disk' \in [current : Contents, backup : Contents, swap : Contents]
      /\ disk'.current = updater.had
      /\ disk'.current \in {Absent, disk.current, disk.backup, disk.swap}
      /\ disk'.backup \in {Absent, disk.current, disk.backup, disk.swap}
      /\ disk'.swap \in {Absent, disk.current, disk.backup, disk.swap}
  <2>1. CASE NotYetSwapped
    <3>1. disk' = disk
      BY <1>1, <1>2, <2>1 DEF SwapUndone, BackupUndone, NotYetSwapped
    <3>2. QED BY <1>1, <2>1, <3>1 DEF NotYetSwapped
  <2>2. CASE SwappedOut
    <3>1. BackupUndone(disk) = disk
      BY <1>1, <1>2, <2>2 DEF BackupUndone, SwappedOut
    <3>2. disk' = IF disk.swap # Absent THEN [disk EXCEPT !.current = disk.swap, !.swap = Absent]
                  ELSE disk
      BY <1>1, <2>2, <3>1 DEF SwapUndone, SwappedOut
    <3>3. QED BY <1>1, <1>2, <2>2, <3>2 DEF SwappedOut
  <2>3. CASE BroughtBack
    <3>1. BackupUndone(disk) = [disk EXCEPT !.backup = disk.current, !.current = Absent]
      BY <1>1, <1>2, <2>3 DEF BackupUndone, BroughtBack
    <3>2. PICK d \in [current : Contents, backup : Contents, swap : Contents] :
            /\ d = BackupUndone(disk)
            /\ d.current = Absent /\ d.backup = disk.current /\ d.swap = disk.swap
      BY <1>1, <1>2, <3>1
    <3>3. disk' = IF d.swap # Absent THEN [d EXCEPT !.current = d.swap, !.swap = Absent]
                  ELSE d
      BY <1>1, <3>2 DEF SwapUndone
    <3>4. QED BY <1>1, <1>2, <2>3, <3>2, <3>3 DEF BroughtBack
  <2>4. QED BY <1>1, <2>1, <2>2, <2>3
<1>4. WholeInv'
  BY <1>3, WholeDirectories
<1>5. UpdateInv' /\ updater'.result = "failed"
  BY <1>1, <1>3, <1>4, Ends
<1>6. QED BY <1>1, <1>3, <1>5, HarmlessFailure

(* Undoing fails without harm before anything was moved; later it is the   *)
(* second error, or a program runs from the directory.                     *)
LEMMA UndoFailsStep ==
    ASSUME UpdateInv, Counted, UndoFails, Locked \/ diskFaults' = diskFaults + 1
    PROVE  UpdateInv' /\ KeepsHamlib
<1>1. /\ updater.step = "undo" /\ End("failed") /\ Usable(updater.release)
      /\ NotYetSwapped \/ (diskFaults > 0 /\ (SwappedOut \/ BroughtBack))
      /\ disk \in [current : Contents, backup : Contents, swap : Contents]
      /\ disk' \in {disk, BackupUndone(disk)}
      /\ diskFaults \in Nat
  BY DEF UndoFails, At, UpdateInv, UpdateTypeInv, SwapInv
<1>2. updater.release # Absent /\ Absent \in Contents /\ Absent \in Whole
  BY <1>1, Directories DEF Whole
<1>3. /\ disk' \in [current : Contents, backup : Contents, swap : Contents]
      /\ NotYetSwapped => disk' = disk
      /\ disk'.current \in {Absent, disk.current}
      /\ disk'.backup \in {disk.current, disk.backup}
      /\ disk'.swap = disk.swap
  BY <1>1, <1>2 DEF BackupUndone, NotYetSwapped
<1>4. WholeInv'
  BY <1>3, WholeDirectories
<1>5. UpdateInv' /\ updater'.result = "failed"
  BY <1>1, <1>3, <1>4, Ends
<1>6. diskFaults' <= 1 /\ ~Locked => disk'.current = updater.had
  BY <1>1, <1>3 DEF NotYetSwapped
<1>7. QED BY <1>1, <1>5, <1>6, HarmlessFailure

-----------------------------------------------------------------------------
LEMMA InitUpdates == InitialDisks \subseteq WholeDisks /\ Init => UpdateInv
<1> SUFFICES ASSUME InitialDisks \subseteq WholeDisks, Init PROVE UpdateInv
  OBVIOUS
<1>1. /\ disk \in WholeDisks /\ updater = Idle("") /\ diskFaults = 0
  BY DEF Init, RuntimeInit
<1>2. UpdateTypeInv
  BY <1>1, Directories
     DEF UpdateTypeInv, WholeDisks, Whole, Idle, UpdateSteps
<1>3. WholeInv
  BY <1>1 DEF WholeInv, WholeDisks, Whole
<1>4. updater.step = "idle"
  BY <1>1 DEF Idle
<1>5. QED BY <1>2, <1>3, <1>4 DEF UpdateInv, InUseInv, InstallInv, SwapInv

(* The two ways to begin an update.                                        *)
LEMMA BeginStep ==
    ASSUME UpdateInv, BeginRestore \/ (\E release \in Versions : BeginInstall(release)),
           UNCHANGED <<disk, diskFaults>>
    PROVE  UpdateInv' /\ KeepsHamlib
<1>1. /\ disk \in [current : Contents, backup : Contents, swap : Contents]
      /\ diskFaults \in Nat /\ updater.step = "idle"
  BY DEF UpdateInv, UpdateTypeInv, BeginRestore, BeginInstall, At
<1>2. Active = (IF Usable(disk.current) THEN disk.current ELSE Bundled) /\ Active \in Contents
  BY <1>1, Directories DEF Active
<1>3. CASE BeginRestore
  <2>1. updater' = [step |-> "dropSwap", result |-> "", release |-> disk.backup,
                    active |-> Active, had |-> disk.current]
    BY <1>3 DEF BeginRestore
  <2>2. UpdateTypeInv'
    BY <1>1, <1>2, <2>1 DEF UpdateTypeInv, UpdateSteps
  <2>3. WholeInv' /\ InUseInv' /\ InstallInv' /\ SwapInv'
    BY <1>1, <1>2, <2>1 DEF UpdateInv, WholeInv, InUseInv, InstallInv, SwapInv
  <2>4. QED BY <1>1, <2>2, <2>3 DEF UpdateInv, KeepsHamlib
<1>4. CASE \E release \in Versions : BeginInstall(release)
  <2>1. PICK release \in Versions :
          updater' = [step |-> "download", result |-> "", release |-> release,
                      active |-> Active, had |-> disk.current]
    BY <1>4 DEF BeginInstall
  <2>2. UpdateTypeInv'
    BY <1>1, <1>2, <2>1, Directories DEF UpdateTypeInv, UpdateSteps
  <2>3. WholeInv' /\ InUseInv' /\ InstallInv' /\ SwapInv'
    BY <1>1, <1>2, <2>1 DEF UpdateInv, WholeInv, InUseInv, InstallInv, SwapInv
  <2>4. QED BY <1>1, <2>2, <2>3 DEF UpdateInv, KeepsHamlib
<1>5. QED BY <1>3, <1>4

LEMMA UpdateStep ==
    ASSUME UpdateInv, UpdaterStep
    PROVE  UpdateInv' /\ KeepsHamlib
<1>1. Counted
  BY DEF UpdaterStep, Counted
<1>2. CASE RegularStep(Locked)
  BY <1>1, <1>2, PrepareStep, DropBackupStep, KeepOldStep, MoveInStep, CleanUpStep, RecoverStep,
     NothingToRestoreStep, SwapSteps, BroughtBackStep, KeepSwappedStep, UndoStep
     DEF RegularStep
<1>3. CASE CertainError(Locked)
  <2>1. \/ Usable(disk.current) /\ KeepOldFails(Locked)
        \/ disk.current # Absent /\ MoveInFails
        \/ updater.step = "swapOut" /\ RestoreStepFails
        \/ updater.step = "checkBack" /\ ~Runs(disk.current) /\ RestoreStepFails
        \/ Locked /\ UndoFails
    BY <1>3 DEF CertainError, At
  <2>2. QED BY <1>1, <2>1, KeepOldFailsStep, InstallFailsStep, RestoreFailsStep, UndoFailsStep
<1>4. QED BY <1>2, <1>3 DEF UpdaterStep

LEMMA UpdateErrorStep ==
    ASSUME UpdateInv, UpdaterFails
    PROVE  UpdateInv' /\ KeepsHamlib
<1>1. diskFaults' = diskFaults + 1 /\ Counted
  BY DEF UpdaterFails, DiskFault, Counted
<1>2. QED
  BY <1>1, DownloadFailsStep, InstallFailsStep, DropBackupStep, KeepOldFailsStep, CleanUpStep,
     RecoverFailsStep, RestoreFailsStep, UndoFailsStep
     DEF UpdaterFails, FaultyStep

(* All other steps leave the directories alone.                            *)
LEMMA NextUpdates ==
    ASSUME UpdateInv, [Next]_vars
    PROVE  UpdateInv' /\ KeepsHamlib
<1>1. CASE UNCHANGED <<disk, updater, diskFaults>>
  <2>1. UpdateInv'
    BY <1>1 DEF UpdateInv, UpdateTypeInv, WholeInv, InUseInv, InstallInv, SwapInv,
                NotYetSwapped, SwappedOut, BroughtBack
  <2>2. KeepsHamlib
    BY <1>1 DEF UpdateInv, InUseInv, KeepsHamlib, FailsOnce
  <2>3. QED BY <2>1, <2>2
<1>2. CASE ReplaceHamlib
  BY <1>2, BeginStep DEF ReplaceHamlib
<1>3. CASE UserActs /\ ~ReplaceHamlib
  BY <1>1, <1>3 DEF UserActs, StartDevice, StopDevice, TestDevice, Tune, Turn, SendOnly,
                    CloseWindow
<1>4. CASE \E s \in Slots : ThreadStepOnly(s) \/ ThreadFails(s)
  BY <1>1, <1>4 DEF ThreadStepOnly, ThreadFails
<1>5. CASE ProgramDies \/ PollTimer \/ HandleAnswer \/ UNCHANGED vars
  BY <1>1, <1>5 DEF ProgramDies, PollTimer, HandleAnswer, Handle, vars
<1>6. QED BY <1>2, <1>3, <1>4, <1>5, UpdateStep, UpdateErrorStep DEF Next

(* An update that fails after a single error leaves the version in use     *)
(* that was installed before, unless the error is one of the clean-up      *)
(* after a complete installation (hamlib_update.py:279); one that succeeds *)
(* keeps the replaced version in the backup (feature_cat.py:417).  This is *)
(* so for any number of threads, operations, errors and releases, from     *)
(* directories that hold a version or are not there.                       *)
THEOREM UpdatesKeepHamlib == InitialDisks \subseteq WholeDisks => (Spec => UpdateKeepsHamlib)
<1> SUFFICES ASSUME InitialDisks \subseteq WholeDisks PROVE Spec => UpdateKeepsHamlib
  OBVIOUS
<1>1. Init => UpdateInv
  BY InitUpdates
<1>2. UpdateInv /\ [Next]_vars => UpdateInv'
  BY NextUpdates
<1>3. UpdateInv /\ [Next]_vars =>
        [updater.step # "idle" =>
          /\ FailsOnce => Active' = updater.active \/ (updater.step = "cleanUp" /\ Replaced)
          /\ updater'.result = "installed" \/ (updater'.result = "restored" /\ Usable(updater.had))
                => Replaced]_vars
  BY NextUpdates DEF KeepsHamlib
<1>4. QED BY <1>1, <1>2, <1>3, PTL DEF Spec, UpdateKeepsHamlib
=============================================================================
