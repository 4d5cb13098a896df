------------------------ MODULE AppLifecycle_proofs -------------------------
(***************************************************************************)
(* One synchronisation at a time, in the profile it was started for, and   *)
(* results that stay in their profile: for any profiles, settings, number  *)
(* of QSOs, operations and listeners.                                      *)
(***************************************************************************)
EXTENDS AppLifecycle, FiniteSetTheorems, TLAPS

Kinds == SyncKinds \union {"qsl"}

Workers == [kind : Kinds, reason : {"auto", "startup", "shutdown", "manual", "background"},
            session : Nat, book : Nat, profile : Profiles, asked : BOOLEAN,
            phase : {"start", "busy", "ok", "imported", "failed"}, taken : SUBSET Qsos]

Dialogs == [reason : {"none", "startup", "shutdown", "manual"},
            state : {"none", "running", "complete"}]

Attributes ==
    [phase : {"running", "joining", "gone"}, closeRequested : BOOLEAN,
     servicesStopped : BOOLEAN, closePoll : BOOLEAN,
     profile : Profiles, session : Nat, dbOpen : BOOLEAN,
     question : Profiles \union {Nobody},
     operation : SyncKinds \union {"none"}, cancel : {"none", "clear", "set"},
     dialog : Dialogs, workers : SUBSET Workers,
     write : {"none", "writing", "ended"},
     online : BOOLEAN, answeredIn : Nat, generation : Nat,
     checkBusy : BOOLEAN, checkJob : BOOLEAN, autoJob : BOOLEAN,
     startupPending : BOOLEAN, wsjtxJob : BOOLEAN,
     listening : BOOLEAN, udpGeneration : Nat]

Syncs(u) == {w \in u.workers : w.kind \in SyncKinds}

(* The synchronisation that runs is the one sync_operation names; while    *)
(* the program is running there is exactly that one.                       *)
OneSync(u) ==
    /\ \A w \in Syncs(u) : w.kind = u.operation
    /\ u.phase = "running" =>
          IF u.operation = "none" THEN Syncs(u) = {} ELSE \E w \in u.workers : Syncs(u) = {w}

(* A worker belongs to the session it was started in, and works on its     *)
(* logbook, unless it was started while the question of switch_profile was *)
(* open.  No other worker runs then, and no full sync is started.          *)
Owned(u) ==
    \A w \in u.workers :
        /\ ~w.asked => w.session = u.session /\ w.book = u.session
        /\ w.kind = "full" => ~w.asked
        /\ u.question # Nobody => w.asked /\ w.session = u.session /\ w.book = u.session

(* What holds of the attributes between two handlers.                      *)
Sane(u) ==
    /\ u \in Attributes
    /\ u.phase # "gone" =>
          /\ u.dbOpen
          /\ Owned(u)
          /\ OneSync(u)
    /\ u.online => u.answeredIn = u.session

(* What a handler does not take back, unless it opens another profile.     *)
Follows(u, s) ==
    /\ s.profile = u.profile /\ s.session = u.session
    /\ s.generation >= u.generation
    /\ s.udpGeneration >= u.udpGeneration
    /\ s.listening => u.listening /\ s.udpGeneration = u.udpGeneration

Keeps(u, s) == Sane(s) /\ Follows(u, s)

Probes == [generation : Nat, session : Nat, phase : {"busy", "posted"}, online : BOOLEAN]

(* A probe of the current generation asked the server of this profile.     *)
ProbesInv ==
    \A x \in probes :
        /\ x \in Probes
        /\ x.generation <= self.generation
        /\ x.generation = self.generation => x.session = self.session

(* A datagram of the listener that listens was heard for this profile.     *)
DatagramsInv ==
    \A d \in datagrams :
        /\ d.generation \in Nat /\ d.qso \in Qsos /\ heard[d.qso] # Nobody
        /\ d.generation <= self.udpGeneration
        /\ self.listening /\ d.generation = self.udpGeneration => heard[d.qso] = self.profile

FreshInv ==
    /\ fresh \in [Profiles -> SUBSET Qsos]
    /\ heard \in [Qsos -> Profiles \union {Nobody}]
    /\ \A p \in Profiles : \A q \in fresh[p] : heard[q] = p

IInv == Sane(self) /\ ProbesInv /\ DatagramsInv /\ FreshInv /\ up \in BOOLEAN

-----------------------------------------------------------------------------
(* The operators of the handlers.                                          *)

LEMMA KeepsSelf == \A u : Sane(u) => Keeps(u, u)
BY DEF Keeps, Follows, Sane, Attributes

LEMMA KeepsTransitive == \A u, s, t : Sane(u) /\ Keeps(u, s) /\ Keeps(s, t) => Keeps(u, t)
BY DEF Keeps, Follows, Sane, Attributes

(* Every attribute may be given a value of its type. *)
LEMMA AttributeTypes ==
    ASSUME NEW u \in Attributes
    PROVE  /\ \A v \in {"running", "joining", "gone"} : [u EXCEPT !.phase = v] \in Attributes
           /\ \A v \in BOOLEAN : [u EXCEPT !.closeRequested = v] \in Attributes
           /\ \A v \in BOOLEAN : [u EXCEPT !.servicesStopped = v] \in Attributes
           /\ \A v \in BOOLEAN : [u EXCEPT !.closePoll = v] \in Attributes
           /\ \A v \in Profiles : [u EXCEPT !.profile = v] \in Attributes
           /\ \A v \in Nat : [u EXCEPT !.session = v] \in Attributes
           /\ \A v \in BOOLEAN : [u EXCEPT !.dbOpen = v] \in Attributes
           /\ \A v \in SyncKinds \union {"none"} : [u EXCEPT !.operation = v] \in Attributes
           /\ \A v \in {"none", "clear", "set"} : [u EXCEPT !.cancel = v] \in Attributes
           /\ \A v \in Dialogs : [u EXCEPT !.dialog = v] \in Attributes
           /\ \A v \in SUBSET Workers : [u EXCEPT !.workers = v] \in Attributes
           /\ \A v \in {"none", "writing", "ended"} : [u EXCEPT !.write = v] \in Attributes
           /\ \A v \in BOOLEAN : [u EXCEPT !.online = v] \in Attributes
           /\ \A v \in Nat : [u EXCEPT !.answeredIn = v] \in Attributes
           /\ \A v \in Nat : [u EXCEPT !.generation = v] \in Attributes
           /\ \A v \in BOOLEAN : [u EXCEPT !.checkBusy = v] \in Attributes
           /\ \A v \in BOOLEAN : [u EXCEPT !.checkJob = v] \in Attributes
           /\ \A v \in BOOLEAN : [u EXCEPT !.autoJob = v] \in Attributes
           /\ \A v \in BOOLEAN : [u EXCEPT !.startupPending = v] \in Attributes
           /\ \A v \in BOOLEAN : [u EXCEPT !.wsjtxJob = v] \in Attributes
           /\ \A v \in BOOLEAN : [u EXCEPT !.listening = v] \in Attributes
           /\ \A v \in Nat : [u EXCEPT !.udpGeneration = v] \in Attributes
           /\ \A v \in Profiles \union {Nobody} : [u EXCEPT !.question = v] \in Attributes
<1>1. \A v \in {"running", "joining", "gone"} : [u EXCEPT !.phase = v] \in Attributes
  BY DEF Attributes
<1>2. \A v \in BOOLEAN : [u EXCEPT !.closeRequested = v] \in Attributes
  BY DEF Attributes
<1>3. \A v \in BOOLEAN : [u EXCEPT !.servicesStopped = v] \in Attributes
  BY DEF Attributes
<1>4. \A v \in BOOLEAN : [u EXCEPT !.closePoll = v] \in Attributes
  BY DEF Attributes
<1>5. \A v \in Profiles : [u EXCEPT !.profile = v] \in Attributes
  BY DEF Attributes
<1>6. \A v \in Nat : [u EXCEPT !.session = v] \in Attributes
  BY DEF Attributes
<1>7. \A v \in BOOLEAN : [u EXCEPT !.dbOpen = v] \in Attributes
  BY DEF Attributes
<1>8. \A v \in SyncKinds \union {"none"} : [u EXCEPT !.operation = v] \in Attributes
  BY DEF Attributes
<1>9. \A v \in {"none", "clear", "set"} : [u EXCEPT !.cancel = v] \in Attributes
  BY DEF Attributes
<1>10. \A v \in Dialogs : [u EXCEPT !.dialog = v] \in Attributes
  BY DEF Attributes
<1>11. \A v \in SUBSET Workers : [u EXCEPT !.workers = v] \in Attributes
  BY DEF Attributes
<1>12. \A v \in {"none", "writing", "ended"} : [u EXCEPT !.write = v] \in Attributes
  BY DEF Attributes
<1>13. \A v \in BOOLEAN : [u EXCEPT !.online = v] \in Attributes
  BY DEF Attributes
<1>14. \A v \in Nat : [u EXCEPT !.answeredIn = v] \in Attributes
  BY DEF Attributes
<1>15. \A v \in Nat : [u EXCEPT !.generation = v] \in Attributes
  BY DEF Attributes
<1>16. \A v \in BOOLEAN : [u EXCEPT !.checkBusy = v] \in Attributes
  BY DEF Attributes
<1>17. \A v \in BOOLEAN : [u EXCEPT !.checkJob = v] \in Attributes
  BY DEF Attributes
<1>18. \A v \in BOOLEAN : [u EXCEPT !.autoJob = v] \in Attributes
  BY DEF Attributes
<1>19. \A v \in BOOLEAN : [u EXCEPT !.startupPending = v] \in Attributes
  BY DEF Attributes
<1>20. \A v \in BOOLEAN : [u EXCEPT !.wsjtxJob = v] \in Attributes
  BY DEF Attributes
<1>21. \A v \in BOOLEAN : [u EXCEPT !.listening = v] \in Attributes
  BY DEF Attributes
<1>22. \A v \in Nat : [u EXCEPT !.udpGeneration = v] \in Attributes
  BY DEF Attributes
<1>23. \A v \in Profiles \union {Nobody} : [u EXCEPT !.question = v] \in Attributes
  BY DEF Attributes
<1> QED BY <1>1, <1>2, <1>3, <1>4, <1>5, <1>6, <1>7, <1>8, <1>9, <1>10, <1>11, <1>12, <1>13, <1>14, <1>15, <1>16, <1>17, <1>18, <1>19, <1>20, <1>21, <1>22, <1>23

(* The question is asked or answered, and the rest stays. *)
ButTheQuestion(u, s) ==
    /\ s.phase = u.phase /\ s.dbOpen = u.dbOpen /\ s.workers = u.workers
    /\ s.operation = u.operation /\ s.profile = u.profile /\ s.session = u.session
    /\ s.online = u.online /\ s.answeredIn = u.answeredIn /\ s.generation = u.generation
    /\ s.listening = u.listening /\ s.udpGeneration = u.udpGeneration

(* A handler that leaves alone what synchronisation is about. *)
Alike(u, s) ==
    /\ s.phase = u.phase /\ s.dbOpen = u.dbOpen /\ s.workers = u.workers
    /\ s.operation = u.operation /\ s.profile = u.profile /\ s.session = u.session
    /\ s.question = u.question
    /\ s.online = u.online /\ s.answeredIn = u.answeredIn /\ s.generation = u.generation
    /\ s.listening = u.listening /\ s.udpGeneration = u.udpGeneration

LEMMA Frame ==
    ASSUME NEW u, NEW s, Sane(u), s \in Attributes,
           s.phase = u.phase, s.dbOpen = u.dbOpen, s.workers = u.workers,
           s.operation = u.operation, s.profile = u.profile, s.session = u.session,
           s.question = u.question,
           s.online => s.answeredIn = s.session,
           s.generation >= u.generation, s.udpGeneration >= u.udpGeneration,
           s.listening => u.listening /\ s.udpGeneration = u.udpGeneration
    PROVE  Keeps(u, s)
BY DEF Keeps, Follows, Sane, Owned, OneSync, Syncs

(* One that changes none of phase, operation and workers. *)
Calm(u, s) ==
    Keeps(u, s) /\ s.phase = u.phase /\ s.operation = u.operation /\ s.workers = u.workers

LEMMA CalmTransitive == \A u, s, t : Sane(u) /\ Calm(u, s) /\ Calm(s, t) => Calm(u, t)
BY KeepsTransitive DEF Calm

LEMMA AlikeIsCalm ==
    ASSUME NEW u, NEW s, Sane(u), s \in Attributes, Alike(u, s)
    PROVE  Calm(u, s)
<1>1. u.generation \in Nat /\ u.udpGeneration \in Nat /\ (u.online => u.answeredIn = u.session)
  BY DEF Sane, Attributes
<1>2. QED BY <1>1, Frame DEF Alike, Calm

LEMMA CalmAttributes ==
    ASSUME NEW u, Sane(u)
    PROVE  /\ \A v \in BOOLEAN : Calm(u, [u EXCEPT !.closeRequested = v])
           /\ \A v \in BOOLEAN : Calm(u, [u EXCEPT !.servicesStopped = v])
           /\ \A v \in BOOLEAN : Calm(u, [u EXCEPT !.closePoll = v])
           /\ \A v \in {"none", "clear", "set"} : Calm(u, [u EXCEPT !.cancel = v])
           /\ \A v \in Dialogs : Calm(u, [u EXCEPT !.dialog = v])
           /\ \A v \in {"none", "writing", "ended"} : Calm(u, [u EXCEPT !.write = v])
           /\ \A v \in BOOLEAN : Calm(u, [u EXCEPT !.checkBusy = v])
           /\ \A v \in BOOLEAN : Calm(u, [u EXCEPT !.checkJob = v])
           /\ \A v \in BOOLEAN : Calm(u, [u EXCEPT !.autoJob = v])
           /\ \A v \in BOOLEAN : Calm(u, [u EXCEPT !.startupPending = v])
           /\ \A v \in BOOLEAN : Calm(u, [u EXCEPT !.wsjtxJob = v])
           /\ Calm(u, [u EXCEPT !.online = FALSE])
           /\ Calm(u, [u EXCEPT !.generation = u.generation + 1])
<1>1. u \in Attributes
  BY DEF Sane
<1>2. ASSUME NEW v \in BOOLEAN
      PROVE  Calm(u, [u EXCEPT !.closeRequested = v])
  <2>1. Alike(u, [u EXCEPT !.closeRequested = v])
    BY <1>1 DEF Attributes, Alike
  <2>2. QED BY <1>1, <2>1, AttributeTypes, AlikeIsCalm
<1>3. ASSUME NEW v \in BOOLEAN
      PROVE  Calm(u, [u EXCEPT !.servicesStopped = v])
  <2>1. Alike(u, [u EXCEPT !.servicesStopped = v])
    BY <1>1 DEF Attributes, Alike
  <2>2. QED BY <1>1, <2>1, AttributeTypes, AlikeIsCalm
<1>4. ASSUME NEW v \in BOOLEAN
      PROVE  Calm(u, [u EXCEPT !.closePoll = v])
  <2>1. Alike(u, [u EXCEPT !.closePoll = v])
    BY <1>1 DEF Attributes, Alike
  <2>2. QED BY <1>1, <2>1, AttributeTypes, AlikeIsCalm
<1>5. ASSUME NEW v \in {"none", "clear", "set"}
      PROVE  Calm(u, [u EXCEPT !.cancel = v])
  <2>1. Alike(u, [u EXCEPT !.cancel = v])
    BY <1>1 DEF Attributes, Alike
  <2>2. QED BY <1>1, <2>1, AttributeTypes, AlikeIsCalm
<1>6. ASSUME NEW v \in Dialogs
      PROVE  Calm(u, [u EXCEPT !.dialog = v])
  <2>1. Alike(u, [u EXCEPT !.dialog = v])
    BY <1>1 DEF Attributes, Alike
  <2>2. QED BY <1>1, <2>1, AttributeTypes, AlikeIsCalm
<1>7. ASSUME NEW v \in {"none", "writing", "ended"}
      PROVE  Calm(u, [u EXCEPT !.write = v])
  <2>1. Alike(u, [u EXCEPT !.write = v])
    BY <1>1 DEF Attributes, Alike
  <2>2. QED BY <1>1, <2>1, AttributeTypes, AlikeIsCalm
<1>8. ASSUME NEW v \in BOOLEAN
      PROVE  Calm(u, [u EXCEPT !.checkBusy = v])
  <2>1. Alike(u, [u EXCEPT !.checkBusy = v])
    BY <1>1 DEF Attributes, Alike
  <2>2. QED BY <1>1, <2>1, AttributeTypes, AlikeIsCalm
<1>9. ASSUME NEW v \in BOOLEAN
      PROVE  Calm(u, [u EXCEPT !.checkJob = v])
  <2>1. Alike(u, [u EXCEPT !.checkJob = v])
    BY <1>1 DEF Attributes, Alike
  <2>2. QED BY <1>1, <2>1, AttributeTypes, AlikeIsCalm
<1>10. ASSUME NEW v \in BOOLEAN
      PROVE  Calm(u, [u EXCEPT !.autoJob = v])
  <2>1. Alike(u, [u EXCEPT !.autoJob = v])
    BY <1>1 DEF Attributes, Alike
  <2>2. QED BY <1>1, <2>1, AttributeTypes, AlikeIsCalm
<1>11. ASSUME NEW v \in BOOLEAN
      PROVE  Calm(u, [u EXCEPT !.startupPending = v])
  <2>1. Alike(u, [u EXCEPT !.startupPending = v])
    BY <1>1 DEF Attributes, Alike
  <2>2. QED BY <1>1, <2>1, AttributeTypes, AlikeIsCalm
<1>12. ASSUME NEW v \in BOOLEAN
      PROVE  Calm(u, [u EXCEPT !.wsjtxJob = v])
  <2>1. Alike(u, [u EXCEPT !.wsjtxJob = v])
    BY <1>1 DEF Attributes, Alike
  <2>2. QED BY <1>1, <2>1, AttributeTypes, AlikeIsCalm
<1>13. Calm(u, [u EXCEPT !.online = FALSE])
  <2> DEFINE s == [u EXCEPT !.online = FALSE]
  <2>1. s \in Attributes
    BY <1>1, AttributeTypes
  <2>2. s.phase = u.phase /\ s.dbOpen = u.dbOpen /\ s.workers = u.workers
        /\ s.operation = u.operation /\ s.profile = u.profile /\ s.session = u.session
        /\ s.question = u.question
        /\ ~s.online /\ s.generation = u.generation
        /\ s.listening = u.listening /\ s.udpGeneration = u.udpGeneration
        /\ u.generation \in Nat /\ u.udpGeneration \in Nat
    BY <1>1 DEF Attributes
  <2> HIDE DEF s
  <2>3. Keeps(u, s)
    BY <2>1, <2>2, Frame
  <2>4. QED BY <2>2, <2>3 DEF Calm, s
<1>14. Calm(u, [u EXCEPT !.generation = u.generation + 1])
  <2> DEFINE s == [u EXCEPT !.generation = u.generation + 1]
  <2>1. u.generation \in Nat /\ u.udpGeneration \in Nat /\ u.generation + 1 \in Nat
    BY <1>1 DEF Attributes
  <2>2. s \in Attributes
    BY <1>1, <2>1, AttributeTypes
  <2>3. s.phase = u.phase /\ s.dbOpen = u.dbOpen /\ s.workers = u.workers
        /\ s.operation = u.operation /\ s.profile = u.profile /\ s.session = u.session
        /\ s.question = u.question
        /\ s.online = u.online /\ s.answeredIn = u.answeredIn
        /\ s.generation = u.generation + 1
        /\ s.listening = u.listening /\ s.udpGeneration = u.udpGeneration
    BY <1>1 DEF Attributes
  <2> HIDE DEF s
  <2>4. Keeps(u, s)
    BY <2>1, <2>2, <2>3, Frame DEF Sane
  <2>5. QED BY <2>3, <2>4 DEF Calm, s
<1>15. QED
  BY <1>2, <1>3, <1>4, <1>5, <1>6, <1>7, <1>8, <1>9, <1>10, <1>11, <1>12, <1>13, <1>14

(* Stopping the services ends the generation of the listener. *)
LEMMA StopServicesKeeps ==
    ASSUME NEW u, Sane(u)
    PROVE  /\ Calm(u, StopServices(u))
           /\ ~StopServices(u).listening /\ StopServices(u).udpGeneration = u.udpGeneration + 1
<1> DEFINE s == StopServices(u)
<1>1. u \in Attributes
  BY DEF Sane
<1>2. s = [u EXCEPT !.listening = FALSE, !.udpGeneration = u.udpGeneration + 1]
  BY <1>1 DEF StopServices, Attributes
<1>3. s \in Attributes
  <2>1. [u EXCEPT !.listening = FALSE] \in Attributes
    BY <1>1, AttributeTypes
  <2>2. s = [[u EXCEPT !.listening = FALSE] EXCEPT !.udpGeneration = u.udpGeneration + 1]
    BY <1>2
  <2>3. u.udpGeneration + 1 \in Nat
    BY <1>1 DEF Attributes
  <2>4. QED BY <2>1, <2>2, <2>3, AttributeTypes
<1>4. ~s.listening /\ s.udpGeneration = u.udpGeneration + 1 /\ s.phase = u.phase
      /\ s.operation = u.operation /\ s.dbOpen = u.dbOpen /\ s.workers = u.workers
      /\ s.profile = u.profile /\ s.session = u.session /\ s.online = u.online
      /\ s.answeredIn = u.answeredIn /\ s.generation = u.generation
  BY <1>1, <1>2 DEF Attributes
<1>5. u.udpGeneration \in Nat /\ u.generation \in Nat
  BY <1>1 DEF Attributes
<1>6. s.question = u.question
  BY <1>1, <1>2 DEF Attributes
<1>7. Keeps(u, s)
  BY <1>3, <1>4, <1>5, <1>6, Frame DEF Sane
<1>8. QED BY <1>4, <1>7 DEF Calm

(* A synchronisation starts only where none runs. *)
Reasons == {"auto", "startup", "shutdown", "manual", "background"}

LEMMA StartSyncWorkerKeeps ==
    ASSUME NEW u, Sane(u), u.phase = "running", u.operation = "none",
           NEW kind \in SyncKinds, NEW reason \in Reasons,
           kind = "full" => u.question = Nobody
    PROVE  /\ Keeps(u, StartSyncWorker(u, kind, reason))
           /\ StartSyncWorker(u, kind, reason).phase = "running"
<1> DEFINE w == [kind |-> kind, reason |-> reason, session |-> u.session,
                 book |-> u.session, profile |-> u.profile, asked |-> u.question # Nobody,
                 phase |-> "start", taken |-> {}]
           s == StartSyncWorker(u, kind, reason)
<1>1. u \in Attributes /\ u.session \in Nat /\ u.generation \in Nat /\ u.udpGeneration \in Nat
      /\ u.workers \in SUBSET Workers /\ u.profile \in Profiles
  BY DEF Sane, Attributes
<1>2. kind # "qsl" /\ kind # "none"
  BY DEF SyncKinds
<1>3. w \in Workers /\ w.kind = kind /\ w.session = u.session /\ w.book = u.session
      /\ w.asked = (u.question # Nobody)
  BY <1>1 DEF Workers, Kinds, Reasons
<1> HIDE DEF w
<1>4. s = [[u EXCEPT !.workers = u.workers \union {w}] EXCEPT !.operation = kind]
  BY <1>1, <1>2 DEF StartSyncWorker, StartWorker, w
<1> HIDE DEF s
<1>5. s \in Attributes
  <2>1. [u EXCEPT !.workers = u.workers \union {w}] \in Attributes
    BY <1>1, <1>3, AttributeTypes
  <2>2. QED BY <1>4, <2>1, AttributeTypes
<1>6. /\ s.phase = u.phase /\ s.dbOpen = u.dbOpen /\ s.workers = u.workers \union {w}
      /\ s.operation = kind /\ s.profile = u.profile /\ s.session = u.session
      /\ s.question = u.question
      /\ s.online = u.online /\ s.answeredIn = u.answeredIn /\ s.generation = u.generation
      /\ s.listening = u.listening /\ s.udpGeneration = u.udpGeneration
  BY <1>1, <1>4 DEF Attributes
<1>7. Syncs(u) = {}
  BY DEF Sane, OneSync
<1>8. Syncs(s) = {w}
  BY <1>3, <1>6, <1>7 DEF Syncs
<1>9. OneSync(s)
  BY <1>2, <1>3, <1>6, <1>8 DEF OneSync
<1>10. Owned(s)
  BY <1>3, <1>6 DEF Sane, Owned
<1>11. Sane(s)
  BY <1>3, <1>5, <1>6, <1>9, <1>10 DEF Sane
<1>12. Keeps(u, s)
  BY <1>1, <1>6, <1>11 DEF Keeps, Follows
<1>13. QED BY <1>6, <1>12 DEF s

(* The QSL manager's thread is no synchronisation of this kind. *)
LEMMA StartQslWorkerKeeps ==
    ASSUME NEW u, Sane(u)
    PROVE  Keeps(u, StartWorker(u, "qsl", "background"))
<1> DEFINE w == [kind |-> "qsl", reason |-> "background", session |-> u.session,
                 book |-> u.session, profile |-> u.profile, asked |-> u.question # Nobody,
                 phase |-> "busy", taken |-> {}]
           s == StartWorker(u, "qsl", "background")
<1>1. u \in Attributes /\ u.session \in Nat /\ u.generation \in Nat /\ u.udpGeneration \in Nat
      /\ u.workers \in SUBSET Workers /\ u.profile \in Profiles
  BY DEF Sane, Attributes
<1>2. w \in Workers /\ w.kind = "qsl" /\ w.kind \notin SyncKinds
      /\ w.session = u.session /\ w.book = u.session /\ w.asked = (u.question # Nobody)
  BY <1>1 DEF Workers, Kinds, SyncKinds
<1> HIDE DEF w
<1>3. s = [u EXCEPT !.workers = u.workers \union {w}]
  BY <1>1 DEF StartWorker, w
<1> HIDE DEF s
<1>4. s \in Attributes
  BY <1>1, <1>2, <1>3, AttributeTypes
<1>5. /\ s.phase = u.phase /\ s.dbOpen = u.dbOpen /\ s.workers = u.workers \union {w}
      /\ s.operation = u.operation /\ s.profile = u.profile /\ s.session = u.session
      /\ s.question = u.question
      /\ s.online = u.online /\ s.answeredIn = u.answeredIn /\ s.generation = u.generation
      /\ s.listening = u.listening /\ s.udpGeneration = u.udpGeneration
  BY <1>1, <1>3 DEF Attributes
<1>6. Syncs(s) = Syncs(u)
  BY <1>2, <1>5 DEF Syncs
<1>7. Sane(s)
  BY <1>2, <1>4, <1>5, <1>6 DEF Sane, Owned, OneSync
<1>8. QED BY <1>1, <1>5, <1>7 DEF Keeps, Follows, s

LEMMA ShowSyncProgressCalm ==
    ASSUME NEW u, Sane(u), NEW reason \in {"none", "startup", "shutdown", "manual"}
    PROVE  Calm(u, ShowSyncProgress(u, reason))
<1>1. [reason |-> reason, state |-> "running"] \in Dialogs
  BY DEF Dialogs
<1>2. QED BY <1>1, CalmAttributes DEF ShowSyncProgress

LEMMA CancelActiveSyncCalm ==
    ASSUME NEW u, Sane(u)
    PROVE  Calm(u, CancelActiveSync(u))
<1> DEFINE v == IF u.cancel = "none" THEN u.cancel ELSE "set"
<1>1. v \in {"none", "clear", "set"} /\ CancelActiveSync(u) = [u EXCEPT !.cancel = v]
  BY DEF CancelActiveSync, Sane, Attributes
<1> HIDE DEF v
<1>2. Calm(u, [u EXCEPT !.cancel = v])
  BY <1>1, CalmAttributes
<1>3. QED BY <1>1, <1>2

LEMMA StartDeltaSyncKeeps ==
    ASSUME NEW u, Sane(u), NEW reason \in {"startup", "shutdown"}
    PROVE  Keeps(u, StartDeltaSync(u, reason))
<1>1. CASE SyncBusy(u) \/ Closing(u)
  BY <1>1, KeepsSelf DEF StartDeltaSync
<1>2. CASE ~(SyncBusy(u) \/ Closing(u))
  <2> DEFINE s == StartSyncWorker(u, "delta", reason)
             t == [s EXCEPT !.cancel = "clear"]
  <2>1. u.phase = "running" /\ u.operation = "none"
    BY <1>2 DEF SyncBusy, Closing
  <2>2. Keeps(u, s)
    BY <2>1, StartSyncWorkerKeeps DEF SyncKinds, Reasons
  <2>3. StartDeltaSync(u, reason) = ShowSyncProgress(t, reason)
    BY <1>2 DEF StartDeltaSync
  <2> HIDE DEF s
  <2>4. Sane(s) /\ Calm(s, t)
    BY <2>2, CalmAttributes DEF Keeps
  <2> HIDE DEF t
  <2>5. Sane(t) /\ Calm(t, ShowSyncProgress(t, reason))
    BY <2>4, ShowSyncProgressCalm DEF Calm, Keeps
  <2>6. QED BY <2>2, <2>3, <2>4, <2>5, KeepsTransitive DEF Calm
<1>3. QED BY <1>1, <1>2

LEMMA StartWsjtxOnlySyncKeeps ==
    ASSUME NEW u, Sane(u), NEW reason \in Reasons
    PROVE  Keeps(u, StartWsjtxOnlySync(u, reason))
<1>1. CASE SyncBusy(u) \/ Closing(u)
  BY <1>1, KeepsSelf DEF StartWsjtxOnlySync
<1>2. CASE ~(SyncBusy(u) \/ Closing(u))
  <2>1. u.phase = "running" /\ u.operation = "none"
    BY <1>2 DEF SyncBusy, Closing
  <2>2. QED BY <1>2, <2>1, StartSyncWorkerKeeps DEF StartWsjtxOnlySync, SyncKinds
<1>3. QED BY <1>1, <1>2

(* Asking for an upload sets a timer at most. *)
LEMMA RequestAutoSyncCalm ==
    ASSUME NEW u, Sane(u), NEW f, NEW l, NEW s \in RequestAutoSync(u, f, l)
    PROVE  Calm(u, s)
<1>1. s = u \/ \E a \in AutoSync : s = [u EXCEPT !.autoJob = a]
  BY DEF RequestAutoSync
<1>2. AutoSync \subseteq BOOLEAN
  BY SettingsAssumption
<1>3. Calm(u, u)
  BY KeepsSelf DEF Calm
<1>4. \A a \in BOOLEAN : Calm(u, [u EXCEPT !.autoJob = a])
  BY CalmAttributes
<1>5. QED BY <1>1, <1>2, <1>3, <1>4

LEMMA LocalSyncChangeCalm ==
    ASSUME NEW u, Sane(u), NEW f, NEW l, NEW s \in LocalSyncChange(u, f, l)
    PROVE  Calm(u, s)
BY RequestAutoSyncCalm, KeepsSelf DEF LocalSyncChange, Calm

LEMMA StartNewQsoPushKeeps ==
    ASSUME NEW u, Sane(u), NEW f, NEW l, NEW s \in StartNewQsoPush(u, f, l)
    PROVE  Keeps(u, s)
<1>1. CASE s = u
  BY <1>1, KeepsSelf
<1>2. CASE s # u
  <2>1. s = StartSyncWorker(u, "push", "auto") /\ PushAllowed(u, f, l)
    BY <1>2 DEF StartNewQsoPush
  <2>2. u.phase = "running" /\ u.operation = "none"
    BY <2>1 DEF PushAllowed, Closing, SyncBusy
  <2>3. QED BY <2>1, <2>2, StartSyncWorkerKeeps DEF SyncKinds, Reasons
<1>3. QED BY <1>1, <1>2

(* The program ends, or waits for a write that runs: the synchronisation   *)
(* that runs then still has its database.                                  *)
LEMMA FinalizeCloseKeeps ==
    ASSUME NEW u, Sane(u), u.phase = "running"
    PROVE  Keeps(u, FinalizeClose(u))
<1> DEFINE a == StopServices(u)
           b == [a EXCEPT !.generation = a.generation + 1]
           c == [b EXCEPT !.checkJob = FALSE]
           d == [c EXCEPT !.autoJob = FALSE]
<1>1. Calm(u, a)
  BY StopServicesKeeps
<1>2. FinalizeClose(u) = IF u.write = "writing" THEN [d EXCEPT !.phase = "joining"]
                         ELSE [[d EXCEPT !.phase = "gone"]
                                 EXCEPT !.dbOpen = d.dbOpen /\ SyncBusy(u)]
  BY <1>1 DEF FinalizeClose, Calm, Keeps, Sane, Attributes
<1> HIDE DEF a
<1>3. Calm(a, b)
  BY <1>1, CalmAttributes DEF Calm, Keeps
<1> HIDE DEF b
<1>4. Calm(b, c)
  BY <1>1, <1>3, CalmAttributes DEF Calm, Keeps
<1> HIDE DEF c
<1>5. Calm(c, d)
  BY <1>3, <1>4, CalmAttributes DEF Calm, Keeps
<1> HIDE DEF d
<1>6. Calm(u, d)
  BY <1>1, <1>3, <1>4, <1>5, CalmTransitive
<1>7. d \in Attributes /\ Sane(d) /\ d.phase = "running"
  BY <1>6 DEF Calm, Keeps, Sane
<1>8. Keeps(d, [d EXCEPT !.phase = "joining"])
  <2> DEFINE s == [d EXCEPT !.phase = "joining"]
  <2>1. s \in Attributes
    BY <1>7, AttributeTypes
  <2>2. /\ s.phase = "joining" /\ s.dbOpen = d.dbOpen /\ s.workers = d.workers
        /\ s.operation = d.operation /\ s.profile = d.profile /\ s.session = d.session
        /\ s.question = d.question
        /\ s.online = d.online /\ s.answeredIn = d.answeredIn /\ s.generation = d.generation
        /\ s.listening = d.listening /\ s.udpGeneration = d.udpGeneration
        /\ d.generation \in Nat /\ d.udpGeneration \in Nat
    BY <1>7 DEF Attributes
  <2> HIDE DEF s
  <2>3. Sane(s)
    BY <1>7, <2>1, <2>2 DEF Sane, Owned, OneSync, Syncs
  <2>4. QED BY <2>2, <2>3 DEF Keeps, Follows, s
<1>9. Keeps(d, [[d EXCEPT !.phase = "gone"] EXCEPT !.dbOpen = d.dbOpen /\ SyncBusy(u)])
  <2> DEFINE o == d.dbOpen /\ SyncBusy(u)
             s == [[d EXCEPT !.phase = "gone"] EXCEPT !.dbOpen = o]
  <2>1. o \in BOOLEAN
    BY <1>7 DEF SyncBusy
  <2> HIDE DEF o
  <2>2. s \in Attributes
    BY <1>7, <2>1, AttributeTypes
  <2>3. /\ s.phase = "gone"
        /\ s.profile = d.profile /\ s.session = d.session
        /\ s.question = d.question
        /\ s.online = d.online /\ s.answeredIn = d.answeredIn /\ s.generation = d.generation
        /\ s.listening = d.listening /\ s.udpGeneration = d.udpGeneration
        /\ d.generation \in Nat /\ d.udpGeneration \in Nat
    BY <1>7 DEF Attributes
  <2> HIDE DEF s
  <2>4. Keeps(d, s)
    BY <1>7, <2>2, <2>3 DEF Sane, Keeps, Follows
  <2>5. QED BY <2>4 DEF s, o
<1>10. QED BY <1>2, <1>6, <1>8, <1>9, KeepsTransitive DEF Calm

(* Whatever the close sequence begins with, the synchronisation that runs  *)
(* goes on, and at most one is started.                                    *)
LEMMA BeginCloseSequenceKeeps ==
    ASSUME NEW u, Sane(u), NEW s \in BeginCloseSequence(u)
    PROVE  Keeps(u, s)
<1>1. CASE Closing(u)
  BY <1>1, KeepsSelf DEF BeginCloseSequence
<1>2. CASE ~Closing(u) /\ u.write # "none"
  <2>1. s = [u EXCEPT !.closePoll = TRUE]
    BY <1>2 DEF BeginCloseSequence
  <2>2. QED BY <2>1, CalmAttributes DEF Calm
<1>3. CASE ~Closing(u) /\ u.write = "none"
  <2> DEFINE a == IF u.servicesStopped THEN u
                  ELSE [StopServices(u) EXCEPT !.servicesStopped = TRUE]
             b == [a EXCEPT !.startupPending = FALSE]
  <2>1. \/ s = a
        \/ s = ShowSyncProgress(CancelActiveSync(a), "shutdown")
        \/ s = StartDeltaSync(b, "shutdown")
        \/ s = StartWsjtxOnlySync(a, "shutdown")
        \/ s = FinalizeClose(a)
    BY <1>3 DEF BeginCloseSequence
  <2>2. Calm(u, a)
    <3>1. CASE u.servicesStopped
      BY <3>1, KeepsSelf DEF Calm
    <3>2. CASE ~u.servicesStopped
      <4> DEFINE t == StopServices(u)
      <4>1. Calm(u, t)
        BY StopServicesKeeps
      <4> HIDE DEF t
      <4>2. Calm(t, [t EXCEPT !.servicesStopped = TRUE])
        BY <4>1, CalmAttributes DEF Calm, Keeps
      <4>3. QED BY <3>2, <4>1, <4>2, CalmTransitive DEF t
    <3>3. QED BY <3>1, <3>2
  <2>3. Sane(a) /\ a.phase = "running"
    BY <1>3, <2>2 DEF Calm, Keeps, Closing
  <2> HIDE DEF a
  <2>4. Calm(a, b)
    BY <2>3, CalmAttributes
  <2> HIDE DEF b
  <2>5. Keeps(a, s)
    <3>1. CASE s = a
      BY <2>3, <3>1, KeepsSelf
    <3>2. CASE s = ShowSyncProgress(CancelActiveSync(a), "shutdown")
      <4>1. Calm(a, CancelActiveSync(a))
        BY <2>3, CancelActiveSyncCalm
      <4>2. Calm(CancelActiveSync(a), s)
        BY <3>2, <4>1, ShowSyncProgressCalm DEF Calm, Keeps
      <4>3. QED BY <2>3, <4>1, <4>2, CalmTransitive DEF Calm
    <3>3. CASE s = StartDeltaSync(b, "shutdown")
      <4>1. Keeps(b, s)
        BY <2>4, <3>3, StartDeltaSyncKeeps DEF Calm, Keeps
      <4>2. QED BY <2>3, <2>4, <4>1, KeepsTransitive DEF Calm
    <3>4. CASE s = StartWsjtxOnlySync(a, "shutdown")
      BY <2>3, <3>4, StartWsjtxOnlySyncKeeps DEF Reasons
    <3>5. CASE s = FinalizeClose(a)
      BY <2>3, <3>5, FinalizeCloseKeeps
    <3>6. QED BY <2>1, <3>1, <3>2, <3>3, <3>4, <3>5
  <2>6. QED BY <2>2, <2>5, KeepsTransitive DEF Calm
<1>4. QED BY <1>1, <1>2, <1>3

-----------------------------------------------------------------------------
(* Workers and their results.                                              *)

(* The same thread later: it may have come to the logbook of this session. *)
SameThread(u, w, x) ==
    /\ x.kind = w.kind /\ x.session = w.session /\ x.asked = w.asked
    /\ x.book \in {w.book, u.session}

(* A thread goes on, or ends without a result while the program closes. *)
LEMMA ReplaceWorker ==
    ASSUME NEW u, Sane(u), u.phase # "gone", NEW w \in u.workers, NEW R \in SUBSET Workers,
           \/ \E x \in R : R = {x} /\ SameThread(u, w, x)
           \/ R = {} /\ (u.phase # "running" \/ w.kind \notin SyncKinds)
    PROVE  Keeps(u, [u EXCEPT !.workers = (u.workers \ {w}) \union R])
<1> DEFINE ws == (u.workers \ {w}) \union R
           s == [u EXCEPT !.workers = ws]
<1>1. u \in Attributes /\ u.generation \in Nat /\ u.udpGeneration \in Nat
      /\ u.workers \in SUBSET Workers /\ OneSync(u) /\ u.dbOpen
      /\ Owned(u)
  BY DEF Sane, Attributes
<1>2. ws \in SUBSET Workers
  BY <1>1
<1>3. s \in Attributes
  BY <1>1, <1>2, AttributeTypes
<1>4. /\ s.phase = u.phase /\ s.dbOpen = u.dbOpen /\ s.workers = ws
      /\ s.operation = u.operation /\ s.profile = u.profile /\ s.session = u.session
      /\ s.question = u.question
      /\ s.online = u.online /\ s.answeredIn = u.answeredIn /\ s.generation = u.generation
      /\ s.listening = u.listening /\ s.udpGeneration = u.udpGeneration
  BY <1>1 DEF Attributes
<1> HIDE DEF s
<1>5. Owned(s)
  BY <1>1, <1>4 DEF Owned, SameThread
<1>6. \A x \in Syncs(s) : x.kind = u.operation
  BY <1>1, <1>4 DEF Syncs, OneSync, SameThread
<1>7. ASSUME u.phase = "running"
      PROVE  IF u.operation = "none" THEN Syncs(s) = {} ELSE \E x \in ws : Syncs(s) = {x}
  <2>1. CASE w \in Syncs(u)
    <3>1. Syncs(u) = {w} /\ u.operation # "none"
      BY <1>1, <1>7, <2>1 DEF OneSync
    <3>2. PICK x \in R : R = {x} /\ x.kind = w.kind
      BY <1>7, <2>1 DEF Syncs, SameThread
    <3>3. Syncs(s) = {x}
      BY <1>4, <2>1, <3>1, <3>2 DEF Syncs
    <3>4. QED BY <3>1, <3>2, <3>3
  <2>2. CASE w \notin Syncs(u)
    <3>1. Syncs(s) = Syncs(u)
      BY <1>4, <2>2 DEF Syncs, SameThread
    <3>2. Syncs(u) \subseteq ws
      BY <2>2 DEF Syncs
    <3>3. QED BY <1>1, <1>7, <3>1, <3>2 DEF OneSync
  <2>3. QED BY <2>1, <2>2
<1> HIDE DEF ws
<1>8. OneSync(s)
  BY <1>4, <1>6, <1>7 DEF OneSync
<1>9. Sane(s)
  BY <1>1, <1>3, <1>4, <1>5, <1>8 DEF Sane
<1>10. QED BY <1>1, <1>4, <1>9 DEF Keeps, Follows, s, ws

(* When the result of a synchronisation is handled none runs any more. *)
LEMMA FinishedKeeps ==
    ASSUME NEW u, Sane(u), u.phase = "running", NEW w \in Syncs(u)
    PROVE  Keeps(u, Finished(u, w)) /\ Finished(u, w).phase = "running"
<1> DEFINE ws == u.workers \ {w}
           s == Finished(u, w)
<1>1. u \in Attributes /\ u.generation \in Nat /\ u.udpGeneration \in Nat
      /\ u.workers \in SUBSET Workers /\ OneSync(u) /\ u.dbOpen
      /\ Owned(u)
  BY DEF Sane, Attributes
<1>2. s = [[u EXCEPT !.operation = "none"] EXCEPT !.workers = ws]
  BY <1>1 DEF Finished, Attributes
<1> HIDE DEF s
<1>3. s \in Attributes
  <2>1. [u EXCEPT !.operation = "none"] \in Attributes
    BY <1>1, AttributeTypes
  <2>2. QED BY <1>1, <1>2, <2>1, AttributeTypes
<1>4. /\ s.phase = u.phase /\ s.dbOpen = u.dbOpen /\ s.workers = ws
      /\ s.operation = "none" /\ s.profile = u.profile /\ s.session = u.session
      /\ s.question = u.question
      /\ s.online = u.online /\ s.answeredIn = u.answeredIn /\ s.generation = u.generation
      /\ s.listening = u.listening /\ s.udpGeneration = u.udpGeneration
  BY <1>1, <1>2 DEF Attributes
<1>5. Syncs(u) = {w}
  BY <1>1 DEF OneSync
<1>6. Syncs(s) = {}
  BY <1>4, <1>5 DEF Syncs
<1>7. Owned(s)
  BY <1>1, <1>4 DEF Owned
<1>8. Sane(s)
  BY <1>1, <1>3, <1>4, <1>6, <1>7 DEF Sane, OneSync
<1>9. QED BY <1>1, <1>4, <1>8 DEF Keeps, Follows, s

(* An answer of the server of this profile is shown. *)
LEMMA AnswerShownCalm ==
    ASSUME NEW u, Sane(u), NEW b \in BOOLEAN
    PROVE  Calm(u, [[u EXCEPT !.online = b] EXCEPT !.answeredIn = u.session])
<1> DEFINE s == [[u EXCEPT !.online = b] EXCEPT !.answeredIn = u.session]
<1>1. u \in Attributes /\ u.session \in Nat /\ u.generation \in Nat /\ u.udpGeneration \in Nat
  BY DEF Sane, Attributes
<1>2. s \in Attributes
  BY <1>1, AttributeTypes
<1>3. /\ s.phase = u.phase /\ s.dbOpen = u.dbOpen /\ s.workers = u.workers
      /\ s.operation = u.operation /\ s.profile = u.profile /\ s.session = u.session
      /\ s.question = u.question
      /\ s.answeredIn = u.session /\ s.generation = u.generation
      /\ s.listening = u.listening /\ s.udpGeneration = u.udpGeneration
  BY <1>1 DEF Attributes
<1> HIDE DEF s
<1>4. Keeps(u, s)
  BY <1>1, <1>2, <1>3, Frame
<1>5. QED BY <1>3, <1>4 DEF Calm, s

LEMMA CompleteSyncProgressCalm ==
    ASSUME NEW u, Sane(u)
    PROVE  Calm(u, CompleteSyncProgress(u))
<1> DEFINE d == [u.dialog EXCEPT !.state = "complete"]
<1>1. u.dialog \in Dialogs
  BY DEF Sane, Attributes
<1>2. d \in Dialogs
  BY <1>1 DEF Dialogs
<1>3. CompleteSyncProgress(u) = [u EXCEPT !.dialog = d]
  BY DEF CompleteSyncProgress
<1> HIDE DEF d
<1>4. Calm(u, [u EXCEPT !.dialog = d])
  BY <1>2, CalmAttributes
<1>5. QED BY <1>3, <1>4

(* Whatever follows a result keeps what the handler has kept so far. *)
LEMMA Aftermath ==
    ASSUME NEW u, Sane(u), NEW t, Keeps(u, t), t.phase = "running", NEW f, NEW l
    PROVE  /\ Keeps(u, FinalizeClose(t))
           /\ Keeps(u, CompleteSyncProgress(t))
           /\ \A s \in BeginCloseSequence(t) : Keeps(u, s)
           /\ \A s \in RequestAutoSync(t, f, l) : Keeps(u, s)
           /\ \A s \in LocalSyncChange(t, f, l) : Keeps(u, s)
<1>1. Sane(t)
  BY DEF Keeps
<1>2. Keeps(u, FinalizeClose(t))
  BY <1>1, FinalizeCloseKeeps, KeepsTransitive
<1>3. Keeps(u, CompleteSyncProgress(t))
  BY <1>1, CompleteSyncProgressCalm, KeepsTransitive DEF Calm
<1>4. \A s \in BeginCloseSequence(t) : Keeps(u, s)
  BY <1>1, BeginCloseSequenceKeeps, KeepsTransitive
<1>5. \A s \in RequestAutoSync(t, f, l) : Keeps(u, s)
  BY <1>1, RequestAutoSyncCalm, KeepsTransitive DEF Calm
<1>6. \A s \in LocalSyncChange(t, f, l) : Keeps(u, s)
  BY <1>1, LocalSyncChangeCalm, KeepsTransitive DEF Calm
<1>7. QED BY <1>2, <1>3, <1>4, <1>5, <1>6

(* A calm change of something kept is kept. *)
LEMMA CalmAfter ==
    \A u, s, t : Sane(u) /\ Keeps(u, s) /\ s.phase = "running" /\ Calm(s, t)
                 => Keeps(u, t) /\ t.phase = "running"
BY KeepsTransitive DEF Calm

LEMMA PushResultKeeps ==
    ASSUME NEW u, Sane(u), u.phase = "running", NEW w \in Syncs(u), NEW f, NEW l,
           NEW s \in NewQsoPushFinished(u, w, f, l) \union NewQsoPushFailed(u, w)
    PROVE  Keeps(u, s)
<1> DEFINE a == Finished(u, w)
           b == [a EXCEPT !.checkJob = TRUE]
<1>1. \/ s \in BeginCloseSequence(a) \/ s \in RequestAutoSync(a, f, l)
      \/ s \in BeginCloseSequence(b) \/ s = b
  BY DEF NewQsoPushFinished, NewQsoPushFailed
<1>2. Keeps(u, a) /\ a.phase = "running"
  BY FinishedKeeps
<1> HIDE DEF a
<1>3. Calm(a, b)
  BY <1>2, CalmAttributes DEF Keeps
<1> HIDE DEF b
<1>4. Keeps(u, b) /\ b.phase = "running"
  BY <1>2, <1>3, CalmAfter
<1>5. QED BY <1>1, <1>2, <1>4, Aftermath

LEMMA DeltaResultKeeps ==
    ASSUME NEW u, Sane(u), u.phase = "running", NEW w \in Syncs(u),
           NEW s \in DeltaSyncFinished(u, w) \union DeltaSyncFailed(u, w)
    PROVE  Keeps(u, s)
<1> DEFINE a == Finished(u, w)
           b == [a EXCEPT !.cancel = "none"]
<1>1. s = CompleteSyncProgress(b) \/ s = FinalizeClose(b) \/ s = b
  BY DEF DeltaSyncFinished, DeltaSyncFailed
<1>2. Keeps(u, a) /\ a.phase = "running"
  BY FinishedKeeps
<1> HIDE DEF a
<1>3. Calm(a, b)
  BY <1>2, CalmAttributes DEF Keeps
<1> HIDE DEF b
<1>4. Keeps(u, b) /\ b.phase = "running"
  BY <1>2, <1>3, CalmAfter
<1>5. QED BY <1>1, <1>4, Aftermath

LEMMA SyncFinishedKeeps ==
    ASSUME NEW u, Sane(u), u.phase = "running", NEW w \in Syncs(u), w.kind = "full", NEW f, NEW l,
           NEW s \in SyncFinished(u, w, f, l)
    PROVE  Keeps(u, s)
<1> DEFINE a == Finished(u, w)
           b == [a EXCEPT !.cancel = "none"]
           c == [[b EXCEPT !.online = TRUE] EXCEPT !.answeredIn = b.session]
           d == [c EXCEPT !.checkJob = TRUE]
<1>1. Keeps(u, a) /\ a.phase = "running"
  BY FinishedKeeps
<1>2. b.session = u.session /\ w.session = u.session
  BY <1>1 DEF Keeps, Sane, Owned, Syncs, Follows, Attributes
<1>3. s = CompleteSyncProgress(d) \/ s = FinalizeClose(d) \/ s \in RequestAutoSync(d, f, l)
  <2>1. d = [a EXCEPT !.cancel = "none", !.online = TRUE, !.answeredIn = w.session,
                      !.checkJob = TRUE]
    BY <1>2
  <2>2. QED BY <2>1 DEF SyncFinished
<1> HIDE DEF a
<1>4. Calm(a, b)
  BY <1>1, CalmAttributes DEF Keeps
<1>5. Keeps(u, b) /\ b.phase = "running"
  BY <1>1, <1>4, CalmAfter
<1> HIDE DEF b
<1>6. Calm(b, c)
  BY <1>5, AnswerShownCalm DEF Keeps
<1>7. Keeps(u, c) /\ c.phase = "running"
  BY <1>5, <1>6, CalmAfter
<1> HIDE DEF c
<1>8. Calm(c, d)
  BY <1>7, CalmAttributes DEF Keeps
<1> HIDE DEF d
<1>9. Keeps(u, d) /\ d.phase = "running"
  BY <1>7, <1>8, CalmAfter
<1>10. QED BY <1>3, <1>9, Aftermath

LEMMA SyncFailedKeeps ==
    ASSUME NEW u, Sane(u), u.phase = "running", NEW w \in Syncs(u),
           NEW s \in SyncFailed(u, w)
    PROVE  Keeps(u, s)
<1> DEFINE a == Finished(u, w)
           b == [a EXCEPT !.cancel = "none"]
           c == [b EXCEPT !.checkJob = TRUE]
<1>1. s = CompleteSyncProgress(c) \/ s = FinalizeClose(c) \/ s = c
  BY DEF SyncFailed
<1>2. Keeps(u, a) /\ a.phase = "running"
  BY FinishedKeeps
<1> HIDE DEF a
<1>3. Calm(a, b)
  BY <1>2, CalmAttributes DEF Keeps
<1> HIDE DEF b
<1>4. Keeps(u, b) /\ b.phase = "running"
  BY <1>2, <1>3, CalmAfter
<1>5. Calm(b, c)
  BY <1>4, CalmAttributes DEF Keeps
<1> HIDE DEF c
<1>6. Keeps(u, c) /\ c.phase = "running"
  BY <1>4, <1>5, CalmAfter
<1>7. QED BY <1>1, <1>6, Aftermath

LEMMA WsjtxResultKeeps ==
    ASSUME NEW u, Sane(u), u.phase = "running", NEW w \in Syncs(u), NEW f, NEW l,
           NEW s \in WsjtxOnlySyncEnds(u, w, f, l)
    PROVE  Keeps(u, s)
<1> DEFINE a == Finished(u, w)
<1>1. s \in LocalSyncChange(a, f, l) \/ s = a \/ s = FinalizeClose(a) \/ s \in BeginCloseSequence(a)
  BY DEF WsjtxOnlySyncEnds
<1>2. Keeps(u, a) /\ a.phase = "running"
  BY FinishedKeeps
<1> HIDE DEF a
<1>3. QED BY <1>1, <1>2, Aftermath

(* Acknowledging the progress window closes the program or goes on.        *)
LEMMA MaybeStartupWsjtxSyncKeeps ==
    ASSUME NEW u, Sane(u), NEW s \in MaybeStartupWsjtxSync(u)
    PROVE  Keeps(u, s)
<1>1. s = u \/ s = [u EXCEPT !.wsjtxJob = TRUE] \/ s = StartWsjtxOnlySync(u, "startup")
  BY DEF MaybeStartupWsjtxSync
<1>2. Keeps(u, u) /\ Keeps(u, [u EXCEPT !.wsjtxJob = TRUE])
  BY KeepsSelf, CalmAttributes DEF Calm
<1>3. Keeps(u, StartWsjtxOnlySync(u, "startup"))
  BY StartWsjtxOnlySyncKeeps DEF Reasons
<1>4. QED BY <1>1, <1>2, <1>3

LEMMA SyncProgressAcknowledgedKeeps ==
    ASSUME NEW u, Sane(u), u.phase = "running", NEW f, NEW l,
           NEW s \in SyncProgressAcknowledged(u, f, l)
    PROVE  Keeps(u, s)
<1> DEFINE a == [u EXCEPT !.dialog = NoDialog]
<1>1. \/ s = FinalizeClose(a) \/ s = a
      \/ \E m \in MaybeStartupWsjtxSync(a) : s \in RequestAutoSync(m, f, l)
  BY DEF SyncProgressAcknowledged
<1>2. NoDialog \in Dialogs
  BY DEF NoDialog, Dialogs
<1>3. Calm(u, a)
  BY <1>2, CalmAttributes
<1> HIDE DEF a
<1>4. Keeps(u, a) /\ a.phase = "running" /\ Sane(a)
  BY <1>3 DEF Calm, Keeps
<1>5. ASSUME NEW m \in MaybeStartupWsjtxSync(a), s \in RequestAutoSync(m, f, l)
      PROVE  Keeps(u, s)
  <2>1. Keeps(a, m) /\ Sane(m)
    BY <1>4, MaybeStartupWsjtxSyncKeeps DEF Keeps
  <2>2. Calm(m, s)
    BY <1>5, <2>1, RequestAutoSyncCalm
  <2>3. QED BY <1>4, <2>1, <2>2, KeepsTransitive DEF Calm
<1>6. QED BY <1>1, <1>4, <1>5, Aftermath

-----------------------------------------------------------------------------
(* At the start. *)
LEMMA InitInvariant == Init => IInv
<1> SUFFICES ASSUME Init PROVE IInv
  OBVIOUS
<1>1. (CHOOSE p \in Profiles : TRUE) \in Profiles
  BY SettingsAssumption
<1>2. NoDialog \in Dialogs
  BY DEF NoDialog, Dialogs
<1>3. self \in Attributes
  BY <1>1, <1>2 DEF Init, Attributes
<1>4. self.workers = {} /\ self.operation = "none" /\ self.dbOpen /\ ~self.online
  BY DEF Init
<1>5. Sane(self)
  BY <1>3, <1>4 DEF Sane, Owned, OneSync, Syncs
<1>6. ProbesInv /\ DatagramsInv
  BY DEF Init, ProbesInv, DatagramsInv
<1>7. FreshInv
  BY DEF Init, FreshInv
<1>8. QED BY <1>5, <1>6, <1>7 DEF IInv, Init

-----------------------------------------------------------------------------
(* What a step that keeps the attributes does to the rest.                 *)

LEMMA ProbesStay ==
    ASSUME IInv, Keeps(self, self'), probes' \subseteq probes
    PROVE  ProbesInv'
<1>1. self.generation \in Nat /\ self'.generation \in Nat /\ self'.generation >= self.generation
      /\ self'.session = self.session
  BY DEF IInv, Keeps, Follows, Sane, Attributes
<1>2. QED BY <1>1 DEF IInv, ProbesInv, Probes

LEMMA DatagramsStay ==
    ASSUME IInv, Keeps(self, self'), datagrams' \subseteq datagrams,
           \A q \in Qsos : heard[q] # Nobody => heard'[q] = heard[q]
    PROVE  DatagramsInv'
<1>1. /\ self.udpGeneration \in Nat /\ self'.udpGeneration \in Nat
      /\ self'.udpGeneration >= self.udpGeneration
      /\ self'.listening => self.listening /\ self'.udpGeneration = self.udpGeneration
      /\ self'.profile = self.profile
  BY DEF IInv, Keeps, Follows, Sane, Attributes
<1>2. QED BY <1>1 DEF IInv, DatagramsInv, Nobody

LEMMA FreshStays ==
    ASSUME IInv, UNCHANGED <<fresh, heard>>
    PROVE  FreshInv'
BY DEF IInv, FreshInv

LEMMA HandlerStep ==
    ASSUME IInv, Keeps(self, self'), UNCHANGED <<up, fresh, heard>>,
           probes' \subseteq probes, datagrams' \subseteq datagrams
    PROVE  IInv'
<1>1. ProbesInv' /\ DatagramsInv' /\ FreshInv'
  BY ProbesStay, DatagramsStay, FreshStays
<1>2. Sane(self)'
  BY DEF Keeps
<1>3. QED BY <1>1, <1>2 DEF IInv

LEMMA Unchanged ==
    ASSUME IInv
    PROVE  Keeps(self, self)
BY KeepsSelf DEF IInv

(* A QSO is logged, for this profile, that was in no other one. *)
LEMMA QsoLogged ==
    ASSUME IInv, NEW q \in Qsos, NEW pf \in Profiles, heard[q] = Nobody,
           heard' = [heard EXCEPT ![q] = pf],
           fresh' = [fresh EXCEPT ![pf] = @ \union {q}]
    PROVE  /\ FreshInv'
           /\ \A x \in Qsos : heard[x] # Nobody => heard'[x] = heard[x]
<1>1. pf \in Profiles /\ Nobody \notin Profiles /\ FreshInv
  BY SettingsAssumption DEF IInv, Sane, Attributes, Nobody
<1>2. \A x \in Qsos : heard'[x] = IF x = q THEN pf ELSE heard[x]
  BY <1>1 DEF FreshInv
<1>3. \A p \in Profiles : fresh'[p] = IF p = pf THEN fresh[p] \union {q} ELSE fresh[p]
  BY <1>1 DEF FreshInv
<1>4. \A p \in Profiles : q \notin fresh[p]
  BY <1>1 DEF FreshInv
<1>5. fresh' \in [Profiles -> SUBSET Qsos] /\ heard' \in [Qsos -> Profiles \union {Nobody}]
  BY <1>1 DEF FreshInv
<1>6. \A p \in Profiles : \A x \in fresh'[p] : heard'[x] = p
  BY <1>1, <1>2, <1>3, <1>4 DEF FreshInv
<1>7. QED BY <1>2, <1>5, <1>6 DEF FreshInv

-----------------------------------------------------------------------------
(* The actions.                                                            *)

LEMMA CloseSteps ==
    ASSUME IInv, OnClose \/ ClosePollTimer
    PROVE  IInv'
<1>1. Sane(self) /\ UNCHANGED <<up, fresh, heard, probes, datagrams>>
  BY DEF IInv, OnClose, ClosePollTimer
<1>2. PICK u : Calm(self, u) /\ self' \in BeginCloseSequence(u)
  BY <1>1, CalmAttributes DEF OnClose, ClosePollTimer
<1>3. Keeps(u, self') /\ Keeps(self, self')
  BY <1>1, <1>2, BeginCloseSequenceKeeps, KeepsTransitive DEF Calm, Keeps
<1>4. QED BY <1>1, <1>3, HandlerStep

LEMMA JoinEndsStep ==
    ASSUME IInv, JoinEnds
    PROVE  IInv'
<1> DEFINE o == self.dbOpen /\ SyncBusy(self)
           s == [[self EXCEPT !.phase = "gone"] EXCEPT !.dbOpen = o]
<1>1. self \in Attributes /\ Sane(self)
  BY DEF IInv, Sane
<1>2. self' = s /\ o \in BOOLEAN
  BY <1>1 DEF JoinEnds, SyncBusy, Attributes
<1> HIDE DEF o
<1>3. s \in Attributes
  BY <1>1, <1>2, AttributeTypes
<1>4. /\ s.phase = "gone"
      /\ s.profile = self.profile /\ s.session = self.session
      /\ s.question = self.question
      /\ s.online = self.online /\ s.answeredIn = self.answeredIn
      /\ s.generation = self.generation
      /\ s.listening = self.listening /\ s.udpGeneration = self.udpGeneration
      /\ self.generation \in Nat /\ self.udpGeneration \in Nat
  BY <1>1 DEF Attributes
<1> HIDE DEF s
<1>5. Keeps(self, self')
  BY <1>1, <1>2, <1>3, <1>4 DEF Keeps, Follows, Sane
<1>6. QED BY <1>5, HandlerStep DEF JoinEnds

(* A thread that goes on stays the thread it is. *)
LEMMA ThreadTypes ==
    ASSUME IInv, NEW w \in self.workers
    PROVE  /\ w \in Workers /\ w.taken \in SUBSET Qsos /\ w.profile \in Profiles
           /\ \A phase \in {"busy", "ok", "imported", "failed"} :
                 LET x == [w EXCEPT !.phase = phase]
                 IN  x \in Workers /\ SameThread(self, w, x)
BY DEF IInv, Sane, Attributes, Workers, SameThread

LEMMA WorkerStartsStep ==
    ASSUME IInv, NEW w \in self.workers, WorkerStarts(w)
    PROVE  IInv'
<1> DEFINE taken == IF w.kind \in {"push", "delta", "full"} THEN fresh[self.profile] ELSE {}
           x == [w EXCEPT !.phase = "busy", !.book = self.session, !.profile = self.profile,
                          !.taken = taken]
<1>1. /\ self.phase # "gone" /\ UNCHANGED <<up, fresh, heard, probes, datagrams>>
      /\ self' = [self EXCEPT !.workers = (self.workers \ {w}) \union {x}]
  BY DEF WorkerStarts
<1>2. taken \in SUBSET Qsos /\ self.session \in Nat /\ self.profile \in Profiles
  BY DEF IInv, FreshInv, Sane, Attributes
<1> HIDE DEF taken
<1>3. x \in Workers /\ SameThread(self, w, x)
  <2>1. w \in Workers
    BY ThreadTypes
  <2>2. QED BY <1>2, <2>1 DEF Workers, SameThread
<1> HIDE DEF x
<1>4. Sane(self) /\ {x} \in SUBSET Workers
  BY <1>3 DEF IInv
<1>5. Keeps(self, self')
  BY <1>1, <1>3, <1>4, ReplaceWorker
<1>6. QED BY <1>1, <1>5, HandlerStep

(* So does one that posts its result. *)
LEMMA PostsKeeps ==
    ASSUME IInv, NEW w \in self.workers, self.phase # "gone",
           NEW result \in {"ok", "imported", "failed"}, Posts(w, result)
    PROVE  Keeps(self, self')
<1> DEFINE x == [w EXCEPT !.phase = result]
           R == IF Closing(self) THEN {} ELSE {x}
<1>1. x \in Workers /\ SameThread(self, w, x)
  BY ThreadTypes
<1>2. self' = [self EXCEPT !.workers = (self.workers \ {w}) \union R]
  BY DEF Posts
<1> HIDE DEF x
<1>3. /\ R \in SUBSET Workers
      /\ \/ \E y \in R : R = {y} /\ SameThread(self, w, y)
         \/ R = {} /\ self.phase # "running"
  BY <1>1 DEF Closing
<1> HIDE DEF R
<1>4. Sane(self)
  BY DEF IInv
<1>5. QED BY <1>2, <1>3, <1>4, ReplaceWorker

LEMMA WorkerSucceedsStep ==
    ASSUME IInv, NEW w \in self.workers, WorkerSucceeds(w)
    PROVE  IInv'
<1>1. self.phase # "gone" /\ UNCHANGED <<up, probes, datagrams>>
  BY DEF WorkerSucceeds
<1>2. CASE /\ Posts(w, "ok") /\ UNCHANGED heard
           /\ fresh' = [fresh EXCEPT ![w.profile] = @ \ w.taken]
  <2>1. Keeps(self, self')
    BY <1>1, <1>2, PostsKeeps
  <2>2. FreshInv'
    BY <1>2 DEF IInv, FreshInv
  <2>3. ProbesInv' /\ DatagramsInv'
    BY <1>1, <1>2, <2>1, ProbesStay, DatagramsStay
  <2>4. QED BY <1>1, <2>1, <2>2, <2>3 DEF IInv, Keeps
<1>3. CASE \E q \in Qsos :
             /\ Posts(w, "imported") /\ heard[q] = Nobody
             /\ heard' = [heard EXCEPT ![q] = w.profile]
             /\ fresh' = [fresh EXCEPT ![w.profile] = @ \union {q}]
  <2>1. Keeps(self, self')
    BY <1>1, <1>3, PostsKeeps
  <2>2. FreshInv' /\ \A x \in Qsos : heard[x] # Nobody => heard'[x] = heard[x]
    BY <1>3, ThreadTypes, QsoLogged
  <2>3. ProbesInv' /\ DatagramsInv'
    BY <1>1, <2>1, <2>2, ProbesStay, DatagramsStay
  <2>4. QED BY <1>1, <2>1, <2>2, <2>3 DEF IInv, Keeps
<1>4. QED BY <1>2, <1>3 DEF WorkerSucceeds

LEMMA WorkerFailsStep ==
    ASSUME IInv, NEW w \in self.workers, WorkerFails(w)
    PROVE  IInv'
BY PostsKeeps, HandlerStep DEF WorkerFails

(* The handler of a result, one case for each kind of worker. *)
LEMMA WorkerResultStep ==
    ASSUME IInv, NEW w \in SyncThreads, WorkerResult(w)
    PROVE  IInv'
<1>1. /\ Sane(self) /\ self.phase = "running"
      /\ UNCHANGED <<up, fresh, heard, probes, datagrams>>
  BY ThreadTypes DEF IInv, WorkerResult, Closing
<1>2. w \in Syncs(self)
  BY DEF SyncThreads, Syncs
<1>3. CASE w.kind = "push"
  <2>1. self' \in NewQsoPushFinished(self, w, fresh, lookups) \union NewQsoPushFailed(self, w)
    BY <1>3 DEF WorkerResult
  <2>2. QED BY <1>1, <1>2, <1>3, <2>1, PushResultKeeps, HandlerStep
<1>4. CASE w.kind = "delta"
  <2>1. self' \in DeltaSyncFinished(self, w) \union DeltaSyncFailed(self, w)
    BY <1>4 DEF WorkerResult
  <2>2. QED BY <1>1, <1>2, <1>4, <2>1, DeltaResultKeeps, HandlerStep
<1>5. CASE w.kind = "full"
  <2>1. self' \in SyncFinished(self, w, fresh, lookups) \/ self' \in SyncFailed(self, w)
    BY <1>5 DEF WorkerResult
  <2>2. QED BY <1>1, <1>2, <1>5, <2>1, SyncFinishedKeeps, SyncFailedKeeps, HandlerStep
<1>6. CASE w.kind = "wsjtx"
  <2>1. self' \in WsjtxOnlySyncEnds(self, w, fresh, lookups)
    BY <1>6 DEF WorkerResult
  <2>2. QED BY <1>1, <1>2, <1>6, <2>1, WsjtxResultKeeps, HandlerStep
<1>7. QED BY <1>3, <1>4, <1>5, <1>6 DEF SyncThreads, SyncKinds

LEMMA QslSyncEndsStep ==
    ASSUME IInv, NEW w \in self.workers, QslSyncEnds(w)
    PROVE  IInv'
<1>1. self' = [self EXCEPT !.workers = (self.workers \ {w}) \union {}] /\ {} \in SUBSET Workers
  <2>1. self.workers \ {w} = (self.workers \ {w}) \union {}
    OBVIOUS
  <2>2. QED BY <2>1 DEF QslSyncEnds
<1>2. "qsl" \notin SyncKinds /\ Sane(self) /\ self.phase # "gone" /\ w.kind = "qsl"
  BY DEF SyncKinds, IInv, QslSyncEnds
<1>3. Keeps(self, self')
  BY <1>1, <1>2, ReplaceWorker
<1>4. QED BY <1>3, HandlerStep DEF QslSyncEnds

LEMMA TimerAndButtonSteps ==
    ASSUME IInv,
           StartupWsjtxTimer \/ PressOk \/ PressCancel \/ RunAutoSync \/ StartQslSync
    PROVE  IInv'
<1>1. Sane(self)
  BY DEF IInv
<1>2. CASE StartupWsjtxTimer
  <2> DEFINE u == [self EXCEPT !.wsjtxJob = FALSE]
  <2>1. self' \in MaybeStartupWsjtxSync(u) /\ UNCHANGED <<up, fresh, heard, probes, datagrams>>
    BY <1>2 DEF StartupWsjtxTimer
  <2>2. Calm(self, u)
    BY <1>1, CalmAttributes
  <2> HIDE DEF u
  <2>3. Keeps(u, self')
    BY <2>1, <2>2, MaybeStartupWsjtxSyncKeeps DEF Calm, Keeps
  <2>4. QED BY <1>1, <2>1, <2>2, <2>3, KeepsTransitive, HandlerStep DEF Calm
<1>3. CASE PressOk
  BY <1>1, <1>3, SyncProgressAcknowledgedKeeps, HandlerStep DEF PressOk, Closing
<1>4. CASE PressCancel
  BY <1>1, <1>4, CancelActiveSyncCalm, HandlerStep DEF PressCancel, Calm
<1>5. CASE RunAutoSync
  <2> DEFINE u == [self EXCEPT !.autoJob = FALSE]
  <2>1. self' \in StartNewQsoPush(u, fresh, lookups)
        /\ UNCHANGED <<up, fresh, heard, probes, datagrams>>
    BY <1>5 DEF RunAutoSync
  <2>2. Calm(self, u)
    BY <1>1, CalmAttributes
  <2> HIDE DEF u
  <2>3. Keeps(u, self')
    BY <2>1, <2>2, StartNewQsoPushKeeps DEF Calm, Keeps
  <2>4. QED BY <1>1, <2>1, <2>2, <2>3, KeepsTransitive, HandlerStep DEF Calm
<1>6. CASE StartQslSync
  BY <1>1, <1>6, StartQslWorkerKeeps, HandlerStep DEF StartQslSync
<1>7. QED BY <1>2, <1>3, <1>4, <1>5, <1>6

(* What the user starts by hand. *)
LEMMA UserSteps ==
    ASSUME IInv, StartSync \/ SyncWsjtxNow \/ StartQsoWrite \/ QsoWriteEnds \/ FinishQsoWrite
    PROVE  IInv'
<1>1. Sane(self)
  BY DEF IInv
<1>2. CASE StartSync
  <2> DEFINE a == StartSyncWorker(self, "full", "manual")
             b == [a EXCEPT !.cancel = "clear"]
  <2>1. /\ self.phase = "running" /\ self.operation = "none" /\ self.question = Nobody
        /\ self' = ShowSyncProgress(b, "manual")
        /\ UNCHANGED <<up, fresh, heard, probes, datagrams>>
    BY <1>2 DEF StartSync, UserActs, Closing, SyncBusy
  <2>2. Keeps(self, a) /\ a.phase = "running"
    BY <1>1, <2>1, StartSyncWorkerKeeps DEF SyncKinds, Reasons
  <2> HIDE DEF a
  <2>3. Calm(a, b)
    BY <2>2, CalmAttributes DEF Keeps
  <2> HIDE DEF b
  <2>4. Keeps(self, b) /\ b.phase = "running"
    BY <1>1, <2>2, <2>3, CalmAfter
  <2>5. Calm(b, self')
    BY <2>1, <2>4, ShowSyncProgressCalm DEF Keeps
  <2>6. QED BY <1>1, <2>1, <2>4, <2>5, CalmAfter, HandlerStep
<1>3. CASE SyncWsjtxNow
  BY <1>1, <1>3, StartWsjtxOnlySyncKeeps, HandlerStep DEF SyncWsjtxNow, Reasons
<1>4. CASE StartQsoWrite
  BY <1>1, <1>4, CalmAttributes, HandlerStep DEF StartQsoWrite, Calm
<1>5. CASE QsoWriteEnds
  BY <1>1, <1>5, CalmAttributes, HandlerStep DEF QsoWriteEnds, Calm
<1>6. CASE FinishQsoWrite
  <2> DEFINE u == [self EXCEPT !.write = "none"]
  <2>1. self' \in LocalSyncChange(u, fresh, lookups)
        /\ UNCHANGED <<up, fresh, heard, probes, datagrams>>
    BY <1>6 DEF FinishQsoWrite
  <2>2. Calm(self, u)
    BY <1>1, CalmAttributes
  <2> HIDE DEF u
  <2>3. Calm(u, self')
    BY <2>1, <2>2, LocalSyncChangeCalm DEF Calm, Keeps
  <2>4. QED BY <1>1, <2>1, <2>2, <2>3, CalmTransitive, HandlerStep DEF Calm
<1>7. QED BY <1>2, <1>3, <1>4, <1>5, <1>6

LEMMA LogQsoStep ==
    ASSUME IInv, NEW q \in Qsos, LogQso(q)
    PROVE  IInv'
<1>1. /\ heard[q] = Nobody /\ UNCHANGED <<up, probes, datagrams>>
      /\ heard' = [heard EXCEPT ![q] = self.profile]
      /\ fresh' = [fresh EXCEPT ![self.profile] = @ \union {q}]
      /\ self' \in LocalSyncChange(self, fresh', lookups)
  BY DEF LogQso
<1>2. FreshInv' /\ \A x \in Qsos : heard[x] # Nobody => heard'[x] = heard[x]
  <2>1. self.profile \in Profiles
    BY DEF IInv, Sane, Attributes
  <2>2. QED BY <1>1, <2>1, QsoLogged
<1>3. Keeps(self, self')
  BY <1>1, LocalSyncChangeCalm DEF IInv, Calm
<1>4. ProbesInv' /\ DatagramsInv'
  BY <1>1, <1>2, <1>3, ProbesStay, DatagramsStay
<1>5. QED BY <1>1, <1>2, <1>3, <1>4 DEF IInv, Keeps

(* Another profile is opened when only workers run that the question of    *)
(* switch_profile has let in; from then on no probe and no datagram of     *)
(* before counts.                                                          *)
LEMMA OpenProfileKeeps ==
    ASSUME IInv, NEW p \in Profiles, NEW u, Calm(self, u), u.phase = "running",
           u.question = Nobody, \A w \in u.workers : w.asked,
           self' = OpenProfile(u, p), UNCHANGED <<up, fresh, heard, probes, datagrams>>
    PROVE  IInv'
<1> DEFINE a == StopServices(u)
           s == self'
<1>1. Sane(u) /\ Keeps(self, u)
  BY DEF Calm, Keeps
<1>2. Calm(u, a) /\ ~a.listening /\ a.udpGeneration = u.udpGeneration + 1
  BY <1>1, StopServicesKeeps
<1>3. a \in Attributes /\ Sane(a) /\ a.workers = u.workers /\ a.phase = "running"
      /\ a.operation = u.operation /\ a.question = Nobody
  <2>1. u \in Attributes
    BY <1>1 DEF Sane
  <2>2. a.question = Nobody
    BY <2>1 DEF StopServices, Attributes
  <2>3. QED BY <1>2, <2>2 DEF Calm, Keeps, Sane
<1>4. /\ a.session \in Nat /\ a.generation \in Nat /\ a.udpGeneration \in Nat
      /\ self.generation \in Nat /\ self.udpGeneration \in Nat
      /\ a.generation >= self.generation /\ a.udpGeneration > self.udpGeneration
  <2>1. self \in Attributes /\ u \in Attributes
    BY <1>1 DEF IInv, Sane
  <2>2. /\ u.generation >= self.generation /\ u.udpGeneration >= self.udpGeneration
        /\ a.generation >= u.generation
    BY <1>1, <1>2 DEF Calm, Keeps, Follows
  <2>3. QED BY <1>2, <1>3, <2>1, <2>2 DEF Attributes
<1>5. s = [[[[[[[[a EXCEPT !.profile = p] EXCEPT !.session = a.session + 1] EXCEPT !.dbOpen = TRUE]
              EXCEPT !.generation = a.generation + 2] EXCEPT !.checkBusy = FALSE]
              EXCEPT !.checkJob = TRUE] EXCEPT !.autoJob = FALSE] EXCEPT !.online = FALSE]
  BY <1>3 DEF OpenProfile, Attributes
<1> HIDE DEF a, s
<1>6. /\ s.phase = "running" /\ s.dbOpen /\ s.workers = u.workers /\ s.operation = u.operation
      /\ ~s.online /\ s.generation = a.generation + 2 /\ s.session = a.session + 1
      /\ s.profile = p /\ ~s.listening /\ s.udpGeneration = a.udpGeneration
      /\ s.question = Nobody
  BY <1>2, <1>3, <1>5 DEF Attributes
<1>7. s \in Attributes
  <2>1. a.session + 1 \in Nat /\ a.generation + 2 \in Nat
    BY <1>4
  <2>2. [[a EXCEPT !.profile = p] EXCEPT !.session = a.session + 1] \in Attributes
    BY <1>3, <2>1, AttributeTypes
  <2>3. [[[[a EXCEPT !.profile = p] EXCEPT !.session = a.session + 1] EXCEPT !.dbOpen = TRUE]
           EXCEPT !.generation = a.generation + 2] \in Attributes
    BY <2>1, <2>2, AttributeTypes
  <2>4. QED BY <1>5, <2>3, AttributeTypes
<1>8. Owned(s)
  <2>1. \A w \in u.workers : w.asked /\ w.kind # "full"
    BY <1>1 DEF Sane, Owned
  <2>2. QED BY <1>6, <2>1 DEF Owned
<1>9. OneSync(s)
  BY <1>1, <1>6 DEF Sane, OneSync, Syncs
<1>10. Sane(s)
  BY <1>6, <1>7, <1>8, <1>9 DEF Sane
<1>11. ProbesInv'
  BY <1>4, <1>6 DEF IInv, ProbesInv, Probes, s
<1>12. DatagramsInv'
  BY <1>4, <1>6 DEF IInv, DatagramsInv, s
<1>13. QED BY <1>10, <1>11, <1>12, FreshStays DEF IInv, s

(* The user changes the profile, or is asked first. *)
LEMMA SwitchProfileStep ==
    ASSUME IInv, NEW p \in Profiles, SwitchProfile(p)
    PROVE  IInv'
<1>1. /\ self.phase = "running" /\ self.operation = "none" /\ ~QslBusy(self)
      /\ self.question = Nobody /\ UNCHANGED <<up, fresh, heard, probes, datagrams>>
      /\ self' = OpenProfile(self, p) \/ self' = [self EXCEPT !.question = p]
  BY DEF SwitchProfile, UserActs, SwitchGuard, Closing, SyncBusy
<1>2. Sane(self) /\ self \in Attributes
  BY DEF IInv, Sane
<1>3. self.workers = {}
  <2>1. \A w \in self.workers : w.kind \in SyncKinds \union {"qsl"}
    BY <1>2 DEF Attributes, Workers, Kinds
  <2>2. Syncs(self) = {}
    BY <1>1, <1>2 DEF Sane, OneSync
  <2>3. QED BY <1>1, <2>1, <2>2 DEF QslBusy, Syncs
<1>4. CASE self' = OpenProfile(self, p)
  <2>1. Calm(self, self)
    BY <1>2, KeepsSelf DEF Calm
  <2>2. QED BY <1>1, <1>3, <1>4, <2>1, OpenProfileKeeps
<1>5. CASE self' = [self EXCEPT !.question = p]
  <2>1. self' \in Attributes
    BY <1>2, <1>5, AttributeTypes
  <2>2. ButTheQuestion(self, self')
    BY <1>2, <1>5 DEF ButTheQuestion, Attributes
  <2>3. Keeps(self, self')
    BY <1>2, <1>3, <2>1, <2>2 DEF ButTheQuestion, Keeps, Follows, Sane, Owned, OneSync, Syncs,
                                  Attributes
  <2>4. QED BY <1>1, <2>3, HandlerStep
<1>6. QED BY <1>1, <1>4, <1>5

(* While the question is open every worker was started after it was asked. *)
LEMMA AnswerYesStep ==
    ASSUME IInv, AnswerYes
    PROVE  IInv'
<1> DEFINE u == Answered(self)
<1>1. /\ self.phase = "running" /\ self.question # Nobody
      /\ self' = OpenProfile(u, self.question) /\ UNCHANGED <<up, fresh, heard, probes, datagrams>>
  BY DEF AnswerYes, Closing
<1>2. Sane(self) /\ self \in Attributes /\ self.question \in Profiles
  BY <1>1 DEF IInv, Sane, Attributes
<1>3. u = [self EXCEPT !.question = Nobody]
  BY DEF Answered
<1> HIDE DEF u
<1>4. u \in Attributes
  BY <1>2, <1>3, AttributeTypes
<1>5. ButTheQuestion(self, u) /\ u.workers = self.workers /\ u.question = Nobody
  BY <1>2, <1>3 DEF ButTheQuestion, Attributes
<1>6. \A w \in self.workers : w.asked
  BY <1>1, <1>2 DEF Sane, Owned
<1>7. Calm(self, u)
  <2>1. self.generation \in Nat /\ self.udpGeneration \in Nat
    BY <1>2 DEF Attributes
  <2>2. Owned(u)
    BY <1>1, <1>2, <1>5 DEF Owned, ButTheQuestion, Sane
  <2>3. OneSync(u)
    BY <1>1, <1>2, <1>5 DEF OneSync, Syncs, ButTheQuestion, Sane
  <2>4. Sane(u)
    BY <1>1, <1>2, <1>4, <1>5, <2>2, <2>3 DEF Sane, ButTheQuestion
  <2>5. QED BY <1>5, <2>1, <2>4 DEF Calm, Keeps, Follows, ButTheQuestion
<1>8. QED BY <1>1, <1>2, <1>5, <1>6, <1>7, OpenProfileKeeps DEF ButTheQuestion

(* The answer is no: the workers keep their profile. *)
LEMMA AnswerNoStep ==
    ASSUME IInv, AnswerNo
    PROVE  IInv'
<1> DEFINE Kept(w) == [w EXCEPT !.asked = FALSE]
           ws == {Kept(w) : w \in self.workers}
           u == [self EXCEPT !.question = Nobody]
           s == [u EXCEPT !.workers = ws]
<1>1. /\ self.phase = "running" /\ self.question # Nobody
      /\ self' = s /\ UNCHANGED <<up, fresh, heard, probes, datagrams>>
  BY DEF AnswerNo, Answered, Closing
<1>2. Sane(self) /\ self \in Attributes /\ self.workers \in SUBSET Workers
      /\ self.generation \in Nat /\ self.udpGeneration \in Nat
  BY DEF IInv, Sane, Attributes
<1>3. \A w \in self.workers : /\ Kept(w) \in Workers /\ Kept(w).kind = w.kind
                              /\ Kept(w).session = self.session /\ Kept(w).book = self.session
  BY <1>1, <1>2 DEF Workers, Sane, Owned
<1> HIDE DEF Kept
<1>4. ws \in SUBSET Workers
  BY <1>3
<1> HIDE DEF ws
<1>5. u \in Attributes
  BY <1>2, AttributeTypes
<1>6. s \in Attributes
  BY <1>4, <1>5, AttributeTypes
<1>7. /\ s.phase = self.phase /\ s.dbOpen = self.dbOpen /\ s.workers = ws
      /\ s.operation = self.operation /\ s.profile = self.profile /\ s.session = self.session
      /\ s.question = Nobody
      /\ s.online = self.online /\ s.answeredIn = self.answeredIn
      /\ s.generation = self.generation
      /\ s.listening = self.listening /\ s.udpGeneration = self.udpGeneration
  BY <1>2, <1>5 DEF Attributes
<1> HIDE DEF u, s
<1>8. Owned(s)
  <2>1. \A w \in self.workers : w.kind # "full"
    BY <1>1, <1>2 DEF Sane, Owned
  <2>2. QED BY <1>3, <1>7, <2>1 DEF Owned, ws
<1>9. Syncs(s) = {Kept(w) : w \in Syncs(self)}
  BY <1>3, <1>7 DEF Syncs, ws
<1>10. OneSync(s)
  <2>1. \A w \in Syncs(s) : w.kind = s.operation
    BY <1>1, <1>2, <1>3, <1>7, <1>9 DEF Sane, OneSync, Syncs
  <2>2. CASE self.operation = "none"
    BY <1>1, <1>2, <1>7, <1>9, <2>1, <2>2 DEF Sane, OneSync
  <2>3. CASE self.operation # "none"
    <3>1. PICK w \in self.workers : Syncs(self) = {w}
      BY <1>1, <1>2, <2>3 DEF Sane, OneSync
    <3>2. Syncs(s) = {Kept(w)} /\ Kept(w) \in s.workers
      BY <1>7, <1>9, <3>1 DEF ws
    <3>3. QED BY <1>7, <2>1, <2>3, <3>2 DEF OneSync
  <2>4. QED BY <2>2, <2>3
<1>11. Sane(s)
  BY <1>1, <1>2, <1>6, <1>7, <1>8, <1>10 DEF Sane
<1>12. Keeps(self, self')
  BY <1>1, <1>2, <1>7, <1>11 DEF Keeps, Follows
<1>13. QED BY <1>1, <1>12, HandlerStep

(* A check carries the generation and the session it was started in. *)
LEMMA MonitorTickStep ==
    ASSUME IInv, MonitorTick
    PROVE  IInv'
<1> DEFINE s == [self EXCEPT !.checkJob = FALSE]
           x == [generation |-> s.generation, session |-> s.session,
                 phase |-> "busy", online |-> FALSE]
<1>1. Sane(self) /\ UNCHANGED <<up, fresh, heard, datagrams>>
  BY DEF IInv, MonitorTick
<1>2. \/ self' = s /\ UNCHANGED probes
      \/ self' = [s EXCEPT !.checkBusy = TRUE] /\ probes' = probes \union {x}
      \/ /\ self' = [[[s EXCEPT !.startupPending = FALSE] EXCEPT !.online = FALSE]
                       EXCEPT !.checkJob = TRUE]
         /\ UNCHANGED probes
  BY DEF MonitorTick
<1>3. Calm(self, s)
  BY <1>1, CalmAttributes
<1>4. s.generation = self.generation /\ s.session = self.session
  BY <1>1 DEF Sane, Attributes
<1> HIDE DEF s
<1>5. CASE self' = s /\ UNCHANGED probes
  BY <1>1, <1>3, <1>5, HandlerStep DEF Calm
<1>6. CASE self' = [s EXCEPT !.checkBusy = TRUE] /\ probes' = probes \union {x}
  <2>1. Calm(s, self')
    BY <1>3, <1>6, CalmAttributes DEF Calm, Keeps
  <2>2. Keeps(self, self') /\ s \in Attributes
    BY <1>1, <1>3, <2>1, CalmTransitive DEF Calm, Keeps, Sane
  <2>3. /\ self'.generation = self.generation /\ self'.session = self.session
        /\ self.generation \in Nat /\ self.session \in Nat
    BY <1>1, <1>4, <1>6, <2>2 DEF Sane, Attributes
  <2>4. x \in Probes /\ x.generation = self.generation /\ x.session = self.session
    BY <1>4, <2>3 DEF Probes
  <2> HIDE DEF x
  <2>5. ProbesInv'
    BY <1>6, <2>3, <2>4 DEF IInv, ProbesInv
  <2>6. DatagramsInv'
    BY <1>1, <2>2, DatagramsStay
  <2>7. QED BY <1>1, <2>2, <2>5, <2>6, FreshStays DEF IInv, Keeps
<1>7. CASE /\ self' = [[[s EXCEPT !.startupPending = FALSE] EXCEPT !.online = FALSE]
                         EXCEPT !.checkJob = TRUE]
           /\ UNCHANGED probes
  <2> DEFINE a == [s EXCEPT !.startupPending = FALSE]
             b == [a EXCEPT !.online = FALSE]
  <2>1. Calm(s, a) /\ self' = [b EXCEPT !.checkJob = TRUE]
    BY <1>3, <1>7, CalmAttributes DEF Calm, Keeps
  <2> HIDE DEF a
  <2>2. Calm(a, b)
    BY <2>1, CalmAttributes DEF Calm, Keeps
  <2> HIDE DEF b
  <2>3. Calm(b, self')
    BY <2>1, <2>2, CalmAttributes DEF Calm, Keeps
  <2>4. Calm(self, self')
    BY <1>1, <1>3, <2>1, <2>2, <2>3, CalmTransitive
  <2>5. QED BY <1>1, <1>7, <2>4, HandlerStep DEF Calm
<1>8. QED BY <1>2, <1>5, <1>6, <1>7

LEMMA ProbeAnswersStep ==
    ASSUME IInv, NEW x \in probes, ProbeAnswers(x)
    PROVE  IInv'
<1> DEFINE y == [x EXCEPT !.phase = "posted", !.online = up]
<1>1. /\ UNCHANGED <<self, fresh, heard, datagrams>> /\ up' = up
      /\ probes' = (probes \ {x}) \union {y}
  BY DEF ProbeAnswers
<1>2. y \in Probes /\ y.generation = x.generation /\ y.session = x.session
  BY DEF IInv, ProbesInv, Probes
<1> HIDE DEF y
<1>3. ProbesInv'
  BY <1>1, <1>2 DEF IInv, ProbesInv
<1>4. DatagramsInv' /\ Sane(self')
  BY <1>1, Unchanged, DatagramsStay DEF Keeps
<1>5. QED BY <1>1, <1>3, <1>4, FreshStays DEF IInv

(* The answer to a check counts only in its generation, so it is of the    *)
(* server of this profile.                                                 *)
LEMMA WavelogCheckFinishedStep ==
    ASSUME IInv, NEW x \in probes, WavelogCheckFinished(x)
    PROVE  IInv'
<1> DEFINE a == [self EXCEPT !.checkBusy = FALSE]
           b == [[a EXCEPT !.online = x.online] EXCEPT !.answeredIn = a.session]
           c == [b EXCEPT !.checkJob = TRUE]
           d == [c EXCEPT !.startupPending = FALSE]
<1>1. /\ Sane(self) /\ UNCHANGED <<up, fresh, heard, datagrams>> /\ probes' \subseteq probes
      /\ x \in Probes /\ x.online \in BOOLEAN
  BY DEF IInv, ProbesInv, Probes, WavelogCheckFinished
<1>2. CASE x.generation # self.generation
  BY <1>1, <1>2, Unchanged, HandlerStep DEF WavelogCheckFinished, AnswerCounts
<1>3. CASE x.generation = self.generation
  <2>1. a.session = x.session
    BY <1>1, <1>3 DEF IInv, ProbesInv, Sane, Attributes
  <2>2. self' = d \/ self' = StartDeltaSync(d, "startup") \/ self' \in RequestAutoSync(d, fresh, lookups)
    <3>1. d = [self EXCEPT !.checkBusy = FALSE, !.online = x.online, !.answeredIn = x.session,
                           !.checkJob = TRUE, !.startupPending = FALSE]
      BY <2>1
    <3> HIDE DEF d
    <3>2. QED BY <1>3, <3>1 DEF WavelogCheckFinished, AnswerCounts
  <2>3. Calm(self, a)
    BY <1>1, CalmAttributes
  <2> HIDE DEF a
  <2>4. Calm(a, b)
    BY <1>1, <2>3, AnswerShownCalm DEF Calm, Keeps
  <2> HIDE DEF b
  <2>5. Calm(b, c)
    BY <2>4, CalmAttributes DEF Calm, Keeps
  <2> HIDE DEF c
  <2>6. Calm(c, d)
    BY <2>5, CalmAttributes DEF Calm, Keeps
  <2> HIDE DEF d
  <2>7. Keeps(self, d) /\ Sane(d)
    BY <1>1, <2>3, <2>4, <2>5, <2>6, CalmTransitive DEF Calm, Keeps
  <2>8. Keeps(d, self')
    BY <2>2, <2>7, KeepsSelf, StartDeltaSyncKeeps, RequestAutoSyncCalm DEF Calm
  <2>9. QED BY <1>1, <2>7, <2>8, KeepsTransitive, HandlerStep
<1>4. QED BY <1>2, <1>3

LEMMA WavelogSteps ==
    ASSUME IInv, WavelogFails \/ WavelogRecovers
    PROVE  IInv'
<1>1. /\ UNCHANGED <<self, fresh, heard, probes, datagrams>> /\ up' \in BOOLEAN
  BY DEF WavelogFails, WavelogRecovers
<1>2. Sane(self') /\ ProbesInv' /\ DatagramsInv' /\ FreshInv'
  BY <1>1, Unchanged, ProbesStay, DatagramsStay, FreshStays DEF Keeps
<1>3. QED BY <1>1, <1>2 DEF IInv

(* A new listener has a generation no datagram was received in. *)
LEMMA StartUdpLogStep ==
    ASSUME IInv, StartUdpLog
    PROVE  IInv'
<1> DEFINE a == [self EXCEPT !.listening = TRUE]
           s == [a EXCEPT !.udpGeneration = self.udpGeneration + 1]
<1>1. /\ UNCHANGED <<up, fresh, heard, probes, datagrams>> /\ self \in Attributes
      /\ self.udpGeneration \in Nat /\ self.generation \in Nat /\ Sane(self)
  BY DEF StartUdpLog, IInv, Sane, Attributes
<1>2. self' = s
  BY DEF StartUdpLog, StartUdp
<1>3. s \in Attributes
  <2>1. self.udpGeneration + 1 \in Nat
    BY <1>1
  <2>2. a \in Attributes
    BY <1>1, AttributeTypes
  <2>3. QED BY <2>1, <2>2, AttributeTypes
<1>4. /\ s.phase = self.phase /\ s.dbOpen = self.dbOpen /\ s.workers = self.workers
      /\ s.operation = self.operation /\ s.profile = self.profile /\ s.session = self.session
      /\ s.question = self.question
      /\ s.online = self.online /\ s.answeredIn = self.answeredIn
      /\ s.generation = self.generation /\ s.udpGeneration = self.udpGeneration + 1
  BY <1>1 DEF Attributes
<1> HIDE DEF s
<1>5. Sane(self')
  BY <1>1, <1>2, <1>3, <1>4 DEF Sane, Owned, OneSync, Syncs
<1>6. ProbesInv'
  BY <1>1, <1>2, <1>4 DEF IInv, ProbesInv, Probes
<1>7. DatagramsInv'
  BY <1>1, <1>2, <1>4 DEF IInv, DatagramsInv
<1>8. QED BY <1>1, <1>5, <1>6, <1>7, FreshStays DEF IInv

LEMMA StopUdpLogStep ==
    ASSUME IInv, StopUdpLog
    PROVE  IInv'
BY StopServicesKeeps, HandlerStep DEF IInv, StopUdpLog, Calm

LEMMA ReceiveDatagramStep ==
    ASSUME IInv, NEW q \in Qsos, ReceiveDatagram(q)
    PROVE  IInv'
<1> DEFINE d == [generation |-> self.udpGeneration, qso |-> q]
<1>1. /\ heard[q] = Nobody /\ heard' = [heard EXCEPT ![q] = self.profile]
      /\ datagrams' = datagrams \union {d} /\ UNCHANGED <<self, up, fresh, probes>>
  BY DEF ReceiveDatagram
<1>2. /\ self.udpGeneration \in Nat /\ self.profile \in Profiles /\ Nobody \notin Profiles
      /\ FreshInv
  BY SettingsAssumption DEF IInv, Sane, Attributes, Nobody
<1>3. \A x \in Qsos : heard'[x] = IF x = q THEN self.profile ELSE heard[x]
  BY <1>1, <1>2 DEF FreshInv
<1>4. \A x \in Qsos : heard[x] # Nobody => heard'[x] = heard[x]
  BY <1>1, <1>3
<1>5. FreshInv'
  <2>1. \A p \in Profiles : q \notin fresh[p]
    BY <1>1, <1>2 DEF FreshInv
  <2>2. heard' \in [Qsos -> Profiles \union {Nobody}]
    BY <1>1, <1>2 DEF FreshInv
  <2>3. \A p \in Profiles : \A x \in fresh[p] : heard'[x] = p
    BY <1>2, <1>3, <2>1 DEF FreshInv
  <2>4. QED BY <1>1, <1>2, <2>2, <2>3 DEF FreshInv
<1>6. /\ d.generation = self.udpGeneration /\ d.qso = q
  OBVIOUS
<1> HIDE DEF d
<1>7. DatagramsInv'
  BY <1>1, <1>2, <1>3, <1>4, <1>6 DEF IInv, DatagramsInv
<1>8. ProbesInv' /\ Sane(self')
  BY <1>1, Unchanged, ProbesStay DEF Keeps
<1>9. QED BY <1>1, <1>5, <1>7, <1>8 DEF IInv

(* A datagram is logged in the profile whose listener received it, and     *)
(* that is the one that listens.                                           *)
LEMMA AcceptUdpLogEventStep ==
    ASSUME IInv, NEW d \in datagrams, AcceptUdpLogEvent(d)
    PROVE  IInv'
<1>1. datagrams' \subseteq datagrams /\ UNCHANGED <<up, heard, probes>> /\ Sane(self)
  BY DEF AcceptUdpLogEvent, IInv
<1>2. CASE d.generation # self.udpGeneration \/ ~self.listening
  BY <1>1, <1>2, Unchanged, HandlerStep DEF AcceptUdpLogEvent
<1>3. CASE d.generation = self.udpGeneration /\ self.listening
  <2>1. heard[d.qso] = self.profile /\ d.qso \in Qsos /\ self.profile \in Profiles
    BY <1>1, <1>3 DEF IInv, DatagramsInv, Sane, Attributes
  <2>2. /\ fresh' = [fresh EXCEPT ![self.profile] = @ \union {d.qso}]
        /\ \/ self' = [self EXCEPT !.autoJob = FALSE]
           \/ self' \in LocalSyncChange(self, fresh', lookups)
    BY <1>3 DEF AcceptUdpLogEvent
  <2>3. Keeps(self, self')
    BY <1>1, <2>2, CalmAttributes, LocalSyncChangeCalm DEF Calm
  <2>4. FreshInv'
    BY <1>1, <2>1, <2>2 DEF IInv, FreshInv
  <2>5. ProbesInv' /\ DatagramsInv'
    BY <1>1, <2>3, ProbesStay, DatagramsStay
  <2>6. QED BY <1>1, <2>3, <2>4, <2>5 DEF IInv, Keeps
<1>4. QED BY <1>2, <1>3

LEMMA LookupSteps ==
    ASSUME IInv, NEW x \in lookups, LookupEnds(x) \/ FinishExternalQsoEnrichment(x)
    PROVE  IInv'
<1>1. /\ UNCHANGED <<up, fresh, heard, probes, datagrams>>
      /\ self' = self \/ self' \in LocalSyncChange(self, fresh, lookups')
  BY DEF LookupEnds, FinishExternalQsoEnrichment
<1>2. Keeps(self, self')
  BY <1>1, Unchanged, LocalSyncChangeCalm DEF IInv, Calm
<1>3. QED BY <1>1, <1>2, HandlerStep

-----------------------------------------------------------------------------
(* Every step.                                                             *)

LEMMA NextInvariant == IInv /\ [Next]_vars => IInv'
<1> SUFFICES ASSUME IInv, [Next]_vars PROVE IInv'
  OBVIOUS
<1>1. CASE Handlers
  <2>1. ASSUME NEW w \in SyncThreads, WorkerResult(w) PROVE IInv'
    BY <2>1, WorkerResultStep
  <2>2. ASSUME NEW x \in probes, WavelogCheckFinished(x) PROVE IInv'
    BY <2>2, WavelogCheckFinishedStep
  <2>3. ASSUME NEW d \in datagrams, AcceptUdpLogEvent(d) PROVE IInv'
    BY <2>3, AcceptUdpLogEventStep
  <2>4. ASSUME NEW x \in lookups, FinishExternalQsoEnrichment(x) PROVE IInv'
    BY <2>4, LookupSteps
  <2>5. QED
    BY <1>1, <2>1, <2>2, <2>3, <2>4, CloseSteps, JoinEndsStep, TimerAndButtonSteps, UserSteps,
       MonitorTickStep DEF Handlers
<1>2. CASE Threads
  <2>1. ASSUME NEW w \in SyncThreads, WorkerStarts(w) \/ WorkerSucceeds(w) \/ WorkerFails(w)
        PROVE  IInv'
    <3>1. w \in self.workers
      BY DEF SyncThreads
    <3>2. QED BY <2>1, <3>1, WorkerStartsStep, WorkerSucceedsStep, WorkerFailsStep
  <2>2. ASSUME NEW x \in probes, ProbeAnswers(x) PROVE IInv'
    BY <2>2, ProbeAnswersStep
  <2>3. ASSUME NEW x \in lookups, LookupEnds(x) PROVE IInv'
    BY <2>3, LookupSteps
  <2>4. ASSUME NEW w \in self.workers, QslSyncEnds(w) PROVE IInv'
    BY <2>4, QslSyncEndsStep
  <2>5. QED BY <1>2, <2>1, <2>2, <2>3, <2>4, UserSteps DEF Threads
<1>3. CASE Environment
  <2>1. ASSUME NEW q \in Qsos, LogQso(q) \/ ReceiveDatagram(q) PROVE IInv'
    BY <2>1, LogQsoStep, ReceiveDatagramStep
  <2>2. ASSUME NEW p \in Profiles, SwitchProfile(p) PROVE IInv'
    BY <2>2, SwitchProfileStep
  <2>3. QED
    BY <1>3, <2>1, <2>2, AnswerYesStep, AnswerNoStep, WavelogSteps, CloseSteps, TimerAndButtonSteps, UserSteps,
       StartUdpLogStep, StopUdpLogStep DEF Environment
<1>4. CASE UNCHANGED vars
  BY <1>4, Unchanged, HandlerStep DEF vars
<1>5. QED BY <1>1, <1>2, <1>3, <1>4 DEF Next

LEMMA Invariant == Spec => []IInv
BY InitInvariant, NextInvariant, PTL DEF Spec

-----------------------------------------------------------------------------
(* The theorems.                                                           *)

(* At most one synchronisation runs at a time, the one sync_busy and       *)
(* sync_operation stand for, in the profile and with the open database it  *)
(* was started for, until its result has been handled                      *)
(* (feature_qso_sync.py:961,1079,1211; feature_profiles.py:121).           *)
THEOREM OneSyncInItsProfile == Spec => []SyncOwnsProfile
<1>1. IInv => SyncOwnsProfile
  <2> SUFFICES ASSUME IInv, self.phase # "gone"
               PROVE  /\ \A w \in self.workers :
                           ~w.asked => w.session = self.session /\ w.book = self.session
                      /\ \A w \in SyncThreads : w.kind = self.operation /\ self.dbOpen
                      /\ Closing(self) \/ Cardinality(SyncThreads)
                                            = (IF SyncBusy(self) THEN 1 ELSE 0)
    BY DEF SyncOwnsProfile
  <2>1. SyncThreads = Syncs(self)
    BY DEF SyncThreads, Syncs
  <2>2. /\ self.dbOpen /\ Owned(self)
        /\ OneSync(self) /\ self.phase \in {"running", "joining", "gone"}
    BY DEF IInv, Sane, Attributes
  <2>3. ASSUME ~Closing(self)
        PROVE  Cardinality(SyncThreads) = (IF SyncBusy(self) THEN 1 ELSE 0)
    <3>1. IF SyncBusy(self) THEN \E w : SyncThreads = {w} ELSE SyncThreads = {}
      BY <2>1, <2>2, <2>3 DEF OneSync, Closing, SyncBusy
    <3>2. Cardinality({}) = 0 /\ \A w : Cardinality({w}) = 1
      BY FS_EmptySet, FS_Singleton
    <3>3. QED BY <3>1, <3>2
  <2>4. QED BY <2>1, <2>2, <2>3 DEF OneSync, Owned
<1>2. QED BY <1>1, Invariant, PTL

(* A QSO is logged in the profile whose form or listener it came from, and *)
(* the reachability shown is that of the server of the active profile      *)
(* (feature_udp.py:392,480; feature_wavelog_online.py:97).                 *)
THEOREM ResultsStay == Spec => []ResultsStayInProfile
<1>1. IInv => ResultsStayInProfile
  BY DEF IInv, FreshInv, Sane, ResultsStayInProfile
<1>2. QED BY <1>1, Invariant, PTL
=============================================================================
