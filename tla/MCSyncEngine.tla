---------------------------- MODULE MCSyncEngine ----------------------------
(* Small instances of SyncEngine. *)
EXTENDS SyncEngine, TLC

CONSTANTS c1, c2, t1

Record(c, t) == [contact |-> c, text |-> t]

Linked1(w, content) ==
    [status |-> "synced", wid |-> w, base |-> content, remoteBase |-> content,
     version |-> 1, reason |-> "", after |-> {}]

Unlinked1 == NewRow("local_only", 1, {})

Log(f)  == [l \in LocalIds |-> IF l \in DOMAIN f THEN f[l] ELSE None]
Web(f)  == [w \in WavelogIds |-> IF w \in DOMAIN f THEN f[w] ELSE None]
Nothing == [x \in {} |-> None]

Situation(log, rows, web) ==
    [adi |-> Log(log), meta |-> Log(rows), remote |-> Web(web)]

(* Nothing yet; a new QSO; a QSO on both sides, linked; QSOs on Wavelog. *)
Empty   == Situation(Nothing, Nothing, Nothing)
NewQso  == Situation(1 :> Record(c1, t1), 1 :> Unlinked1, Nothing)
Synced  == Situation(1 :> Record(c1, t1), 1 :> Linked1(1, Record(c1, t1)),
                     1 :> Record(c1, t1))
OnlyWeb == Situation(Nothing, Nothing, 1 :> Record(c1, t1))
TwoSynced ==
    Situation(1 :> Record(c1, t1) @@ 2 :> Record(c2, t1),
              1 :> Linked1(1, Record(c1, t1)) @@ 2 :> Linked1(2, Record(c2, t1)),
              1 :> Record(c1, t1) @@ 2 :> Record(c2, t1))

-----------------------------------------------------------------------------
(* Where each instance starts, and what may happen in it. *)
Once(kinds)  == [k \in kinds |-> 1]
Twice(kinds) == [k \in kinds |-> 2]
Steps(f) == [k \in Kinds |-> IF k \in DOMAIN f THEN f[k] ELSE 0]

(* Full syncs, between changes on both sides and crashes. *)
TwoSidedStarts == {NewQso, Synced, OnlyWeb, TwoSynced}
TwoSidedBounds ==
    {Steps(Twice({"full"}) @@ Once({"user", "remote", "crash", "disk"}))}

(* Either pushes that lose answers, then a full sync, while records vanish *)
(* from the log; or edits and refreshes of the view while a sync runs.     *)
InterruptedStarts == {NewQso, Synced}
InterruptedBounds ==
    {Steps(Twice({"push"}) @@
           Once({"user", "net", "disk", "cancel", "full", "loss", "resolve"})),
     Steps(Once({"user", "full", "push", "refresh", "remote", "resolve"}))}

(* A refresh of the view and a crash during a full sync that pulls a QSO,  *)
(* and a push afterwards.                                                  *)
PulledStart == {OnlyWeb}
RefreshCrashBounds == {Steps(Once({"full", "refresh", "crash", "push"}))}

(* A deletion, and a full sync whose request to delete fails. *)
OneStart == {Synced}
DeleteFailsBounds == {Steps(Twice({"full"}) @@ Once({"user", "net"}))}
=============================================================================
