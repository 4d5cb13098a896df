----------------------------- MODULE MCLogStore -----------------------------
(***************************************************************************)
(* Small instances of LogStore for TLC.                                    *)
(***************************************************************************)
EXTENDS LogStore

CONSTANTS a, b, c, MaxBatch

MCRec == [id : {a, b, c}, text : {"old", "new"}]

(* Batches of up to MaxBatch records with distinct identities; the new     *)
(* text tells a replacing record from the one it replaces.                 *)
MCBatches ==
    {recs \in UNION {[1..n -> [id : {a, b, c}, text : {"new"}]] :
                        n \in 1..MaxBatch} :
        \A i, j \in DOMAIN recs : recs[i].id = recs[j].id => i = j}

MCInitialLogs == {<<>>, <<[id |-> a, text |-> "old"]>>}

Nobody == {}

(* An older backup, a longer log, one that continues differently, and none.*)
MCForeignLogs ==
    {<<>>,
     <<[id |-> a, text |-> "old"]>>,
     <<[id |-> b, text |-> "old"], [id |-> c, text |-> "old"]>>}
=============================================================================
