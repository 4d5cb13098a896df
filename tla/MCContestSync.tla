---------------------------- MODULE MCContestSync ----------------------------
(* A small instance of ContestSync for TLC. *)
EXTENDS ContestSync

OneContest == {"wag"}
TwoQsos == 1 .. 2
ThreePresets == 1 .. 3
ThreeSessions == 1 .. 3

Fill(ids, f) == [x \in ids |-> IF x \in DOMAIN f THEN f[x] ELSE None]
Start(rows, qsos) == [presets |-> Fill(PresetIds, rows), log |-> Fill(QsoIds, qsos)]

\* Nothing yet; a contest in which one QSO was logged and the session stopped.
TwoStarts ==
    {Start(<<>>, <<>>),
     Start(<<Preset("wag", 0, TRUE, 0, {1})>>, <<[contest |-> "wag", serial |-> 1, of |-> 1]>>)}
=============================================================================
