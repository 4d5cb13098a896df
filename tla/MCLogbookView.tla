--------------------------- MODULE MCLogbookView ---------------------------
(* A small instance of LogbookView for TLC, and the diff over all small tables. *)
EXTENDS LogbookView

Row(id) == [id |-> id, ver |-> 0]

\* Two profiles, one with three QSOs, one with a single QSO.
TwoLogs == [a |-> <<Row(3), Row(2), Row(1)>>, b |-> <<Row(4)>>]

AllFilters == {"all", "one"}

SmallTables == {t \in SeqOf([id : 1 .. 3, ver : 0 .. 1], 3) : ~HasDuplicates(t)}

\* "Applying the operations in order to a tree that shows old yields exactly new"
\* (qso_tree_view.py:24), for every pair of tables of up to three rows.
ASSUME DiffYieldsNew ==
    \A old, new \in SmallTables :
        ~NeedsRebuild(old, new) =>
            /\ AcceptsAll(old, Operations(old, new))
            /\ ApplyRowDiff(old, Operations(old, new)) = new
=============================================================================
