---------------------------- MODULE QsoTreeView ----------------------------
(***************************************************************************)
(* Incremental updates of the logbook table (qso_tree_view.py).            *)
(*                                                                         *)
(* A row is a record with an id and a version (everything else the table   *)
(* shows of a QSO).  PlanRowDiff compares the rows shown with the rows     *)
(* wanted and answers a list of operations, or none when a full rebuild is *)
(* the better choice; ApplyRowDiff applies them to the table.              *)
(***************************************************************************)
EXTENDS Naturals, Sequences, FiniteSets, SequencesExt

CONSTANT MaxDiffOps    \* DEFAULT_MAX_OPS
ASSUME MaxDiffOpsAssumption == MaxDiffOps \in Nat

Ids(rows) == {rows[i].id : i \in DOMAIN rows}

HasDuplicates(rows) == Cardinality(Ids(rows)) # Len(rows)

RowOf(rows, id) == CHOOSE row \in ToSet(rows) : row.id = id

IdsIn(rows, ids) == SelectSeq([i \in DOMAIN rows |-> rows[i].id], LAMBDA id : id \in ids)

Deletions(old, new) ==
    LET gone == SelectSeq(old, LAMBDA row : row.id \notin Ids(new))
    IN  [i \in DOMAIN gone |-> [op |-> "delete", index |-> 0, row |-> gone[i]]]

\* One step of the loop over the new rows: an insert, an update, or nothing.
Change(old, new, index) ==
    LET row == new[index] IN
    IF row.id \notin Ids(old) THEN <<[op |-> "insert", index |-> index, row |-> row]>>
    ELSE IF row # RowOf(old, row.id) THEN <<[op |-> "update", index |-> index, row |-> row]>>
    ELSE <<>>

Changes(old, new) == FlattenSeq([i \in DOMAIN new |-> Change(old, new, i)])

Operations(old, new) == Deletions(old, new) \o Changes(old, new)

\* None: duplicate ids, rows in another order, or too many operations.
NeedsRebuild(old, new) ==
    \/ HasDuplicates(old) \/ HasDuplicates(new)
    \/ IdsIn(old, Ids(new)) # IdsIn(new, Ids(old))
    \/ Len(Operations(old, new)) > MaxDiffOps

\* The table refuses to insert an id it shows and to change one it does not show.
Accepts(tree, op) ==
    /\ op.op = "insert" => op.row.id \notin Ids(tree)
    /\ op.op = "update" => op.row.id \in Ids(tree)

ApplyChange(tree, op) ==
    IF op.op = "insert"
    THEN InsertAt(tree, IF op.index > Len(tree) THEN Len(tree) + 1 ELSE op.index, op.row)
    ELSE [i \in DOMAIN tree |-> IF tree[i].id = op.row.id THEN op.row ELSE tree[i]]

AcceptsAll(tree, ops) == \A i \in DOMAIN ops : Accepts(tree, ops[i])

\* The deletions of rows that are shown come first, then the rest in order.
ApplyRowDiff(tree, ops) ==
    LET Deletes(op) == op.op = "delete"
        deleted == Ids([i \in DOMAIN SelectSeq(ops, Deletes) |-> SelectSeq(ops, Deletes)[i].row])
        kept == SelectSeq(tree, LAMBDA row : row.id \notin deleted)
    IN  FoldLeft(ApplyChange, kept, SelectSeq(ops, LAMBDA op : ~Deletes(op)))
=============================================================================
