------------------------------- MODULE AdiFile ------------------------------
(***************************************************************************)
(* The content of an ADI file as far as the logbook's durability depends   *)
(* on it (qso_to_adif_record and parse_adif of logger_core.py): a record   *)
(* occupies two cells, its fields and its end marker, so that a write may  *)
(* stop in the middle of a record.  Positions and sizes count cells.  The  *)
(* ADIF header, the newline put before an append and the field texts are   *)
(* left out.                                                               *)
(***************************************************************************)
EXTENDS Naturals, SequencesExt

CONSTANT Rec  \* QSO records [id |-> local_id, ...]

Cell == Rec \X {"fields", "eor"}

(* qso_to_adif_record of each record in turn. *)
Encode(recs) ==
    [i \in 1..(2 * Len(recs)) |->
        <<recs[(i + 1) \div 2], IF i % 2 = 1 THEN "fields" ELSE "eor">>]

(* parse_adif: one record per end marker; fields after the last end marker *)
(* are ignored.                                                            *)
Decode(cells) == [i \in 1..(Len(cells) \div 2) |-> cells[2 * i][1]]

(* Nothing but complete records. *)
Whole(cells) == cells = Encode(Decode(cells))

Ids(recs) == {r.id : r \in Range(recs)}

FaultyKept(recs, ids) == {recs}

(* The records of recs, in order, whose identity is not in ids: the one    *)
(* element of this set.                                                    *)
Kept(recs, ids) ==
    LET places == {i \in DOMAIN recs : recs[i].id \notin ids}
        size   == Cardinality(places)
        Rising(at) == \A i, j \in 1..size : i < j => at[i] < at[j]
    IN  {[i \in 1..size |-> recs[at[i]]] : at \in {at \in [1..size -> places] : Rising(at)}}

(* No two records share an identity. *)
Distinct(recs) == \A i, j \in DOMAIN recs : recs[i].id = recs[j].id => i = j
=============================================================================
