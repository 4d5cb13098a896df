----------------------------- MODULE DurableLog -----------------------------
(***************************************************************************)
(* What the local logbook promises its callers: a sequence of QSO records  *)
(* in which every operation takes effect in one indivisible step, or not   *)
(* at all, whatever crashes, restarts and write errors happen meanwhile.   *)
(* Module LogStore is shown to implement this specification.               *)
(***************************************************************************)
EXTENDS Naturals, SequencesExt

CONSTANTS
    Identities,       \* the identities records may have
    Batches,          \* the sequences of records a caller may hand over
    ForeignLogs,      \* contents another program may put in the ADI file
    InitialLogs,      \* contents the logbook may be found with
    UnreadableReads   \* TRUE if reading the ADI file may raise

VARIABLES
    log,              \* the records of the logbook, oldest line first
    edition           \* how often another program replaced the logbook

vars == <<log, edition>>

Ids(recs) == {r.id : r \in Range(recs)}

(* The records of recs, in order, whose identity is not in ids: the one    *)
(* element of this set.                                                    *)
Without(recs, ids) ==
    LET places == {i \in DOMAIN recs : recs[i].id \notin ids}
        size   == Cardinality(places)
        Rising(at) == \A i, j \in 1..size : i < j => at[i] < at[j]
    IN  {[i \in 1..size |-> recs[at[i]]] : at \in {at \in [1..size -> places] : Rising(at)}}

-----------------------------------------------------------------------------
Init ==
    /\ log \in InitialLogs
    /\ edition = 0

Add(recs) ==
    /\ log' = log \o recs
    /\ UNCHANGED edition

(* Replace the records with the identities of recs, append the others;     *)
(* an update is the case of one record that is already there.              *)
Upsert(recs) ==
    /\ \E rest \in Without(log, Ids(recs)) : log' = rest \o recs
    /\ UNCHANGED edition

Delete(ids) ==
    /\ log' \in Without(log, ids)
    /\ UNCHANGED edition

(* An import that could not read the logbook starts a new one: the one     *)
(* operation that may lose records nobody named.                           *)
ImportOverUnreadable(recs) ==
    /\ UnreadableReads
    /\ log' = recs
    /\ UNCHANGED edition

(* Another program, or a restored backup, replaces the ADI file. *)
Foreign(recs) ==
    /\ log' = recs
    /\ edition' = edition + 1

Next ==
    \/ \E recs \in Batches :
          Add(recs) \/ Upsert(recs) \/ ImportOverUnreadable(recs)
    \/ \E ids \in SUBSET Identities : Delete(ids)
    \/ \E recs \in ForeignLogs : Foreign(recs)

Spec == Init /\ [][Next]_vars
=============================================================================
