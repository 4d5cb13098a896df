---------------------------- MODULE QsoDuplicates ----------------------------
(***************************************************************************)
(* The duplicate matcher shared by the WSJT-X synchronisation, the ADIF    *)
(* import and the UDP listener.  A QSO is a record                         *)
(*   bucket   call, band and mode, in capitals                             *)
(*   time     start in seconds, or NoValue if it cannot be parsed          *)
(*   freq     frequency in kHz, or NoValue                                 *)
(*   station  the station call, or NoStation                               *)
(***************************************************************************)
EXTENDS Integers, Sequences

CONSTANTS ToleranceSeconds, FrequencyTolerance,
          FuzzyBuckets,      \* buckets whose mode is a WSJT-family mode
          NoStation

ASSUME ToleranceAssumption ==
    ToleranceSeconds \in Nat /\ FrequencyTolerance \in Nat

NoValue == -1

Distance(a, b) == IF a < b THEN b - a ELSE a - b

StationCompatible(left, right) ==
    NoStation \in {left.station, right.station} \/ left.station = right.station

FrequencyCompatible(left, right) ==
    \/ NoValue \in {left.freq, right.freq}
    \/ Distance(left.freq, right.freq) <= FrequencyTolerance

StrictSameContact(left, right) ==
    left.time = right.time /\ left.freq = right.freq

(* What QsoMatcher.find accepts as the same contact.                       *)
SameContact(qso, candidate) ==
    /\ qso.bucket = candidate.bucket
    /\ StationCompatible(qso, candidate)
    /\ IF qso.bucket \notin FuzzyBuckets THEN StrictSameContact(qso, candidate)
       ELSE /\ FrequencyCompatible(qso, candidate)
            /\ IF NoValue \in {qso.time, candidate.time}
               THEN StrictSameContact(qso, candidate)
               ELSE Distance(qso.time, candidate.time) <= ToleranceSeconds

(* matcher.find(qso) is not None, for a matcher filled with a set of QSOs. *)
Known(qsos, qso) == \E candidate \in qsos : SameContact(qso, candidate)
=============================================================================
