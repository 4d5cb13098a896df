---------------------------- MODULE MCWsjtxSync -----------------------------
(* Instances of WsjtxSync for TLC. *)
EXTENDS WsjtxSync

CONSTANTS ft8, ssb, mine, other, none

Contact(b, t, f, s) == [bucket |-> b, time |-> t, freq |-> f, station |-> s, valid |-> TRUE]

(* Three final exchanges of one FT8 contact, the first and the last more   *)
(* than the tolerance apart; the same for another station; a record of     *)
(* WSJT-X that is not valid.                                               *)
SomeContacts ==
    {Contact(ft8, 0, 74, none), Contact(ft8, 60, 74, mine), Contact(ft8, 120, 79, none),
     Contact(ft8, 60, 74, other),
     [Contact(ssb, 60, 200, none) EXCEPT !.valid = FALSE]}
=============================================================================
