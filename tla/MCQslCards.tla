------------------------------ MODULE MCQslCards ------------------------------
(* Instances of QslCards for TLC. *)
EXTENDS QslCards

CONSTANTS q1, q2, a, b, c

Content(identity, text) == [identity |-> identity, text |-> text, valid |-> TRUE]

(* A QSO that an import has accepted without a station call.               *)
Unprepared(identity) == [identity |-> identity, text |-> 0, valid |-> FALSE]

(* The first QSO may be corrected, in a detail or in what makes up its     *)
(* identity; the second one may be one that cannot be prepared.            *)
TwoQsos ==
    [id \in {q1, q2} |->
        IF id = q1 THEN {Content(a, 1), Content(a, 2), Content(c, 1)}
        ELSE {Content(b, 1), Unprepared(b)}]

SomeRecipients == [u \in {a, b, c} |-> IF u = a THEN "email" ELSE IF u = b THEN "error" ELSE "not_found"]
=============================================================================
