--------------------------- MODULE MCAppLifecycle ---------------------------
(* Instances of AppLifecycle for TLC. *)
EXTENDS AppLifecycle, TLC

Anything == BOOLEAN
On == {TRUE}
Off == {FALSE}
Symmetry == Permutations(Qsos)
=============================================================================
