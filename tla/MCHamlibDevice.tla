-------------------------- MODULE MCHamlibDevice --------------------------
(* A small instance of HamlibDevice for TLC. *)
EXTENDS HamlibDevice

ThreeSlots == {1, 2, 3}

\* Nothing was ever installed; a release was, over the version that came along.
FreshOrUpdated ==
    {[current |-> Absent, backup |-> Absent, swap |-> Absent],
     [current |-> Bundled + 1, backup |-> Bundled, swap |-> Absent]}
=============================================================================
