---------------------------- MODULE MCStateFile ----------------------------
(* Instances of StateFile for TLC. *)
EXTENDS StateFile

CONSTANTS p1, p2, k1, k2

TwoProcesses == {p1, p2}
TwoKeys == {k1, k2}
=============================================================================
