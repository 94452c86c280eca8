-------------------------- MODULE MCProjectedTurn --------------------------
(* Instances of ProjectedTurn for TLC. *)
EXTENDS ProjectedTurn

TwoTexts == {"a", "b"}
OnlyA == {"a"}
=============================================================================
