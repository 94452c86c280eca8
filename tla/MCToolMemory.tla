---------------------------- MODULE MCToolMemory ----------------------------
(* Instances of ToolMemory for TLC: calls of one tool, x; y is exec_command. *)
EXTENDS ToolMemory

CONSTANTS s1, s2, c1, c2, x, y
TwoSessions == {s1, s2}
TwoCalls == {c1, c2}
TwoSignatures == {x, y}
Signed == [c \in Calls |-> x]
FirstCall == {c1}

\* Sessions are alike.
Alike == Permutations({s1, s2})
=============================================================================
