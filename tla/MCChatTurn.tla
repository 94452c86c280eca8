----------------------------- MODULE MCChatTurn -----------------------------
(* Instances of ChatTurn for TLC. *)
EXTENDS ChatTurn

TwoTexts == {"a", "b"}
OneText == {"a"}
MixedKinds == {"work", "web", "end"}
=============================================================================
