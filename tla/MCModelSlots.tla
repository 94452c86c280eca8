---------------------------- MODULE MCModelSlots ----------------------------
(* Instances of ModelSlots for TLC: three slots, and ids of which the first *)
(* two prefer a slot. *)
EXTENDS ModelSlots

TwoProviders == <<"p", "q">>
ThreeIDs == <<"kimi", "mimo", "other">>
ThreeSlots == <<"s1", "s2", "s3">>
PreferredSlots ==
  [id \in {"kimi", "mimo", "other"} |->
     CASE id = "kimi" -> "s1" [] id = "mimo" -> "s2" [] OTHER -> "none"]
OneHandWritten ==
  [s \in {"s1", "s2", "s3"} |->
     IF s = "s2" THEN [provider |-> "q", id |-> "other"]
     ELSE [provider |-> "none", id |-> "none"]]
=============================================================================
