-------------------------- MODULE MCCapabilities --------------------------
(* Instances of Capabilities for TLC. *)
EXTENDS Capabilities

OneModel == {"m"}
NoNative == {}
OneGuess == [m \in {"m"} |-> "kimi"]
TwoSlugs == {"s", "t"}
OneSlot == [m \in {"m"} |-> "t"]

ByHand(base, key, discovery, profile) ==
  [provider |-> [base |-> base, key |-> key, type |-> "openai_compatible",
                 protocol |-> "auto", profile |-> "kimi"],
   discovery |-> discovery,
   models |-> [s \in {"s"} |-> [upstream |-> "m", profile |-> profile, mode |-> Unset,
                                options |-> Unset, structured |-> Unset]],
   probed |-> "m", day |-> 0]

\* The address, the key, or the profile of the model and the mode of discovery
\* are edited.
Edited ==
  {ByHand("a", "k", "merge", "kimi"), ByHand("b", "k", "merge", "kimi"),
   ByHand("a", "l", "merge", "kimi"), ByHand("a", "k", "upstream", "deepseek")}

Sides == {<<"a", "k">>, <<"b", "k">>, <<"a", "l">>}

Everything == ModelStages
OnlyChat == ChatStages
Neither == {}
Ways == {Everything, OnlyChat, Neither}

\* One address and key give everything, the other address gives Chat, the other
\* key nothing.
Differing ==
  {[e \in Sides |-> CASE e = <<"a", "k">> -> Everything
                     [] e = <<"b", "k">> -> OnlyChat
                     [] e = <<"a", "l">> -> Neither]}

\* A record of another build that fits the configuration and is wrong.
LeftOver ==
  {EmptyCache,
   [m \in OneModel |->
      [at |-> <<"a", "k">>, profiles |-> {"kimi"}, provider |-> <<"openai_compatible", "auto">>,
       current |-> FALSE, day |-> 1, passed |-> Everything, protocol |-> "responses",
       torn |-> FALSE]]}

NoProfile == {Unset}

\* Everything is answered, or one stage meets a bad end.
Fine == [s \in Stages |-> <<"answer", "answer">>]
With(stage, first, second) == [Fine EXCEPT ![stage] = <<first, second>>]
Faulty ==
  {Fine, With("responses_tools", "busy", "answer"), With("responses_tools", "busy", "busy"),
   With("responses_options", "denied", "answer"), With("responses_stream", "cut", "answer"),
   With("models", "network", "network")}
=============================================================================
