--------------------------- MODULE UpstreamProbe ---------------------------
(***************************************************************************)
(* What a probe learns of an upstream (internal/upstreamprobe/probe.go):   *)
(* the stages of Run, the one retry of doProbeRequest, and the difference  *)
(* between an answer that settles a stage and one that leaves it open.     *)
(*                                                                         *)
(* The bodies that are sent and the way a good answer is recognised are    *)
(* left out: an upstream able to do what a stage asks gives an answer the  *)
(* stage accepts (a completed stream, the forced call of probe_tool, a     *)
(* text, JSON with ok), another one a refusal (400, 404, 405, 422) or an   *)
(* answer that lacks it.                                                   *)
(***************************************************************************)
EXTENDS Integers

ResponsesStages ==
  {"responses_stream", "responses_tools", "responses_tool_stream", "responses_tool_continuation"}
ChatStages == {"chat_stream", "chat_tools", "chat_tool_stream"}
OptionalStages == {"responses_options", "responses_structured_output"}

\* What is asked of the model; Run asks for the list of the models before.
ModelStages == ResponsesStages \cup ChatStages \cup OptionalStages
Stages == {"models"} \cup ModelStages

\* What the upstream can do; it cannot go on from a call it does not make.
Abilities ==
  {able \in SUBSET ModelStages :
     "responses_tool_continuation" \in able => "responses_tools" \in able}

\* How one request ends: with the answer the upstream has for it, with a 408,
\* 425, 429 or 5xx, with a 401 or 403, with an error of the network, or with a
\* body that breaks off.
Replies == {"answer", "busy", "denied", "network", "cut"}

\* The two requests doProbeRequest may make in every stage.
Exchanges == [Stages -> [1..2 -> Replies]]

shouldRetryProbe(reply) == reply \in {"busy", "network"}

doProbeRequest(replies) ==
  IF shouldRetryProbe(replies[1]) THEN replies[2] ELSE replies[1]

\* Mutant: an upstream that is busy counts as one that refuses.
DoubtfulUnlessBusy(reply) == reply \in {"denied", "network"}

\* A body that breaks off gives an io.ErrUnexpectedEOF or a JSON error, which is
\* no net.Error: it settles the stage.
isInconclusiveError(reply) == reply \in {"busy", "denied", "network"}

\* Run.  The continuation is asked only with a call to go on from; "torn" only
\* says, for the properties, that a body broke off.
Run(able, exchange) ==
  LET last(s) == doProbeRequest(exchange[s])
      passes(s) == last(s) = "answer" /\ (s = "models" \/ s \in able)
      asked == IF passes("responses_tools") THEN Stages
               ELSE Stages \ {"responses_tool_continuation"}
  IN [passed |-> {s \in asked \cap ModelStages : passes(s)},
      doubts |-> {s \in asked : isInconclusiveError(last(s))},
      torn |-> \E s \in asked : last(s) = "cut"]

ResponsesReady(passed) == ResponsesStages \subseteq passed
ChatReady(passed) == ChatStages \subseteq passed

\* The model is always given by the callers whose result is stored.
Cacheable(result) == result.doubts = {}

RecommendedProtocol(passed) ==
  IF ResponsesReady(passed) THEN "responses" ELSE "chat_completions"
=============================================================================
