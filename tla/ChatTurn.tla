------------------------------ MODULE ChatTurn ------------------------------
(***************************************************************************)
(* One streamed turn of the Chat Completions mode when the bridge offers   *)
(* tools it handles itself (streamInternalToolResponse in                  *)
(* internal/server/internal_stream.go): rounds of upstream streaming, the  *)
(* visible narrative captured between rounds, the task termination         *)
(* protocol with its single hidden retry, the follow-ups for web searches  *)
(* and unusable text edits, and the events Codex receives.                 *)
(*                                                                         *)
(* Deltas after the first of an item only extend its text, and heartbeats  *)
(* repeat response.in_progress: neither changes what is modelled.  Tool    *)
(* calls of a round carry the upstream's dense numbering from zero.        *)
(***************************************************************************)
EXTENDS Integers, Sequences

CONSTANTS
  ExplicitTaskEnd,          \* toolCtx.Has(TaskEndToolName)
  MaxInternalToolRounds,    \* const maxInternalToolRounds
  MaxTaskProtocolRetries,   \* const maxTaskProtocolRetries
  Texts,                    \* what the model may say or give as a result
  CallKinds,                \* tools the model calls in this instance
  MaxCalls,                 \* bound: tool calls of one upstream round
  CanonicalOrder            \* upstream streams reasoning, text, then calls

\* The tools of a turn by what the bridge does with their calls: Codex runs
\* "work"; the bridge runs "web" searches and answers an "editor" call whose
\* arguments are unusable; "end" and "badend" call the task end tool with
\* valid and invalid arguments.
AllCallKinds == {"work", "web", "editor", "end", "badend"}
EndKinds == {"end", "badend"}
InternalKinds == {"web", "editor"}

ASSUME ChatConstants ==
  /\ ExplicitTaskEnd \in BOOLEAN
  /\ CanonicalOrder \in BOOLEAN
  /\ MaxInternalToolRounds \in Nat
  /\ MaxTaskProtocolRetries \in Nat
  /\ MaxCalls \in Nat
  /\ {"none", "tool output"} \cap Texts = {}
  /\ CallKinds \subseteq AllCallKinds
  /\ ~ExplicitTaskEnd => CallKinds \cap EndKinds = {}

VARIABLES
  pc,                    \* where the handler is
  round,                 \* streamState of the current upstream round
  trace,                 \* internalToolTrace.items
  sequence,              \* upstream rounds after the initial one
  taskProtocolRetries,
  canceled,              \* Codex closed the connection: r.Context() is done
  wire                   \* what has been written to Codex

vars == <<pc, round, trace, sequence, taskProtocolRetries, canceled, wire>>

NoText == "none"
ToolText == "tool output"

\* An item id: its prefix and the numbers it is built from.
ItemIds == [prefix : {"msg", "rs", "call", "fco"}, n : Nat, k : Nat]
ItemId(prefix, n, k) == [prefix |-> prefix, n |-> n, k |-> k]

ItemTypes == {"reasoning", "message", "search", "function_call", "task_end"}
Items == [id : ItemIds, type : ItemTypes, text : Texts \cup {NoText, ToolText}]
Item(id, type, text) == [id |-> id, type |-> type, text |-> text]

\* A call; only valid arguments of the end tool carry a result.
Calls == [kind : AllCallKinds, result : Texts \cup {NoText}]
OfferedCalls ==
  {[kind |-> kind, result |-> NoText] : kind \in CallKinds \ {"end"}} \cup
  {[kind |-> kind, result |-> text] : kind \in CallKinds \cap {"end"}, text \in Texts}

Places == [id : ItemIds, index : Nat]

-----------------------------------------------------------------------------
(* streamState                                                             *)

\* A round whose item ids end in suffix and whose items start at index.
EmptyRound(suffix, index, emitEvents) ==
  [ emitEvents |-> emitEvents,
    textItemID |-> ItemId("msg", suffix, 0),
    reasoningItemID |-> ItemId("rs", suffix, 0),
    nextOutputIndex |-> index,
    textAdded |-> FALSE,
    reasoningAdded |-> FALSE,
    narrative |-> <<>>,     \* reasoning and message, by reserved index
    items |-> <<>>,         \* what Done() returns, by reserved index
    searches |-> <<>>,      \* what internalToolTrace.emit adds
    calls |-> <<>> ]        \* chatMessageFromStreamState(...).ToolCalls

\* Mutants: output indexes restart at zero; ids are never suffixed.
NewRoundFromZero(offset, emitEvents) == EmptyRound(offset, 0, emitEvents)
NewRoundPlainIDs(offset, emitEvents) == EmptyRound(0, offset, emitEvents)

\* Ids are suffixed with the offset once an earlier round left items behind.
NewRound(offset, emitEvents) == EmptyRound(offset, offset, emitEvents)

Rounds ==
  [ emitEvents : BOOLEAN, textItemID : ItemIds, reasoningItemID : ItemIds,
    nextOutputIndex : Nat, textAdded : BOOLEAN, reasoningAdded : BOOLEAN,
    narrative : Seq(Items), items : Seq(Items), searches : Seq(Items),
    calls : Seq(Calls) ]

EventsEmitted(r) == r.emitEvents /\ (r.textAdded \/ r.reasoningAdded)

\* Mutant: searches are left for Codex to run.
ToolCallItemUnresolved(call, k) ==
  Item(ItemId("call", sequence, k),
       IF call.kind = "web" THEN "web_search_call" ELSE "function_call", NoText)

\* responseItemFromToolCall, through localToolResultResolver for searches.
ToolCallItem(call, k) ==
  Item(ItemId("call", sequence, k),
       CASE call.kind = "work" -> "function_call"
         [] call.kind \in EndKinds -> "task_end"
         [] call.kind \in InternalKinds -> "message",
       IF call.kind \in InternalKinds THEN ToolText ELSE NoText)

\* Mutant: an answer without tool calls is taken for a finished turn.
VerdictPlainText(r) == IF r.calls = <<>> THEN "work" ELSE "ended"

\* chatTaskEndResult
Verdict(r) ==
  LET ends == {k \in 1..Len(r.calls) : r.calls[k].kind \in EndKinds}
      others == {k \in 1..Len(r.calls) : r.calls[k].kind \notin EndKinds}
  IN IF ~ExplicitTaskEnd THEN "work"
     ELSE IF \E i, j \in ends : i # j THEN "violation"
     ELSE IF others # {} THEN "work"
     ELSE IF \E k \in ends : r.calls[k].kind = "end" THEN "ended"
     ELSE "violation"

TaskResult(r) == r.calls[1].result

\* internalToolFollowUpRequest: all calls must be the bridge's own.
NeedsFollowUp(r) ==
  /\ r.calls # <<>>
  /\ \A k \in 1..Len(r.calls) : r.calls[k].kind \in InternalKinds

-----------------------------------------------------------------------------
(* Events written to Codex                                                 *)

\* Items announced (output_item.added) and announced again, items finished
\* (output_item.done) with the index of their event, and the terminal event.
Wires ==
  [ announced : SUBSET Places, reannounced : SUBSET Places,
    finished : Seq([item : Items, index : Nat]), output : Seq(Items),
    terminal : {"none", "completed", "failed"} ]

Announce(w, places) ==
  [w EXCEPT !.announced = @ \cup places,
            !.reannounced = @ \cup (places \cap w.announced)]

\* Items whose output_item.added event was sent while they streamed.
KnownIds(r) ==
  IF EventsEmitted(r) THEN {r.textItemID, r.reasoningItemID} ELSE {}

\* outputDoneEvents of items placed from offset on: one is announced first
\* unless it is known, then finished.
DoneEvents(items, offset) ==
  [k \in 1..Len(items) |-> [item |-> items[k], index |-> offset + k - 1]]
UnknownPlaces(items, offset, known) ==
  {[id |-> items[k].id, index |-> offset + k - 1] :
     k \in {j \in 1..Len(items) : items[j].id \notin known}}
EmitDone(w, items, offset, known) ==
  [Announce(w, UnknownPlaces(items, offset, known)) EXCEPT
     !.finished = @ \o DoneEvents(items, offset)]

\* internalToolTrace.captureNarrative
NarrativeWire == EmitDone(wire, round.narrative, Len(trace), KnownIds(round))
NarrativeTrace == trace \o round.narrative

\* The captured narrative, then internalToolTrace.emit of the searches.
ToolsWire ==
  IF EventsEmitted(round)
  THEN EmitDone(NarrativeWire, round.searches, Len(NarrativeTrace), {})
  ELSE EmitDone(wire, round.searches, Len(trace), {})
ToolsTrace ==
  (IF EventsEmitted(round) THEN NarrativeTrace ELSE trace) \o round.searches

\* Mutant: the items of earlier rounds are missing from the final output.
CompletedLastRound(w, tr, items, known) ==
  [EmitDone(w, items, Len(tr), known) EXCEPT
     !.terminal = "completed", !.output = items]

\* The end of streamInternalToolResponse after a final state with the items.
Completed(w, tr, items, known) ==
  [EmitDone(w, items, Len(tr), known) EXCEPT
     !.terminal = "completed", !.output = tr \o items]

\* The end of streamInternalToolResponse after an error.  requestCanceled
\* takes a timeout of the upstream client for Codex having left: both are
\* context.DeadlineExceeded.
Failed(w, failure) ==
  IF canceled \/ failure = "timeout" THEN w ELSE [w EXCEPT !.terminal = "failed"]

-----------------------------------------------------------------------------
(* streamVisibleMessage                                                    *)

Init ==
  /\ pc = "open"
  /\ round = NewRound(0, TRUE)
  /\ trace = <<>>
  /\ sequence = 0
  /\ taskProtocolRetries = 0
  /\ canceled = FALSE
  /\ wire = [announced |-> {}, reannounced |-> {}, finished |-> <<>>,
             output |-> <<>>, terminal |-> "none"]

\* provider.Stream returned a stream; an already done context fails it.
Open ==
  /\ pc = "open" /\ ~canceled
  /\ pc' = "stream"
  /\ UNCHANGED <<round, trace, sequence, taskProtocolRetries, canceled, wire>>

\* provider.Stream failed, or the stream delivered an error.
UpstreamError(failure) ==
  /\ pc \in {"open", "stream"}
  /\ pc' = "end"
  /\ wire' = Failed(wire, failure)
  /\ UNCHANGED <<round, trace, sequence, taskProtocolRetries, canceled>>

\* Codex closes the connection.
Cancel ==
  /\ pc # "end" /\ ~canceled
  /\ canceled' = TRUE
  /\ UNCHANGED <<pc, round, trace, sequence, taskProtocolRetries, wire>>

\* The select on r.Context().Done() wins; chunks may still win before it.
ContextDone ==
  /\ pc \in {"open", "stream"} /\ canceled
  /\ pc' = "end"
  /\ UNCHANGED <<round, trace, sequence, taskProtocolRetries, canceled, wire>>

\* The stream's terminal event, or its channel closed.
StreamDone ==
  /\ pc = "stream"
  /\ pc' = "decide"
  /\ UNCHANGED <<round, trace, sequence, taskProtocolRetries, canceled, wire>>

\* AddChunk announces an item when its first delta arrives.
AnnounceNext(id) ==
  wire' = IF round.emitEvents
          THEN Announce(wire, {[id |-> id, index |-> round.nextOutputIndex]})
          ELSE wire

\* The first reasoning delta.  White space reserves an index and announces
\* an item that reasoningItem then leaves out.
AddReasoning(blank) ==
  /\ pc = "stream" /\ ~round.reasoningAdded
  /\ CanonicalOrder => ~blank /\ ~round.textAdded /\ round.calls = <<>>
  /\ LET kept == IF blank THEN <<>>
                 ELSE <<Item(round.reasoningItemID, "reasoning", NoText)>>
     IN round' = [round EXCEPT !.reasoningAdded = TRUE,
                               !.nextOutputIndex = @ + 1,
                               !.narrative = @ \o kept,
                               !.items = @ \o kept]
  /\ AnnounceNext(round.reasoningItemID)
  /\ UNCHANGED <<pc, trace, sequence, taskProtocolRetries, canceled>>

\* The first content delta of a message that will read text.
AddText(text) ==
  /\ pc = "stream" /\ ~round.textAdded
  /\ CanonicalOrder => round.calls = <<>>
  /\ LET message == Item(round.textItemID, "message", text)
     IN round' = [round EXCEPT !.textAdded = TRUE,
                               !.nextOutputIndex = @ + 1,
                               !.narrative = Append(@, message),
                               !.items = Append(@, message)]
  /\ AnnounceNext(round.textItemID)
  /\ UNCHANGED <<pc, trace, sequence, taskProtocolRetries, canceled>>

\* The delta naming the next tool call: it reserves an index, silently.
AddCall(call) ==
  /\ pc = "stream" /\ Len(round.calls) < MaxCalls
  /\ LET k == Len(round.calls) + 1
         search == Item(ItemId("fco", sequence, k), "search", NoText)
     IN round' = [round EXCEPT !.nextOutputIndex = @ + 1,
                               !.calls = Append(@, call),
                               !.items = Append(@, ToolCallItem(call, k)),
                               !.searches = IF call.kind = "web"
                                            THEN Append(@, search) ELSE @]
  /\ UNCHANGED <<pc, trace, sequence, taskProtocolRetries, canceled, wire>>

-----------------------------------------------------------------------------
(* The loop of streamInternalToolRounds, once a round has been read        *)

\* Mutant: text shown before a correction is dropped from the output.
ViolationTraceDropped == trace

\* captureNarrative before a first correction, if anything was streamed.
ViolationTrace ==
  IF taskProtocolRetries = 0 /\ EventsEmitted(round) THEN NarrativeTrace ELSE trace
ViolationWire ==
  IF taskProtocolRetries = 0 /\ EventsEmitted(round) THEN NarrativeWire ELSE wire

\* Another request asks for a correction, its narrative hidden from Codex.
AskCorrection(count) ==
  /\ trace' = ViolationTrace
  /\ wire' = ViolationWire
  /\ taskProtocolRetries' = taskProtocolRetries + count
  /\ sequence' = sequence + count
  /\ round' = NewRound(Len(ViolationTrace), FALSE)
  /\ pc' = "open"
  /\ UNCHANGED canceled

\* Mutants: the correction is repeated; the correction is not counted.
TaskProtocolRetryAgain ==
  pc = "decide" /\ Verdict(round) = "violation" /\ AskCorrection(1)
TaskProtocolRetryUncounted ==
  /\ pc = "decide" /\ Verdict(round) = "violation"
  /\ taskProtocolRetries < MaxTaskProtocolRetries
  /\ AskCorrection(0)

TaskProtocolRetry ==
  /\ pc = "decide" /\ Verdict(round) = "violation"
  /\ taskProtocolRetries < MaxTaskProtocolRetries
  /\ AskCorrection(1)

TaskProtocolViolation ==
  /\ pc = "decide" /\ Verdict(round) = "violation"
  /\ taskProtocolRetries >= MaxTaskProtocolRetries
  /\ trace' = ViolationTrace
  /\ wire' = Failed(ViolationWire, "bridge")
  /\ pc' = "end"
  /\ UNCHANGED <<round, sequence, taskProtocolRetries, canceled>>

\* Mutant: the result is emitted whether or not it was shown.
ResultItemsAlways(tr, result) == <<Item(ItemId("msg", 0, 0), "message", result)>>

\* taskEndResultToEmit: a result Codex has already seen is not repeated.
ResultItems(tr, result) ==
  IF \E k \in 1..Len(tr) : tr[k].text = result THEN <<>>
  ELSE <<Item(ItemId("msg", 0, 0), "message", result)>>

\* A valid end of the task: its result becomes the final message.
EndTask ==
  /\ pc = "decide" /\ Verdict(round) = "ended"
  /\ LET capture == round.textAdded \/ round.reasoningAdded
         tr == IF capture THEN NarrativeTrace ELSE trace
         w == IF capture THEN NarrativeWire ELSE wire
     IN /\ trace' = tr
        /\ wire' = Completed(w, tr, ResultItems(tr, TaskResult(round)), {})
  /\ pc' = "end"
  /\ UNCHANGED <<round, sequence, taskProtocolRetries, canceled>>

\* All calls are the bridge's own: the model gets their results.
AskFollowUp ==
  /\ trace' = ToolsTrace
  /\ wire' = ToolsWire
  /\ sequence' = sequence + 1
  /\ round' = NewRound(Len(ToolsTrace), TRUE)
  /\ pc' = "open"
  /\ UNCHANGED <<taskProtocolRetries, canceled>>

InternalToolFollowUp ==
  /\ pc = "decide" /\ Verdict(round) = "work" /\ NeedsFollowUp(round)
  /\ sequence < MaxInternalToolRounds
  /\ AskFollowUp

InternalToolRoundsExceeded ==
  /\ pc = "decide" /\ Verdict(round) = "work" /\ NeedsFollowUp(round)
  /\ sequence >= MaxInternalToolRounds
  /\ trace' = ToolsTrace
  /\ wire' = Failed(ToolsWire, "bridge")
  /\ pc' = "end"
  /\ UNCHANGED <<round, sequence, taskProtocolRetries, canceled>>

\* The round is the final state of the turn.
ReturnFinal ==
  /\ pc = "decide" /\ Verdict(round) = "work" /\ ~NeedsFollowUp(round)
  /\ wire' = Completed(wire, trace, round.items, KnownIds(round))
  /\ pc' = "end"
  /\ UNCHANGED <<round, trace, sequence, taskProtocolRetries, canceled>>

Chunk ==
  \/ \E blank \in BOOLEAN : AddReasoning(blank)
  \/ \E text \in Texts : AddText(text)
  \/ \E call \in OfferedCalls : AddCall(call)

Decide ==
  \/ TaskProtocolRetry
  \/ TaskProtocolViolation
  \/ EndTask
  \/ InternalToolFollowUp
  \/ InternalToolRoundsExceeded
  \/ ReturnFinal

Errors == \E failure \in {"upstream", "timeout"} : UpstreamError(failure)

Upstream == Open \/ Errors \/ ContextDone \/ StreamDone

Next == Cancel \/ Upstream \/ Chunk \/ Decide

Spec == Init /\ [][Next]_vars

\* The handler's goroutine is scheduled, and the upstream client's timeout of
\* ten minutes ends every call that the upstream does not end.
FairSpec == Spec /\ WF_vars(Upstream) /\ WF_vars(Decide)

-----------------------------------------------------------------------------
(* Properties                                                              *)

\* All variables stay in their types.
TypeOK ==
  /\ pc \in {"open", "stream", "decide", "end"}
  /\ round \in Rounds
  /\ trace \in Seq(Items)
  /\ sequence \in Nat
  /\ taskProtocolRetries \in Nat
  /\ canceled \in BOOLEAN
  /\ wire \in Wires

\* The cost of a turn: however the model behaves, streamInternalToolRounds
\* asks upstream at most 1 + maxInternalToolRounds + maxTaskProtocolRetries
\* times, although the correction is issued without a look at the counter it
\* shares with the follow-ups.
RoundsBounded ==
  /\ taskProtocolRetries <= MaxTaskProtocolRetries
  /\ sequence <= MaxInternalToolRounds + taskProtocolRetries

\* Plain text never ends a task: a turn that completes under the protocol
\* either got a valid end of the task or hands Codex a call.
PlainTextNeverCompletes ==
  wire.terminal = "completed" /\ ExplicitTaskEnd
    => \/ Verdict(round) = "ended"
       \/ round.calls # <<>>

\* The output array of response.completed is what was streamed: its k-th item
\* is the k-th to be finished, at output index k - 1, across all rounds, the
\* hidden correction and the synthesized result.
StreamMatchesOutput ==
  wire.terminal = "completed" =>
    wire.finished = DoneEvents(wire.output, 0)

\* Every item of a completed turn was announced once, where it finished; an
\* announcement made while a round streamed is never left open, although
\* captureNarrative numbers the items again from the trace's length.
AnnouncedWhereFinished ==
  wire.terminal = "completed" =>
    /\ wire.announced = {[id |-> wire.finished[k].item.id,
                          index |-> wire.finished[k].index] :
                            k \in 1..Len(wire.finished)}
    /\ wire.reannounced = {}

\* Narrative Codex has started to show is in the output it is left with: text
\* streamed before a correction, a follow-up or the end is never dropped.
NarrativeKept ==
  wire.terminal = "completed" =>
    \A p \in wire.announced :
      p.id.prefix = "msg" =>
        \E k \in 1..Len(wire.output) : wire.output[k].id = p.id

\* The result of a finished task reaches Codex, and a result that the model
\* had already shown as its text is not shown a second time by the bridge.
ResultShownOnce ==
  wire.terminal = "completed" /\ ExplicitTaskEnd /\ Verdict(round) = "ended" =>
    LET shown == {k \in 1..Len(wire.output) : wire.output[k].text = TaskResult(round)}
    IN /\ shown # {}
       /\ \A k \in shown :
            k > Len(trace) => \A i \in shown : i = k

\* Items of one completed response share no id, whatever earlier rounds left
\* behind.  The one exception is the message that is made from the result of a
\* finished task: it is msg_<request id>, as is the text of the first round.
ItemIdsUnique ==
  \A i, j \in 1..Len(wire.output) :
    i < j /\ wire.output[i].id = wire.output[j].id =>
      Verdict(round) = "ended" /\ j > Len(trace)

\* A turn's stream stops without a terminal event only when it was given up:
\* Codex has left, or the upstream client's own timeout expired.
SilentOnlyWhenGivenUp ==
  [][pc # "end" /\ pc' = "end" /\ wire'.terminal = "none"
       => canceled \/ UpstreamError("timeout")]_vars

\* The internal end tool is never shown to Codex (docs/configuration.md:162).
TaskEndHidden ==
  \A k \in 1..Len(wire.finished) : wire.finished[k].item.type # "task_end"

\* What Codex is told is final: after a terminal event nothing is written,
\* and no event written is ever taken back.
WireAppendOnly ==
  [][/\ wire.terminal = "none"
     /\ wire.announced \subseteq wire'.announced
     /\ Len(wire.finished) <= Len(wire'.finished)
     /\ \A k \in 1..Len(wire.finished) : wire'.finished[k] = wire.finished[k]]_wire

\* Every turn ends, with a terminal event unless it was given up.
TurnEnds == <>(pc = "end")

-----------------------------------------------------------------------------
(* The turn keeps the contract of TurnContract                             *)

Phase ==
  IF pc # "end" THEN "running"
  ELSE IF wire.terminal = "none" THEN "dropped" ELSE wire.terminal
Answer == IF pc = "decide" \/ wire.terminal = "completed" THEN Verdict(round) ELSE "pending"

Contract == INSTANCE TurnContract WITH
  phase <- Phase,
  answer <- Answer,
  followUps <- sequence - taskProtocolRetries,
  corrections <- taskProtocolRetries

KeepsContract == Contract!ContractSpec
=============================================================================
