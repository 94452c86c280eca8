---------------------------- MODULE ProjectedTurn ----------------------------
(***************************************************************************)
(* One turn of the Projected Responses mode                                *)
(* (internal/server/projected_responses.go), streamed or not.  Streamed    *)
(* (streamProjectedResponses), the upstream Responses stream is projected  *)
(* event by event onto one response with output indexes of its own, across *)
(* follow-ups for web searches, the hidden correction of the task protocol *)
(* and the repair of a structured output.  Not streamed                    *)
(* (forwardProjectedResponses), every upstream answer arrives whole and    *)
(* only the last one is returned, whatever its status says.                *)
(*                                                                         *)
(* Reasoning items take the path of messages and are left out.  A stored   *)
(* call stands for what projectFunctionCallItem makes of it, and upstream's *)
(* item ids are unique across its responses.                               *)
(***************************************************************************)
EXTENDS Integers, Sequences

CONSTANTS
  MaxInternalToolRounds,    \* const maxInternalToolRounds
  MaxTaskProtocolRetries,   \* const maxTaskProtocolRetries
  Texts,                    \* what the model may say or give as a result
  ValidTexts,               \* texts that satisfy the requested schema
  MaxItems,                 \* bound: items of one upstream response
  MaxOmissions              \* bound: items of a turn of which upstream leaves out
                            \* events; response.completed lists them all the same

ASSUME ProjectedConstants ==
  /\ MaxInternalToolRounds \in Nat
  /\ MaxTaskProtocolRetries \in Nat
  /\ MaxItems \in Nat
  /\ MaxOmissions \in Nat
  /\ ValidTexts \subseteq Texts
  /\ "none" \notin Texts

\* "protocol": the task protocol is in force (explicitTaskEnd); "structured":
\* the bridge enforces a schema (structuredOutputFallback); never both.
Modes == {"protocol", "plain", "structured"}

VARIABLES
  mode,                  \* what the request asks for
  streamed,              \* req.Stream
  followUps,             \* not streamed: requests of resolveProjectedInternalTools
                         \* so far, which each correction calls anew
  pc,                    \* where the handler is
  round,                 \* projectedStreamRound and what upstream has sent
  slots,                 \* projectedStreamState.items
  keys,                  \* projectedStreamState.itemIndexes
  sequence,
  taskProtocolRetries,
  omissions,             \* items of which upstream has left out events
  canceled,              \* Codex closed the connection
  wire                   \* what has been written to Codex

vars == <<mode, streamed, followUps, pc, round, slots, keys, sequence, taskProtocolRetries, omissions, canceled, wire>>

NoText == "none"
CallKinds == {"work", "web", "end", "badend"}
EndKinds == {"end", "badend"}
InternalKinds == {"web", "end", "badend"}

Ids == [round : Nat, k : Nat]
Items == [id : Ids, kind : CallKinds \cup {"message", "blank"}, text : Texts \cup {NoText}]
Item(id, kind, text) == [id |-> id, kind |-> kind, text |-> text]

\* A slot reserved for an item of which only a delta has arrived.
Blank == Item([round |-> 0, k |-> 0], "blank", NoText)

\* What upstream may send: the end tool is offered under the task protocol.
Kinds == {"message", "work", "web"} \cup (IF mode = "protocol" THEN EndKinds ELSE {})
TextsOf(kind) == IF kind \in {"message", "end"} THEN Texts ELSE {NoText}

\* The first event of an item: "added", a "delta" of a message whose "added"
\* was omitted, or "none".  A call for Codex has no event before its last.
FirstEvents(kind) ==
  CASE kind = "work" -> {"none"}
    [] kind = "message" -> {"added", "delta", "none"}
    [] OTHER -> {"added", "none"}

emitOutput == mode # "structured"
emitCalls == emitOutput \/ mode = "protocol"     \* emitOutput || emitWorkTools

NewRound(hideNarrative) ==
  [ hideNarrative |-> hideNarrative, output |-> <<>>, open |-> FALSE, partial |-> FALSE,
    over |-> FALSE, indexes |-> <<>>, hidden |-> {}, cursor |-> 1 ]

Rounds ==
  [ hideNarrative : BOOLEAN, output : Seq(Items), open : BOOLEAN, partial : BOOLEAN,
    over : BOOLEAN,
    indexes : {round.indexes},    \* a partial function, see TypeOK
    hidden : SUBSET (1..MaxItems), cursor : 1..(MaxItems + 1) ]

\* The map with one more entry, as an assignment to a Go map makes it.
WithEntry(map, key, value) ==
  [x \in DOMAIN map \cup {key} |-> IF x = key THEN value ELSE map[x]]

-----------------------------------------------------------------------------
(* Events written to Codex                                                 *)

Wires ==
  [ announced : SUBSET [id : Ids, index : Nat],
    finished : Seq([item : Items, index : Nat]),
    output : Seq(Items), terminals : Seq({"completed", "failed"}) ]

Announce(w, id, index) ==
  [w EXCEPT !.announced = @ \cup {[id |-> id, index |-> index]}]
Finish(w, item, index) ==
  [w EXCEPT !.finished = Append(@, [item |-> item, index |-> index])]

\* outputDoneEvents of an item Codex does not know yet.
EmitItem(w, item, index) == Finish(Announce(w, item.id, index), item, index)

\* emitProjectedResponseItems
EmitItems(w, items) ==
  [w EXCEPT
     !.announced = @ \cup {[id |-> items[k].id, index |-> k - 1] : k \in 1..Len(items)},
     !.finished = @ \o [k \in 1..Len(items) |-> [item |-> items[k], index |-> k - 1]]]

Terminate(w, terminal) == [w EXCEPT !.terminals = Append(@, terminal)]

\* An error of a round; a timeout of the upstream client is taken for Codex
\* having left (requestCanceled).
Failed(w, failure) ==
  IF canceled \/ failure = "timeout" THEN w ELSE Terminate(w, "failed")

\* A turn the bridge gives up.  Not streamed, a client that has left is told
\* nothing.
projectedResponseFailure(failure) ==
  IF streamed THEN Terminate(wire, "failed") ELSE Failed(wire, failure)

Completed(w, output) == [Terminate(w, "completed") EXCEPT !.output = output]

-----------------------------------------------------------------------------
(* projectedTaskEndResult, projectedInternalToolFollowUpRequest and others *)

Calls(output) == {k \in 1..Len(output) : output[k].kind # "message"}
Ends(output) == {k \in Calls(output) : output[k].kind \in EndKinds}

Verdict(output) ==
  IF mode # "protocol" THEN "work"
  ELSE IF \E i, j \in Ends(output) : i # j THEN "violation"
  ELSE IF Calls(output) # Ends(output) THEN "work"
  ELSE IF \E k \in Ends(output) : output[k].kind = "end" THEN "ended"
  ELSE "violation"

TaskResult(output) == output[CHOOSE k \in Ends(output) : TRUE].text

\* A web search and no call for Codex; calls of the end tool are skipped.
NeedsFollowUp(output) ==
  /\ \E k \in 1..Len(output) : output[k].kind = "web"
  /\ \A k \in 1..Len(output) : output[k].kind # "work"

\* projectedResponseAssistantText of the whole turn is exactly the text.
ShownAlone(text) ==
  /\ \E k \in 1..Len(slots) : slots[k].kind = "message" /\ slots[k].text = text
  /\ \A i, j \in 1..Len(slots) :
       slots[i].kind = "message" /\ slots[j].kind = "message" => i = j

\* normalizeStructuredOutputItems: the first message must satisfy the schema.
SatisfiesSchema(items) ==
  \E k \in 1..Len(items) :
    /\ items[k].kind = "message" /\ items[k].text \in ValidTexts
    /\ \A i \in 1..(k - 1) : items[i].kind # "message"

-----------------------------------------------------------------------------
(* streamProjectedResponseRound and handleEvent                            *)

Init ==
  /\ mode \in Modes
  /\ streamed \in BOOLEAN
  /\ followUps = 0
  /\ pc = "open"
  /\ round = NewRound(FALSE)
  /\ slots = <<>>
  /\ keys = <<>>
  /\ sequence = 0
  /\ taskProtocolRetries = 0
  /\ omissions = 0
  /\ canceled = FALSE
  /\ wire = [announced |-> {}, finished |-> <<>>, output |-> <<>>, terminals |-> <<>>]

Open ==
  /\ pc = "open" /\ streamed /\ ~canceled
  /\ pc' = "stream"
  /\ UNCHANGED <<mode, streamed, followUps, round, slots, keys, sequence, taskProtocolRetries, omissions, canceled, wire>>

\* StreamResponse failed, the stream delivered an error, or it ended without
\* response.completed.
UpstreamError(failure) ==
  /\ pc \in {"open", "stream"}
  /\ pc' = "end"
  /\ wire' = Failed(wire, failure)
  /\ UNCHANGED <<mode, streamed, followUps, round, slots, keys, sequence, taskProtocolRetries, omissions, canceled>>

Cancel ==
  /\ pc # "end" /\ ~canceled
  /\ canceled' = TRUE
  /\ UNCHANGED <<mode, streamed, followUps, pc, round, slots, keys, sequence, taskProtocolRetries, omissions, wire>>

\* response.failed or response.incomplete is forwarded like any other event;
\* upstream sends nothing after it.
UpstreamFailed ==
  /\ pc \in {"stream", "repair"} /\ streamed /\ ~round.over
  /\ round' = [round EXCEPT !.over = TRUE]
  /\ wire' = Terminate(wire, "failed")
  /\ UNCHANGED <<mode, streamed, followUps, pc, slots, keys, sequence, taskProtocolRetries, omissions, canceled>>

\* Mutant: an item gets a second slot.
SlotOfNew(k) == Len(slots)

\* reserveItem: the slot of an item of this round.
SlotOf(k) == IF k \in DOMAIN round.indexes THEN round.indexes[k] ELSE Len(slots)
Put(item, index) ==
  IF index = Len(slots) THEN Append(slots, item) ELSE [slots EXCEPT ![index + 1] = item]

\* The open item is over without its last event: it counts as one of which
\* upstream left out events, unless its first event was missing already.
LeftOpen == IF round.open /\ ~round.partial THEN 1 ELSE 0

\* The next item appears, with the first event upstream sends for it.
ItemOpens(kind, text, first) ==
  LET k == Len(round.output) + 1
      item == Item([round |-> sequence, k |-> k], kind, text)
      hides == \/ kind \in InternalKinds /\ first = "added"
               \/ kind = "message" /\ round.hideNarrative /\ first # "none"
      partial == kind # "work" /\ first # "added"
      reserves == kind = "message" /\ ~round.hideNarrative /\ first # "none"
  IN /\ pc = "stream" /\ ~round.over /\ k <= MaxItems
     /\ omissions' = omissions + LeftOpen + (IF partial THEN 1 ELSE 0)
     /\ omissions' <= MaxOmissions
     /\ round' = [round EXCEPT
          !.output = Append(@, item),
          !.open = TRUE,
          !.partial = partial,
          !.hidden = IF hides THEN @ \cup {k} ELSE @,
          !.indexes = IF reserves THEN WithEntry(@, k, Len(slots)) ELSE @]
     /\ slots' = IF ~reserves THEN slots
                 ELSE Append(slots, IF first = "added" THEN item ELSE Blank)
     /\ keys' = IF reserves /\ first = "added"
                THEN WithEntry(keys, item.id, Len(slots)) ELSE keys
     /\ wire' = IF reserves /\ first = "added" /\ emitOutput
                THEN Announce(wire, item.id, Len(slots)) ELSE wire
     /\ UNCHANGED <<mode, streamed, followUps, pc, sequence, taskProtocolRetries, canceled>>

\* Mutant: the id is recorded with the index of the next slot.
StoreNext(item, k) ==
  /\ slots' = Put(item, SlotOf(k))
  /\ keys' = IF item.kind = "message" THEN WithEntry(keys, item.id, SlotOf(k) + 1) ELSE keys

\* storeItem and storeProjectedItem; only upstream's own ids are looked up.
Store(item, k) ==
  /\ slots' = Put(item, SlotOf(k))
  /\ keys' = IF item.kind = "message" THEN WithEntry(keys, item.id, SlotOf(k)) ELSE keys

\* Mutant: calls of internal tools are not recognised.
DoneItemUnhidden ==
  LET k == Len(round.output)
      item == round.output[k]
  IN /\ pc = "stream" /\ ~round.over /\ round.open
     /\ round' = [round EXCEPT !.open = FALSE, !.partial = FALSE, !.indexes = WithEntry(@, k, SlotOf(k))]
     /\ Store(item, k)
     /\ wire' = IF emitOutput THEN Finish(wire, item, SlotOf(k)) ELSE wire
     /\ UNCHANGED <<mode, streamed, followUps, pc, sequence, taskProtocolRetries, omissions, canceled>>

\* response.output_item.done.  An item of a hidden round is only skipped when
\* an earlier event of it was.
DoneItem ==
  LET k == Len(round.output)
      item == round.output[k]
      hide == k \in round.hidden \/ item.kind \in InternalKinds
      index == SlotOf(k)
  IN /\ pc = "stream" /\ ~round.over /\ round.open
     /\ round' = [round EXCEPT
          !.open = FALSE, !.partial = FALSE,
          !.hidden = IF hide THEN @ \cup {k} ELSE @,
          !.indexes = IF hide THEN @ ELSE WithEntry(@, k, index)]
     /\ IF hide THEN UNCHANGED <<slots, keys>> ELSE Store(item, k)
     /\ wire' = IF hide \/ ~emitOutput THEN wire
                ELSE IF item.kind = "work" THEN EmitItem(wire, item, index)
                ELSE Finish(wire, item, index)
     /\ UNCHANGED <<mode, streamed, followUps, pc, sequence, taskProtocolRetries, omissions, canceled>>

\* response.completed lists the items.
ResponseCompleted ==
  /\ pc = "stream" /\ ~round.over
  /\ omissions' = omissions + LeftOpen
  /\ omissions' <= MaxOmissions
  /\ pc' = IF round.output = <<>> THEN "decide" ELSE "absorb"
  /\ UNCHANGED <<mode, streamed, followUps, round, slots, keys, sequence, taskProtocolRetries, canceled, wire>>

\* absorbCompletedResponse, one item at a time: an item that never had its
\* last event is stored, and shown when no event announced it.
AbsorbItem ==
  LET k == round.cursor
      item == round.output[k]
      skip == \/ k \in round.hidden \/ item.kind \in InternalKinds
              \/ round.hideNarrative /\ item.kind = "message"
      known == item.id \in DOMAIN keys \/ k \in DOMAIN round.indexes
      index == IF item.id \in DOMAIN keys THEN keys[item.id] ELSE SlotOf(k)
  IN /\ pc = "absorb"
     /\ pc' = IF k = Len(round.output) THEN "decide" ELSE "absorb"
     /\ round' = [round EXCEPT
          !.cursor = @ + 1,
          !.indexes = IF skip THEN @ ELSE WithEntry(@, k, index)]
     /\ IF skip \/ (known /\ item.kind = "work") THEN UNCHANGED <<slots, keys, wire>>
        ELSE IF known THEN slots' = Put(item, index) /\ UNCHANGED <<keys, wire>>
        ELSE /\ Store(item, k)
             /\ wire' = IF emitOutput THEN EmitItem(wire, item, index) ELSE wire
     /\ UNCHANGED <<mode, streamed, followUps, sequence, taskProtocolRetries, omissions, canceled>>

\* CreateResponse, not streamed: the items of an answer at once.
WholeAnswer ==
  /\ pc = "open" /\ ~streamed /\ ~canceled
  /\ \E n \in 0..MaxItems : \E kinds \in [1..n -> Kinds] :
       \E texts \in [1..n -> Texts \cup {NoText}] :
         /\ \A k \in 1..n : texts[k] \in TextsOf(kinds[k])
         /\ round' = [round EXCEPT !.output =
              [k \in 1..n |-> Item([round |-> sequence, k |-> k], kinds[k], texts[k])]]
  /\ pc' = "decide"
  /\ UNCHANGED <<mode, streamed, followUps, slots, keys, sequence, taskProtocolRetries, omissions, canceled, wire>>

-----------------------------------------------------------------------------
(* The loop of streamProjectedResponses, or of resolveProjectedInternal-   *)
(* Tools and its caller, once a response is complete                       *)

Ask(hideNarrative) ==
  /\ sequence' = sequence + 1
  /\ round' = NewRound(hideNarrative)
  /\ pc' = "open"
  /\ UNCHANGED <<mode, streamed, slots, keys, omissions, canceled, wire>>

End == pc' = "end" /\ UNCHANGED <<mode, streamed, followUps, round, slots, keys, sequence, taskProtocolRetries, omissions, canceled>>

\* The requests that count against the limit: streamed, the corrections too.
roundsUsed == IF streamed THEN sequence ELSE followUps

FollowUp ==
  /\ pc = "decide" /\ NeedsFollowUp(round.output)
  /\ roundsUsed < MaxInternalToolRounds
  /\ Ask(FALSE)
  /\ followUps' = IF streamed THEN 0 ELSE followUps + 1
  /\ UNCHANGED taskProtocolRetries

RoundsExceeded ==
  /\ pc = "decide" /\ NeedsFollowUp(round.output)
  /\ roundsUsed >= MaxInternalToolRounds
  /\ wire' = projectedResponseFailure("limit")
  /\ End

\* The judgement of a response that needs no follow-up.
Judged(verdict) ==
  pc = "decide" /\ ~NeedsFollowUp(round.output) /\ Verdict(round.output) = verdict

\* Mutants: the correction's narrative is shown; corrections are repeated, or
\* are not counted.
TaskProtocolRetryShown ==
  /\ streamed /\ Judged("violation") /\ taskProtocolRetries < MaxTaskProtocolRetries
  /\ taskProtocolRetries' = taskProtocolRetries + 1
  /\ followUps' = 0
  /\ Ask(FALSE)
TaskProtocolRetryAgain ==
  /\ streamed /\ Judged("violation")
  /\ taskProtocolRetries' = taskProtocolRetries + 1
  /\ followUps' = 0
  /\ Ask(TRUE)
TaskProtocolRetryUncounted ==
  /\ streamed /\ Judged("violation") /\ taskProtocolRetries < MaxTaskProtocolRetries
  /\ round' = NewRound(TRUE)
  /\ pc' = "open"
  /\ UNCHANGED <<mode, streamed, followUps, slots, keys, sequence, taskProtocolRetries, omissions, canceled, wire>>

TaskProtocolRetry ==
  /\ streamed /\ Judged("violation") /\ taskProtocolRetries < MaxTaskProtocolRetries
  /\ taskProtocolRetries' = taskProtocolRetries + 1
  /\ followUps' = 0
  /\ Ask(TRUE)

TaskProtocolRetryWhole ==
  /\ ~streamed /\ Judged("violation") /\ taskProtocolRetries < MaxTaskProtocolRetries
  /\ taskProtocolRetries' = taskProtocolRetries + 1
  /\ followUps' = 0
  /\ Ask(FALSE)

TaskProtocolViolation ==
  /\ Judged("violation") /\ taskProtocolRetries >= MaxTaskProtocolRetries
  /\ wire' = projectedResponseFailure("violation")
  /\ End

\* The message of projectedTaskEndResponse.
ResultItem(text) == Item([round |-> 0, k |-> 0], "message", text)

\* A result that was not the only text shown is emitted as the only item of
\* the response, at output index 0.
EndTask ==
  /\ Judged("ended") /\ streamed
  /\ LET text == TaskResult(round.output)
         result == ResultItem(text)
     IN wire' = IF ShownAlone(text) THEN Completed(wire, slots)
                ELSE Completed(EmitItems(wire, <<result>>), <<result>>)
  /\ End

ReturnFinal ==
  /\ Judged("work") /\ emitOutput /\ streamed
  /\ wire' = Completed(wire, slots)
  /\ End

\* Not streamed, the result stands for everything else the model said.
EndTaskWhole ==
  /\ Judged("ended") /\ ~streamed
  /\ wire' = Completed(wire, <<ResultItem(TaskResult(round.output))>>)
  /\ End

\* What other calls stand beside is taken out only if it is the end tool.
projectedWithoutTaskEndCalls(output) ==
  IF mode # "protocol" THEN output
  ELSE LET kept[n \in 0..Len(output)] ==
             IF n = 0 THEN <<>>
             ELSE IF output[n].kind \in EndKinds THEN kept[n - 1]
             ELSE Append(kept[n - 1], output[n])
       IN kept[Len(output)]

ReturnWhole ==
  /\ Judged("work") /\ ~streamed
  /\ mode = "structured" => SatisfiesSchema(round.output)
  /\ wire' = Completed(wire, projectedWithoutTaskEndCalls(round.output))
  /\ End

\* The last response satisfies the schema: all of it is shown at once.
ReturnStructured ==
  /\ Judged("work") /\ streamed /\ ~emitOutput /\ SatisfiesSchema(round.output)
  /\ wire' = Completed(EmitItems(wire, round.output), round.output)
  /\ End

\* It does not: a repair is requested, without tools.
AskRepair ==
  /\ Judged("work") /\ ~emitOutput /\ ~SatisfiesSchema(round.output)
  /\ pc' = "repair"
  /\ UNCHANGED <<mode, streamed, followUps, round, slots, keys, sequence, taskProtocolRetries, omissions, canceled, wire>>

\* Mutant: a repair is not validated.
RepairAnswerUnchecked(text) ==
  /\ pc = "repair" /\ ~round.over
  /\ LET answer == <<Item([round |-> sequence + 1, k |-> 1], "message", text)>>
     IN wire' = Completed(EmitItems(wire, answer), answer)
  /\ End

RepairAnswer(text) ==
  /\ pc = "repair" /\ ~round.over
  /\ LET answer == <<Item([round |-> sequence + 1, k |-> 1], "message", text)>>
     IN wire' = IF ~SatisfiesSchema(answer) THEN projectedResponseFailure("repair")
                ELSE IF streamed THEN Completed(EmitItems(wire, answer), answer)
                ELSE Completed(wire, answer)
  /\ End

\* Any failure of the repair; streamed, also when Codex has left.
RepairError(failure) ==
  /\ pc = "repair"
  /\ wire' = projectedResponseFailure(failure)
  /\ End

Decide ==
  \/ FollowUp \/ RoundsExceeded
  \/ TaskProtocolRetry \/ TaskProtocolViolation
  \/ EndTask \/ ReturnFinal \/ ReturnStructured \/ AskRepair
  \/ TaskProtocolRetryWhole \/ EndTaskWhole \/ ReturnWhole

NextItem == \E kind \in Kinds : \E text \in TextsOf(kind), first \in FirstEvents(kind) :
            ItemOpens(kind, text, first)

Failures == {"upstream", "timeout"}

Errors == \E failure \in Failures : UpstreamError(failure)

Repair ==
  \/ \E failure \in Failures : RepairError(failure)
  \/ \E text \in Texts : RepairAnswer(text)

Next ==
  \/ Cancel \/ Open \/ Errors \/ UpstreamFailed \/ NextItem \/ DoneItem
  \/ ResponseCompleted \/ AbsorbItem \/ WholeAnswer \/ Decide \/ Repair

Spec == Init /\ [][Next]_vars

\* The handler's goroutine is scheduled, and the upstream client's timeout
\* ends every call that the upstream does not end.
FairSpec ==
  /\ Spec
  /\ WF_vars(Open \/ Errors \/ ResponseCompleted \/ WholeAnswer)
  /\ WF_vars(AbsorbItem \/ Decide \/ Repair)

-----------------------------------------------------------------------------
(* Properties                                                              *)

HasCompleted == wire.terminals = <<"completed">>

\* The turn returned a result item in place of the items it had streamed.
ResultReplaces ==
  /\ mode = "protocol" /\ Verdict(round.output) = "ended"
  /\ ~ShownAlone(TaskResult(round.output))

\* All variables stay in their types.
TypeOK ==
  /\ mode \in Modes
  /\ streamed \in BOOLEAN
  /\ followUps \in 0..MaxInternalToolRounds
  /\ pc \in {"open", "stream", "absorb", "decide", "repair", "end"}
  /\ round \in Rounds
  /\ round.indexes \in [DOMAIN round.indexes -> Nat]
  /\ DOMAIN round.indexes \subseteq 1..Len(round.output)
  /\ \A k \in DOMAIN round.indexes : round.indexes[k] < Len(slots)
  /\ slots \in Seq(Items)
  /\ keys \in [DOMAIN keys -> Nat] /\ DOMAIN keys \subseteq Ids
  /\ \A id \in DOMAIN keys : keys[id] < Len(slots)
  /\ sequence \in Nat
  /\ taskProtocolRetries \in Nat
  /\ omissions \in 0..MaxOmissions
  /\ canceled \in BOOLEAN
  /\ wire \in Wires

\* What was announced to Codex, and what it was shown as finished, stands in the
\* completed response at the index it was shown at, whatever events upstream
\* left out and although the rounds of a turn share the indexes; when upstream
\* sends every event, the completed response is exactly what was shown as
\* finished, in the order of the indexes.
StreamMatchesOutput ==
  streamed /\ HasCompleted /\ ~ResultReplaces =>
    /\ \A place \in wire.announced :
         place.index < Len(wire.output) /\ wire.output[place.index + 1].id = place.id
    /\ \A k \in 1..Len(wire.finished) :
         /\ wire.finished[k].index < Len(wire.output)
         /\ wire.output[wire.finished[k].index + 1] = wire.finished[k].item
    /\ omissions = 0 =>
         wire.finished = [k \in 1..Len(wire.output) |->
                            [item |-> wire.output[k], index |-> k - 1]]

\* The latest request asked for a correction.
InCorrection ==
  round.hideNarrative \/ (sequence > 0 /\ sequence = taskProtocolRetries)

\* What the model says in a hidden correction is not shown: only the result
\* that concludes the turn is.  (An item is hidden by its first event.)
NarrativeHidden ==
  [][InCorrection /\ omissions' = 0 =>
       \A k \in (Len(wire.finished) + 1)..Len(wire'.finished) :
         wire'.finished[k].item.kind = "message" =>
           Judged("ended") /\ wire'.terminals = <<"completed">>]_vars

\* An answer that must satisfy a schema is not shown before it was validated,
\* be it the first one or the repaired one.
StructuredGuarded ==
  mode = "structured" /\ (wire.announced # {} \/ wire.finished # <<>> \/ wire.output # <<>>) =>
    HasCompleted /\ SatisfiesSchema(wire.output)

\* Outside of structured outputs Codex never sees a call of a tool that the
\* bridge runs itself, nor finds one in the completed response; not streamed,
\* this is so of the end tool alone, a web search beside work goes through.
InternalCallsHidden ==
  mode # "structured" =>
    /\ \A k \in 1..Len(wire.finished) : wire.finished[k].item.kind \notin InternalKinds
    /\ \A k \in 1..Len(wire.output) :
         wire.output[k].kind \notin IF streamed THEN InternalKinds ELSE EndKinds

\* Every turn ends.
TurnEnds == <>(pc = "end")

-----------------------------------------------------------------------------
(* The turn keeps the contract of TurnContract                             *)

Phase ==
  IF pc # "end" THEN "running"
  ELSE IF wire.terminals = <<>> THEN "dropped"
  ELSE wire.terminals[Len(wire.terminals)]

Answer ==
  IF ~(pc \in {"decide", "repair"} \/ Phase = "completed") THEN "pending"
  ELSE IF NeedsFollowUp(round.output) THEN "work" ELSE Verdict(round.output)

Contract == INSTANCE TurnContract WITH
  phase <- Phase,
  answer <- Answer,
  followUps <- sequence - taskProtocolRetries,
  corrections <- taskProtocolRetries

\* Not streamed, the limit of follow-ups applies anew after each correction.
WholeContract == INSTANCE TurnContract WITH
  MaxInternalToolRounds <- MaxInternalToolRounds * (MaxTaskProtocolRetries + 1),
  phase <- Phase,
  answer <- Answer,
  followUps <- sequence - taskProtocolRetries,
  corrections <- taskProtocolRetries

\* Streamed or not, a turn is a TurnContract: so many follow-ups and
\* corrections, no completion on a violation, one conclusion.
KeepsContract ==
  /\ Contract!ContractInit
  /\ [][IF streamed THEN Contract!ContractNext ELSE WholeContract!ContractNext
       ]_<<Phase, Answer, sequence, taskProtocolRetries>>
=============================================================================
