--------------------------- MODULE ChatTurnProofs ---------------------------
(* Theorems about ChatTurn, for every value of its constants.              *)
EXTENDS ChatTurn, SequenceTheorems, TLAPS

USE DEF NoText, ToolText

-----------------------------------------------------------------------------
(* Types                                                                   *)

\* Events only add places and items of the right types to the wire.
LEMMA AnnounceType ==
  ASSUME NEW w \in Wires, NEW places \in SUBSET Places
  PROVE  Announce(w, places) \in Wires
BY DEF Announce, Wires

LEMMA DoneEventsType ==
  ASSUME NEW items \in Seq(Items), NEW offset \in Nat
  PROVE  DoneEvents(items, offset) \in Seq([item : Items, index : Nat])
<1> DEFINE n == Len(items)
           event(k) == [item |-> items[k], index |-> offset + k - 1]
<1>1. n \in Nat
  OBVIOUS
<1>2. ASSUME NEW k \in 1..n PROVE event(k) \in [item : Items, index : Nat]
  <2>1. items[k] \in Items
    OBVIOUS
  <2>2. offset + k - 1 \in Nat
    BY <1>1
  <2> QED
    BY <2>1, <2>2
<1> HIDE DEF n, event
<1>3. [k \in 1..n |-> event(k)] \in Seq([item : Items, index : Nat])
  BY <1>1, <1>2
<1> QED
  BY <1>3 DEF DoneEvents, n, event

LEMMA EmitDoneType ==
  ASSUME NEW w \in Wires, NEW items \in Seq(Items), NEW offset \in Nat, NEW known
  PROVE  EmitDone(w, items, offset, known) \in Wires
<1>1. ASSUME NEW k \in 1..Len(items)
      PROVE  [id |-> items[k].id, index |-> offset + k - 1] \in Places
  <2>1. items[k] \in Items
    OBVIOUS
  <2>2. items[k].id \in ItemIds
    BY <2>1 DEF Items
  <2>3. offset + k - 1 \in Nat
    OBVIOUS
  <2> QED
    BY <2>2, <2>3 DEF Places
<1>2. UnknownPlaces(items, offset, known) \subseteq Places
  BY <1>1, Zenon DEF UnknownPlaces
<1>3. Announce(w, UnknownPlaces(items, offset, known)) \in Wires
  BY <1>2, AnnounceType
<1> DEFINE v == Announce(w, UnknownPlaces(items, offset, known))
           events == DoneEvents(items, offset)
<1>4. events \in Seq([item : Items, index : Nat])
  BY DoneEventsType
<1> HIDE DEF v, events
<1>5. ASSUME v \in Wires PROVE [v EXCEPT !.finished = v.finished \o events] \in Wires
  <2>1. v.finished \o events \in Seq([item : Items, index : Nat])
    BY <1>4, <1>5 DEF Wires
  <2> QED
    BY <1>5, <2>1 DEF Wires
<1> QED
  BY <1>3, <1>5 DEF EmitDone, v, events

LEMMA FailedType ==
  ASSUME NEW w \in Wires, NEW failure
  PROVE  Failed(w, failure) \in Wires
BY DEF Failed, Wires

LEMMA NewRoundType ==
  ASSUME NEW offset \in Nat, NEW emitEvents \in BOOLEAN
  PROVE  NewRound(offset, emitEvents) \in Rounds
BY DEF NewRound, EmptyRound, Rounds, ItemId, ItemIds

\* What a round leaves behind is well typed.
LEMMA CaptureType ==
  ASSUME TypeOK
  PROVE  /\ NarrativeTrace \in Seq(Items) /\ NarrativeWire \in Wires
         /\ ToolsTrace \in Seq(Items) /\ ToolsWire \in Wires
         /\ ViolationTrace \in Seq(Items) /\ ViolationWire \in Wires
<1>1. /\ round.narrative \in Seq(Items) /\ round.searches \in Seq(Items)
      /\ trace \in Seq(Items) /\ wire \in Wires
  BY DEF TypeOK, Rounds
<1>2. NarrativeTrace \in Seq(Items) /\ Len(NarrativeTrace) \in Nat /\ Len(trace) \in Nat
  BY <1>1 DEF NarrativeTrace
<1>3. NarrativeWire \in Wires
  BY <1>1, <1>2, EmitDoneType DEF NarrativeWire
<1>4. ToolsTrace \in Seq(Items)
  BY <1>1, <1>2 DEF ToolsTrace
<1>5. ToolsWire \in Wires
  BY <1>1, <1>2, <1>3, EmitDoneType DEF ToolsWire
<1> QED
  BY <1>1, <1>2, <1>3, <1>4, <1>5 DEF ViolationTrace, ViolationWire

\* A valid end of the task is its round's only call, and its result a text.
LEMMA EndedCall ==
  ASSUME NEW r \in Rounds, Verdict(r) = "ended"
  PROVE  Len(r.calls) >= 1 /\ TaskResult(r) \in Texts \cup {NoText}
<1>1. r.calls \in Seq(Calls)
  BY DEF Rounds
<1>2. PICK k \in 1..Len(r.calls) : r.calls[k].kind = "end"
  BY DEF Verdict
<1>3. 1 \in 1..Len(r.calls)
  BY <1>1, <1>2
<1>4. r.calls[1] \in Calls
  BY <1>1, <1>3
<1> QED
  BY <1>1, <1>3, <1>4 DEF TaskResult, Calls

LEMMA CompletedType ==
  ASSUME NEW w \in Wires, NEW tr \in Seq(Items), NEW items \in Seq(Items), NEW known
  PROVE  Completed(w, tr, items, known) \in Wires
<1> DEFINE v == EmitDone(w, items, Len(tr), known)
<1>1. v \in Wires
  BY EmitDoneType
<1>2. tr \o items \in Seq(Items)
  OBVIOUS
<1> HIDE DEF v
<1>3. [v EXCEPT !.terminal = "completed", !.output = tr \o items] \in Wires
  BY <1>1, <1>2 DEF Wires
<1> QED
  BY <1>3 DEF Completed, v

\* The item of a tool call, and the calls the model may make.
LEMMA CallTypes ==
  ASSUME TypeOK
  PROVE  /\ OfferedCalls \subseteq Calls
         /\ \A call \in Calls, k \in Nat : ToolCallItem(call, k) \in Items
<1>1. OfferedCalls \subseteq Calls
  <2>1. CallKinds \subseteq AllCallKinds
    BY ChatConstants
  <2>2. \A kind \in CallKinds : [kind |-> kind, result |-> NoText] \in Calls
    BY <2>1 DEF Calls
  <2>3. \A kind \in CallKinds, text \in Texts : [kind |-> kind, result |-> text] \in Calls
    BY <2>1 DEF Calls
  <2> QED
    BY <2>2, <2>3 DEF OfferedCalls
<1>2. ASSUME NEW call \in Calls, NEW k \in Nat
      PROVE  ToolCallItem(call, k) \in Items
  <2>1. call.kind \in AllCallKinds
    BY DEF Calls
  <2> QED
    BY <2>1 DEF TypeOK, ToolCallItem, Item, Items, ItemId, ItemIds, ItemTypes,
                AllCallKinds, EndKinds, InternalKinds
<1> QED
  BY <1>1, <1>2

\* Every variable keeps its type: the spec's bookkeeping of rounds, captured
\* items and written events is well formed whatever the upstream sends.
LEMMA InitTypeOK == Init => TypeOK
<1> SUFFICES ASSUME Init PROVE TypeOK
  OBVIOUS
<1>1. round \in Rounds
  BY NewRoundType DEF Init
<1>2. wire \in Wires
  BY DEF Init, Wires
<1>3. trace \in Seq(Items)
  BY DEF Init
<1>4. pc = "open" /\ sequence \in Nat /\ taskProtocolRetries \in Nat
  BY DEF Init
<1>5. canceled \in BOOLEAN
  BY DEF Init
<1> QED
  BY <1>1, <1>2, <1>3, <1>4, <1>5 DEF TypeOK

LEMMA StepTypeOK == TypeOK /\ [Next]_vars => TypeOK'
<1> SUFFICES ASSUME TypeOK, [Next]_vars PROVE TypeOK'
  OBVIOUS
<1> USE DEF TypeOK
<1>1. CASE Cancel
  BY <1>1 DEF Cancel
<1>2. CASE Open
  BY <1>2 DEF Open
<1>3. CASE Errors
  BY <1>3, FailedType DEF Errors, UpstreamError
<1>4. CASE ContextDone
  BY <1>4 DEF ContextDone
<1>5. CASE StreamDone
  BY <1>5 DEF StreamDone
<1>6. ASSUME NEW id \in ItemIds, AnnounceNext(id) PROVE wire' \in Wires
  <2>1. [id |-> id, index |-> round.nextOutputIndex] \in Places
    BY DEF Rounds, Places
  <2> QED
    BY <1>6, <2>1, AnnounceType DEF AnnounceNext
<1>7. ASSUME NEW blank \in BOOLEAN, AddReasoning(blank) PROVE TypeOK'
  <2> DEFINE item == Item(round.reasoningItemID, "reasoning", NoText)
             kept == IF blank THEN <<>> ELSE <<item>>
  <2>1. round.reasoningItemID \in ItemIds
    BY DEF Rounds
  <2>2. item \in Items
    BY <2>1 DEF Item, Items, ItemTypes
  <2>3. kept \in Seq(Items)
    BY <2>2
  <2> DEFINE narrative == round.narrative \o kept
             items == round.items \o kept
             next == round.nextOutputIndex + 1
  <2>4. narrative \in Seq(Items) /\ items \in Seq(Items) /\ next \in Nat
    BY <2>3 DEF Rounds
  <2>5. round' = [round EXCEPT !.reasoningAdded = TRUE, !.nextOutputIndex = next,
                               !.narrative = narrative, !.items = items]
    BY <1>7 DEF AddReasoning
  <2> HIDE DEF narrative, items, next
  <2>6. round' \in Rounds
    BY <2>4, <2>5 DEF Rounds
  <2> QED
    BY <1>6, <1>7, <2>1, <2>6 DEF AddReasoning
<1>8. ASSUME NEW text \in Texts, AddText(text) PROVE TypeOK'
  <2> DEFINE message == Item(round.textItemID, "message", text)
  <2>1. round.textItemID \in ItemIds
    BY DEF Rounds
  <2>2. message \in Items
    BY <2>1 DEF Item, Items, ItemTypes
  <2> DEFINE narrative == Append(round.narrative, message)
             items == Append(round.items, message)
             next == round.nextOutputIndex + 1
  <2>3. narrative \in Seq(Items) /\ items \in Seq(Items) /\ next \in Nat
    BY <2>2 DEF Rounds
  <2>4. round' = [round EXCEPT !.textAdded = TRUE, !.nextOutputIndex = next,
                               !.narrative = narrative, !.items = items]
    BY <1>8 DEF AddText
  <2> HIDE DEF narrative, items, next
  <2>5. round' \in Rounds
    BY <2>3, <2>4 DEF Rounds
  <2> QED
    BY <1>6, <1>8, <2>1, <2>5 DEF AddText
<1>9. ASSUME NEW call \in OfferedCalls, AddCall(call) PROVE TypeOK'
  <2> DEFINE k == Len(round.calls) + 1
             item == ToolCallItem(call, k)
             search == Item(ItemId("fco", sequence, k), "search", NoText)
             more == IF call.kind = "web" THEN Append(round.searches, search)
                     ELSE round.searches
  <2>1. k \in Nat /\ call \in Calls
    BY CallTypes DEF Rounds
  <2>2. item \in Items
    BY <2>1, CallTypes
  <2>3. search \in Items
    BY <2>1 DEF Item, Items, ItemTypes, ItemId, ItemIds
  <2> DEFINE calls == Append(round.calls, call)
             items == Append(round.items, item)
             next == round.nextOutputIndex + 1
  <2>4. /\ more \in Seq(Items) /\ calls \in Seq(Calls) /\ items \in Seq(Items)
        /\ next \in Nat
    BY <2>1, <2>2, <2>3 DEF Rounds
  <2>5. round' = [round EXCEPT !.nextOutputIndex = next, !.calls = calls,
                               !.items = items, !.searches = more]
    BY <1>9 DEF AddCall
  <2> HIDE DEF calls, items, next, more
  <2>6. round' \in Rounds
    BY <2>4, <2>5 DEF Rounds
  <2> QED
    BY <1>9, <2>6 DEF AddCall
<1>10. /\ Len(ViolationTrace) \in Nat /\ Len(ToolsTrace) \in Nat
       /\ sequence + 1 \in Nat /\ taskProtocolRetries + 1 \in Nat
  BY CaptureType
<1>11. CASE TaskProtocolRetry
  BY <1>10, <1>11, CaptureType, NewRoundType DEF TaskProtocolRetry, AskCorrection
<1>12. CASE TaskProtocolViolation
  BY <1>12, CaptureType, FailedType DEF TaskProtocolViolation
<1>13. CASE EndTask
  <2> DEFINE capture == round.textAdded \/ round.reasoningAdded
             tr == IF capture THEN NarrativeTrace ELSE trace
             w == IF capture THEN NarrativeWire ELSE wire
             items == ResultItems(tr, TaskResult(round))
  <2>1. tr \in Seq(Items) /\ w \in Wires
    BY CaptureType
  <2>2. TaskResult(round) \in Texts \cup {NoText}
    BY <1>13, EndedCall DEF EndTask
  <2>3. items \in Seq(Items)
    <3>1. Item(ItemId("msg", 0, 0), "message", TaskResult(round)) \in Items
      BY <2>2 DEF Item, Items, ItemTypes, ItemId, ItemIds
    <3> QED
      BY <3>1 DEF ResultItems
  <2>4. Completed(w, tr, items, {}) \in Wires
    BY <2>1, <2>3, CompletedType
  <2> QED
    BY <1>13, <2>1, <2>4 DEF EndTask
<1>14. CASE InternalToolFollowUp
  BY <1>10, <1>14, CaptureType, NewRoundType DEF InternalToolFollowUp, AskFollowUp
<1>15. CASE InternalToolRoundsExceeded
  BY <1>15, CaptureType, FailedType DEF InternalToolRoundsExceeded
<1>16. CASE ReturnFinal
  BY <1>16, CompletedType DEF ReturnFinal, Rounds
<1>17. CASE UNCHANGED vars
  BY <1>17 DEF vars
<1> QED
  BY <1>1, <1>2, <1>3, <1>4, <1>5, <1>7, <1>8, <1>9, <1>11, <1>12, <1>13, <1>14,
     <1>15, <1>16, <1>17 DEF Next, Upstream, Chunk, Decide

\* TypeOK is an invariant of every turn.
THEOREM TypeCorrect == Spec => []TypeOK
BY InitTypeOK, StepTypeOK, PTL DEF Spec

-----------------------------------------------------------------------------
(* What is streamed while the turn runs                                    *)

\* Finishing one sequence of items after another finishes their concatenation.
LEMMA DoneEventsConcat ==
  ASSUME NEW s \in Seq(Items), NEW t \in Seq(Items)
  PROVE  DoneEvents(s, 0) \o DoneEvents(t, Len(s)) = DoneEvents(s \o t, 0)
<1> DEFINE Event == [item : Items, index : Nat]
           left == DoneEvents(s, 0)
           right == DoneEvents(t, Len(s))
           both == DoneEvents(s \o t, 0)
<1>1. /\ Len(s) \in Nat /\ Len(t) \in Nat
      /\ s \o t \in Seq(Items) /\ Len(s \o t) = Len(s) + Len(t)
  OBVIOUS
<1>2. left \in Seq(Event) /\ right \in Seq(Event) /\ both \in Seq(Event)
  BY <1>1, DoneEventsType
<1>3. Len(left) = Len(s) /\ Len(right) = Len(t) /\ Len(both) = Len(s) + Len(t)
  BY <1>1 DEF DoneEvents
<1>4. \A k \in 1..Len(s) : left[k] = [item |-> s[k], index |-> 0 + k - 1]
  BY DEF DoneEvents
<1>5. \A k \in 1..Len(t) : right[k] = [item |-> t[k], index |-> Len(s) + k - 1]
  BY DEF DoneEvents
<1>6. \A k \in 1..(Len(s) + Len(t)) : both[k] = [item |-> (s \o t)[k], index |-> 0 + k - 1]
  BY <1>1 DEF DoneEvents
<1> HIDE DEF left, right, both, Event
<1>7. ASSUME NEW k \in 1..(Len(s) + Len(t)) PROVE (left \o right)[k] = both[k]
  <2>0. k \in Nat /\ k >= 1
    BY <1>1
  <2>1. CASE k <= Len(s)
    <3>1. (left \o right)[k] = left[k] /\ (s \o t)[k] = s[k]
      BY <1>1, <1>2, <1>3, <2>1
    <3>2. k \in 1..Len(s)
      BY <1>1, <2>0, <2>1
    <3> QED
      BY <1>4, <1>6, <3>1, <3>2
  <2>2. CASE k > Len(s)
    <3> DEFINE j == k - Len(s)
    <3>1. j \in 1..Len(t) /\ Len(s) + j - 1 = 0 + k - 1
      BY <1>1, <2>2
    <3>2. (left \o right)[k] = right[j] /\ (s \o t)[k] = t[j]
      BY <1>1, <1>2, <1>3, <2>2
    <3> HIDE DEF j
    <3> QED
      BY <1>5, <1>6, <3>1, <3>2
  <2>3. k <= Len(s) \/ k > Len(s)
    BY <1>1, <2>0
  <2> QED
    BY <2>1, <2>2, <2>3
<1>8. left \o right \in Seq(Event) /\ Len(left \o right) = Len(s) + Len(t)
  BY <1>2, <1>3
<1>9. left \o right = both
  BY <1>2, <1>3, <1>7, <1>8, SeqEqual
<1> QED
  BY <1>9 DEF left, right, both

\* What EmitDone changes: it appends, and it never ends the stream.
LEMMA EmitDoneEffect ==
  ASSUME NEW w \in Wires, NEW items \in Seq(Items), NEW offset \in Nat, NEW known
  PROVE  LET v == EmitDone(w, items, offset, known)
         IN /\ v.finished = w.finished \o DoneEvents(items, offset)
            /\ v.announced = w.announced \cup UnknownPlaces(items, offset, known)
            /\ v.terminal = w.terminal
            /\ v.output = w.output
BY DEF EmitDone, Announce, Wires

\* While a turn runs nothing has been concluded, and the items finished so
\* far are exactly the trace, in order, at the trace's indexes.
Streaming(w, tr) == w.terminal = "none" /\ w.finished = DoneEvents(tr, 0)

InFlight == pc # "end" => Streaming(wire, trace)

LEMMA EmitDoneStreams ==
  ASSUME NEW w \in Wires, NEW tr \in Seq(Items), Streaming(w, tr),
         NEW items \in Seq(Items), NEW known
  PROVE  Streaming(EmitDone(w, items, Len(tr), known), tr \o items)
<1> DEFINE v == EmitDone(w, items, Len(tr), known)
<1>1. Len(tr) \in Nat
  OBVIOUS
<1>2. v.finished = w.finished \o DoneEvents(items, Len(tr)) /\ v.terminal = w.terminal
  BY <1>1, EmitDoneEffect
<1>3. DoneEvents(tr, 0) \o DoneEvents(items, Len(tr)) = DoneEvents(tr \o items, 0)
  BY DoneEventsConcat
<1> QED
  BY <1>2, <1>3 DEF Streaming

LEMMA CaptureStreams ==
  ASSUME TypeOK, Streaming(wire, trace)
  PROVE  /\ Streaming(NarrativeWire, NarrativeTrace)
         /\ Streaming(ToolsWire, ToolsTrace)
         /\ Streaming(ViolationWire, ViolationTrace)
<1>1. /\ round.narrative \in Seq(Items) /\ round.searches \in Seq(Items)
      /\ trace \in Seq(Items) /\ wire \in Wires
  BY DEF TypeOK, Rounds
<1>2. Streaming(NarrativeWire, NarrativeTrace)
  BY <1>1, EmitDoneStreams DEF NarrativeWire, NarrativeTrace
<1>3. NarrativeWire \in Wires /\ NarrativeTrace \in Seq(Items)
  BY CaptureType
<1>4. Streaming(ToolsWire, ToolsTrace)
  BY <1>1, <1>2, <1>3, EmitDoneStreams DEF ToolsWire, ToolsTrace
<1> QED
  BY <1>2, <1>4 DEF ViolationWire, ViolationTrace

\* A turn that completes after streaming a trace: its output array is the
\* trace followed by the final items, and so is what was finished.
LEMMA CompletedMatches ==
  ASSUME NEW w \in Wires, NEW tr \in Seq(Items), Streaming(w, tr),
         NEW items \in Seq(Items), NEW known
  PROVE  LET v == Completed(w, tr, items, known)
         IN /\ v.terminal = "completed"
            /\ v.output = tr \o items
            /\ v.finished = DoneEvents(v.output, 0)
            /\ v.finished = w.finished \o DoneEvents(items, Len(tr))
            /\ v.announced = w.announced \cup UnknownPlaces(items, Len(tr), known)
<1> DEFINE u == EmitDone(w, items, Len(tr), known)
<1>1. Len(tr) \in Nat
  OBVIOUS
<1>2. u \in Wires
  BY <1>1, EmitDoneType
<1>3. u.finished = DoneEvents(tr \o items, 0)
  BY EmitDoneStreams DEF Streaming
<1>4. /\ u.finished = w.finished \o DoneEvents(items, Len(tr))
      /\ u.announced = w.announced \cup UnknownPlaces(items, Len(tr), known)
  BY <1>1, EmitDoneEffect
<1> HIDE DEF u
<1>5. Completed(w, tr, items, known) =
        [u EXCEPT !.terminal = "completed", !.output = tr \o items]
  BY DEF Completed, u
<1> QED
  BY <1>2, <1>3, <1>4, <1>5 DEF Wires

LEMMA FailedEffect ==
  ASSUME NEW w \in Wires, NEW failure
  PROVE  LET v == Failed(w, failure)
         IN /\ v.finished = w.finished /\ v.announced = w.announced
            /\ v.terminal \in {w.terminal, "failed"}
            /\ canceled \/ failure = "timeout" \/ v.terminal = "failed"
BY DEF Failed, Wires

\* A chunk reads the stream: it may announce an item, and nothing else.
LEMMA ChunkEffect ==
  ASSUME TypeOK, Chunk
  PROVE  /\ pc = "stream"
         /\ UNCHANGED <<pc, trace, sequence, taskProtocolRetries, canceled>>
         /\ wire'.finished = wire.finished /\ wire'.output = wire.output
         /\ wire'.terminal = wire.terminal /\ wire.announced \subseteq wire'.announced
<1>1. ASSUME NEW id, AnnounceNext(id)
      PROVE  /\ wire'.finished = wire.finished /\ wire'.output = wire.output
             /\ wire'.terminal = wire.terminal /\ wire.announced \subseteq wire'.announced
  BY <1>1 DEF AnnounceNext, Announce, TypeOK, Wires
<1>2. ASSUME NEW blank \in BOOLEAN, AddReasoning(blank)
      PROVE  /\ pc = "stream" /\ AnnounceNext(round.reasoningItemID)
             /\ UNCHANGED <<pc, trace, sequence, taskProtocolRetries, canceled>>
  BY <1>2 DEF AddReasoning
<1>3. ASSUME NEW text \in Texts, AddText(text)
      PROVE  /\ pc = "stream" /\ AnnounceNext(round.textItemID)
             /\ UNCHANGED <<pc, trace, sequence, taskProtocolRetries, canceled>>
  BY <1>3 DEF AddText
<1>4. ASSUME NEW call \in OfferedCalls, AddCall(call)
      PROVE  pc = "stream" /\ wire' = wire
             /\ UNCHANGED <<pc, trace, sequence, taskProtocolRetries, canceled>>
  BY <1>4 DEF AddCall
<1> QED
  BY <1>1, <1>2, <1>3, <1>4 DEF Chunk

\* The round's own items follow the trace they were numbered from.
EndTrace == IF round.textAdded \/ round.reasoningAdded THEN NarrativeTrace ELSE trace
EndWire == IF round.textAdded \/ round.reasoningAdded THEN NarrativeWire ELSE wire
EndItems == ResultItems(EndTrace, TaskResult(round))

LEMMA EndTaskEffect ==
  ASSUME TypeOK, InFlight, EndTask
  PROVE  /\ EndTrace \in Seq(Items) /\ EndWire \in Wires /\ EndItems \in Seq(Items)
         /\ Streaming(EndWire, EndTrace)
         /\ trace' = EndTrace
         /\ wire' = Completed(EndWire, EndTrace, EndItems, {})
<1>1. Streaming(wire, trace)
  BY DEF InFlight, EndTask
<1>2. /\ EndTrace \in Seq(Items) /\ EndWire \in Wires
      /\ Streaming(EndWire, EndTrace)
  BY <1>1, CaptureType, CaptureStreams DEF EndTrace, EndWire, TypeOK
<1>3. TaskResult(round) \in Texts \cup {NoText}
  BY EndedCall DEF EndTask, TypeOK
<1>4. Item(ItemId("msg", 0, 0), "message", TaskResult(round)) \in Items
  BY <1>3 DEF Item, Items, ItemTypes, ItemId, ItemIds
<1>5. EndItems \in Seq(Items)
  BY <1>4 DEF EndItems, ResultItems
<1>6. trace' = EndTrace /\ wire' = Completed(EndWire, EndTrace, EndItems, {})
  BY DEF EndTask, EndTrace, EndWire, EndItems
<1> QED
  BY <1>2, <1>5, <1>6

-----------------------------------------------------------------------------
(* The output array is what was streamed                                   *)

StreamInv == InFlight /\ StreamMatchesOutput

LEMMA InitStreamInv == Init => StreamInv
<1> SUFFICES ASSUME Init PROVE StreamInv
  OBVIOUS
<1>1. wire.terminal = "none" /\ wire.finished = <<>> /\ trace = <<>>
  BY DEF Init
<1>2. DoneEvents(<<>>, 0) = <<>>
  BY DEF DoneEvents
<1> QED
  BY <1>1, <1>2 DEF StreamInv, InFlight, Streaming, StreamMatchesOutput

LEMMA StepStreamInv == TypeOK /\ StreamInv /\ [Next]_vars => StreamInv'
<1> SUFFICES ASSUME TypeOK, StreamInv, [Next]_vars PROVE StreamInv'
  OBVIOUS
<1> USE DEF StreamInv, InFlight, StreamMatchesOutput
<1>1. CASE Cancel
  BY <1>1 DEF Cancel, Streaming
<1>2. CASE Open \/ StreamDone
  BY <1>2 DEF Open, StreamDone, Streaming
<1>3. CASE ContextDone
  BY <1>3 DEF ContextDone, Streaming
<1>4. CASE Errors
  <2> PICK failure \in {"upstream", "timeout"} : UpstreamError(failure)
    BY <1>4 DEF Errors
  <2>1. pc \in {"open", "stream"} /\ pc' = "end" /\ wire' = Failed(wire, failure)
    BY DEF UpstreamError
  <2>2. wire'.terminal \in {"none", "failed"}
    BY <2>1, FailedEffect DEF Streaming, TypeOK
  <2> QED
    BY <2>1, <2>2
<1>5. CASE Chunk
  BY <1>5, ChunkEffect DEF Streaming
<1>6. CASE TaskProtocolRetry
  BY <1>6, CaptureStreams DEF TaskProtocolRetry, AskCorrection, Streaming
<1>7. CASE TaskProtocolViolation
  <2>1. /\ pc = "decide" /\ pc' = "end" /\ trace' = ViolationTrace
        /\ wire' = Failed(ViolationWire, "bridge")
    BY <1>7 DEF TaskProtocolViolation
  <2>2. wire'.terminal \in {"none", "failed"}
    BY <2>1, FailedEffect, CaptureStreams, CaptureType DEF Streaming
  <2> QED
    BY <2>1, <2>2
<1>8. CASE EndTask
  <2>1. wire'.terminal = "completed" /\ wire'.finished = DoneEvents(wire'.output, 0)
    BY <1>8, EndTaskEffect, CompletedMatches
  <2> QED
    BY <1>8, <2>1 DEF EndTask
<1>9. CASE InternalToolFollowUp
  BY <1>9, CaptureStreams DEF InternalToolFollowUp, AskFollowUp, Streaming
<1>10. CASE InternalToolRoundsExceeded
  <2>1. /\ pc = "decide" /\ pc' = "end" /\ trace' = ToolsTrace
        /\ wire' = Failed(ToolsWire, "bridge")
    BY <1>10 DEF InternalToolRoundsExceeded
  <2>2. wire'.terminal \in {"none", "failed"}
    BY <2>1, FailedEffect, CaptureStreams, CaptureType DEF Streaming
  <2> QED
    BY <2>1, <2>2
<1>11. CASE ReturnFinal
  <2>1. /\ pc = "decide" /\ pc' = "end" /\ round.items \in Seq(Items)
        /\ trace \in Seq(Items) /\ wire \in Wires
        /\ wire' = Completed(wire, trace, round.items, KnownIds(round))
    BY <1>11 DEF ReturnFinal, TypeOK, Rounds
  <2>2. wire'.terminal = "completed" /\ wire'.finished = DoneEvents(wire'.output, 0)
    BY <2>1, CompletedMatches
  <2> QED
    BY <2>1, <2>2
<1>12. CASE UNCHANGED vars
  BY <1>12 DEF vars, Streaming
<1> QED
  BY <1>1, <1>2, <1>3, <1>4, <1>5, <1>6, <1>7, <1>8, <1>9, <1>10, <1>11, <1>12
  DEF Next, Upstream, Decide

\* Codex rebuilds from the stream exactly the output array it is given at the
\* end: items, order and indexes agree across follow-ups and corrections.
THEOREM StreamMatches == Spec => []StreamMatchesOutput
<1>1. TypeOK /\ StreamInv /\ [Next]_vars => (TypeOK /\ StreamInv)'
  BY StepTypeOK, StepStreamInv
<1>2. Init => TypeOK /\ StreamInv
  BY InitTypeOK, InitStreamInv
<1>3. StreamInv => StreamMatchesOutput
  BY DEF StreamInv
<1> QED
  BY <1>1, <1>2, <1>3, PTL DEF Spec

-----------------------------------------------------------------------------
(* The cost of a turn                                                      *)

LEMMA StepRoundsBounded == TypeOK /\ RoundsBounded /\ [Next]_vars => RoundsBounded'
<1> SUFFICES ASSUME TypeOK, RoundsBounded, [Next]_vars PROVE RoundsBounded'
  OBVIOUS
<1>0. /\ sequence \in Nat /\ taskProtocolRetries \in Nat
      /\ MaxInternalToolRounds \in Nat /\ MaxTaskProtocolRetries \in Nat
  BY ChatConstants DEF TypeOK
<1>1. CASE TaskProtocolRetry
  <2>1. /\ taskProtocolRetries < MaxTaskProtocolRetries
        /\ taskProtocolRetries' = taskProtocolRetries + 1 /\ sequence' = sequence + 1
    BY <1>1 DEF TaskProtocolRetry, AskCorrection
  <2> QED
    BY <1>0, <2>1 DEF RoundsBounded
<1>2. CASE InternalToolFollowUp
  <2>1. /\ sequence < MaxInternalToolRounds /\ sequence' = sequence + 1
        /\ taskProtocolRetries' = taskProtocolRetries
    BY <1>2 DEF InternalToolFollowUp, AskFollowUp
  <2> QED
    BY <1>0, <2>1 DEF RoundsBounded
<1>3. CASE UNCHANGED <<sequence, taskProtocolRetries>>
  BY <1>3 DEF RoundsBounded
<1>4. CASE Chunk
  BY <1>3, <1>4, ChunkEffect
<1> QED
  BY <1>1, <1>2, <1>3, <1>4
  DEF Next, Upstream, Errors, Decide, Cancel, Open, UpstreamError, ContextDone,
      StreamDone, TaskProtocolViolation, EndTask, InternalToolRoundsExceeded,
      ReturnFinal, vars

\* A turn asks upstream at most 1 + MaxInternalToolRounds +
\* MaxTaskProtocolRetries times, for every limit.
THEOREM RoundsAreBounded == Spec => []RoundsBounded
<1>1. Init => RoundsBounded
  <2>1. MaxInternalToolRounds \in Nat /\ MaxTaskProtocolRetries \in Nat
    BY ChatConstants
  <2>2. Init => sequence = 0 /\ taskProtocolRetries = 0
    BY DEF Init
  <2> QED
    BY <2>1, <2>2 DEF RoundsBounded
<1> QED
  BY <1>1, InitTypeOK, StepTypeOK, StepRoundsBounded, PTL DEF Spec

-----------------------------------------------------------------------------
(* How a turn concludes                                                    *)

\* A concluded turn keeps the round it concluded on.
Concluded == wire.terminal = "completed" => pc = "end"

LEMMA WorkHasCalls ==
  ASSUME NEW r, Verdict(r) = "work", ExplicitTaskEnd, r.calls \in Seq(Calls)
  PROVE  r.calls # <<>>
BY DEF Verdict

LEMMA StepPlainText ==
  TypeOK /\ StreamInv /\ PlainTextNeverCompletes /\ [Next]_vars
    => PlainTextNeverCompletes'
<1> SUFFICES ASSUME TypeOK, StreamInv, PlainTextNeverCompletes, [Next]_vars,
                    ExplicitTaskEnd, wire'.terminal = "completed"
             PROVE  (Verdict(round) = "ended")' \/ round'.calls # <<>>
  BY DEF PlainTextNeverCompletes
<1>1. pc # "end" => wire.terminal = "none"
  BY DEF StreamInv, InFlight, Streaming
<1>2. CASE UNCHANGED <<round, wire>>
  BY <1>2 DEF PlainTextNeverCompletes, Verdict
<1>3. CASE Errors
  BY <1>1, <1>3 DEF Errors, UpstreamError, Failed, TypeOK, Wires
<1>4. CASE Chunk
  BY <1>1, <1>4, ChunkEffect
<1>5. CASE TaskProtocolRetry \/ InternalToolFollowUp
  <2>1. StreamInv' /\ pc' = "open"
    BY <1>5, StepStreamInv DEF TaskProtocolRetry, AskCorrection, InternalToolFollowUp, AskFollowUp
  <2> QED
    BY <2>1 DEF StreamInv, InFlight, Streaming
<1>6. CASE TaskProtocolViolation \/ InternalToolRoundsExceeded
  <2>1. Streaming(ViolationWire, ViolationTrace) /\ Streaming(ToolsWire, ToolsTrace)
    BY <1>6, CaptureStreams
    DEF TaskProtocolViolation, InternalToolRoundsExceeded, StreamInv, InFlight
  <2>2. wire' = Failed(ViolationWire, "bridge") \/ wire' = Failed(ToolsWire, "bridge")
    BY <1>6 DEF TaskProtocolViolation, InternalToolRoundsExceeded
  <2>3. wire'.terminal \in {"none", "failed"}
    BY <2>1, <2>2, FailedEffect, CaptureType DEF Streaming
  <2> QED
    BY <2>3
<1>7. CASE EndTask
  BY <1>7 DEF EndTask, Verdict
<1>8. CASE ReturnFinal
  BY <1>8, WorkHasCalls DEF ReturnFinal, TypeOK, Rounds
<1> QED
  BY <1>2, <1>3, <1>4, <1>5, <1>6, <1>7, <1>8
  DEF Next, Upstream, Decide, Cancel, Open, ContextDone, StreamDone, vars

\* Under the protocol no turn completes on text alone.
THEOREM PlainTextKept == Spec => []PlainTextNeverCompletes
<1>1. Init => PlainTextNeverCompletes
  BY DEF Init, PlainTextNeverCompletes
<1> QED
  BY <1>1, InitTypeOK, InitStreamInv, StepTypeOK, StepStreamInv, StepPlainText, PTL DEF Spec

-----------------------------------------------------------------------------
(* The turn implements its contract                                        *)

USE DEF Contract!contractVars

\* While a turn runs, its answer is the verdict once there is one.
LEMMA RunningAnswer ==
  ASSUME StreamInv, pc # "end"
  PROVE  /\ Phase = "running" /\ wire.terminal = "none"
         /\ pc # "decide" => Answer = "pending"
         /\ pc = "decide" => Answer = Verdict(round)
BY DEF StreamInv, InFlight, Streaming, Phase, Answer

\* Giving a turn up, with or without a terminal event, abandons the contract.
LEMMA AbandonStep ==
  ASSUME TypeOK, StreamInv, pc # "end", pc' = "end",
         wire'.terminal \in {"none", "failed"},
         UNCHANGED <<sequence, taskProtocolRetries>>
  PROVE  Contract!Abandon
<1>1. Phase = "running"
  BY RunningAnswer
<1>2. Phase' \in {"failed", "dropped"} /\ Answer' = "pending"
  BY DEF Phase, Answer
<1> QED
  BY <1>1, <1>2 DEF Contract!Abandon

LEMMA StuttersContract ==
  ASSUME UNCHANGED <<pc, round, sequence, taskProtocolRetries>>,
         wire'.terminal = wire.terminal
  PROVE  UNCHANGED Contract!contractVars
BY DEF Phase, Answer, Verdict

\* A completed answer either follows the protocol or is an end of the task.
LEMMA CompleteStep ==
  ASSUME TypeOK, StreamInv, pc = "decide", pc' = "end",
         wire'.terminal = "completed", Verdict(round) \in {"work", "ended"},
         UNCHANGED <<round, sequence, taskProtocolRetries>>
  PROVE  Contract!Complete
<1>1. Phase = "running" /\ Answer = Verdict(round)
  BY RunningAnswer
<1>2. Phase' = "completed" /\ Answer' = Verdict(round)
  BY DEF Phase, Answer, Verdict
<1> QED
  BY <1>1, <1>2 DEF Contract!Complete

LEMMA StepContract ==
  TypeOK /\ StreamInv /\ [Next]_vars => [Contract!ContractNext]_(Contract!contractVars)
<1> SUFFICES ASSUME TypeOK, StreamInv, [Next]_vars
             PROVE  [Contract!ContractNext]_(Contract!contractVars)
  OBVIOUS
<1>0. /\ sequence \in Nat /\ taskProtocolRetries \in Nat
      /\ MaxInternalToolRounds \in Nat /\ MaxTaskProtocolRetries \in Nat
  BY ChatConstants DEF TypeOK
<1>a. StreamInv'
  BY StepStreamInv
<1>1. CASE Cancel
  BY <1>1, StuttersContract DEF Cancel
<1>2. CASE Open
  <2>1. pc = "open" /\ pc' = "stream" /\ UNCHANGED <<round, wire, sequence, taskProtocolRetries>>
    BY <1>2 DEF Open
  <2> QED
    BY <1>a, <2>1 DEF StreamInv, InFlight, Streaming, Phase, Answer
<1>3. CASE StreamDone
  <2>1. pc = "stream" /\ pc' = "decide" /\ UNCHANGED <<round, wire, sequence, taskProtocolRetries>>
    BY <1>3 DEF StreamDone
  <2>2. Phase = "running" /\ Answer = "pending" /\ Phase' = "running"
    BY <2>1, RunningAnswer DEF Phase
  <2>3. Answer' = Verdict(round)
    BY <2>1 DEF Answer, Verdict
  <2>4. Verdict(round) \in {"violation", "work", "ended"}
    BY DEF Verdict
  <2> QED
    BY <2>1, <2>2, <2>3, <2>4 DEF Contract!ContractNext, Contract!Judge, Contract!Verdicts
<1>4. CASE ContextDone
  <2>1. /\ pc # "end" /\ pc' = "end" /\ wire' = wire
        /\ UNCHANGED <<sequence, taskProtocolRetries>>
    BY <1>4 DEF ContextDone
  <2> QED
    BY <2>1, AbandonStep, RunningAnswer DEF Contract!ContractNext
<1>5. CASE Errors
  <2> PICK failure \in {"upstream", "timeout"} : UpstreamError(failure)
    BY <1>5 DEF Errors
  <2>1. /\ pc # "end" /\ pc' = "end" /\ wire' = Failed(wire, failure)
        /\ UNCHANGED <<sequence, taskProtocolRetries>>
    BY DEF UpstreamError
  <2>2. wire'.terminal \in {"none", "failed"}
    BY <2>1, FailedEffect, RunningAnswer DEF TypeOK
  <2> QED
    BY <2>1, <2>2, AbandonStep DEF Contract!ContractNext
<1>6. CASE Chunk
  <2>1. /\ pc = "stream" /\ pc' = pc /\ UNCHANGED <<sequence, taskProtocolRetries>>
        /\ wire'.terminal = wire.terminal
    BY <1>6, ChunkEffect
  <2>2. wire.terminal = "none"
    BY <2>1, RunningAnswer
  <2> QED
    BY <2>1, <2>2 DEF Phase, Answer
<1>7. CASE TaskProtocolRetry
  <2>1. /\ pc = "decide" /\ Verdict(round) = "violation" /\ pc' = "open"
        /\ taskProtocolRetries < MaxTaskProtocolRetries
        /\ taskProtocolRetries' = taskProtocolRetries + 1 /\ sequence' = sequence + 1
    BY <1>7 DEF TaskProtocolRetry, AskCorrection
  <2>2. Phase = "running" /\ Answer = "violation"
    BY <2>1, RunningAnswer
  <2>3. Phase' = "running" /\ Answer' = "pending"
    BY <1>a, <2>1 DEF StreamInv, InFlight, Streaming, Phase, Answer
  <2>4. sequence' - taskProtocolRetries' = sequence - taskProtocolRetries
    BY <1>0, <2>1
  <2> QED
    BY <2>1, <2>2, <2>3, <2>4 DEF Contract!ContractNext, Contract!Correct
<1>8. CASE TaskProtocolViolation
  <2>1. /\ pc = "decide" /\ pc' = "end" /\ wire' = Failed(ViolationWire, "bridge")
        /\ UNCHANGED <<sequence, taskProtocolRetries>>
    BY <1>8 DEF TaskProtocolViolation
  <2>2. ViolationWire.terminal = "none"
    BY <2>1, CaptureStreams DEF StreamInv, InFlight, Streaming
  <2>3. wire'.terminal \in {"none", "failed"}
    BY <2>1, <2>2, FailedEffect, CaptureType
  <2> QED
    BY <2>1, <2>3, AbandonStep DEF Contract!ContractNext
<1>9. CASE EndTask
  <2>1. /\ pc = "decide" /\ pc' = "end" /\ Verdict(round) = "ended"
        /\ UNCHANGED <<round, sequence, taskProtocolRetries>>
    BY <1>9 DEF EndTask
  <2>2. wire'.terminal = "completed"
    BY <1>9, EndTaskEffect, CompletedMatches DEF StreamInv
  <2> QED
    BY <2>1, <2>2, CompleteStep DEF Contract!ContractNext
<1>10. CASE InternalToolFollowUp
  <2>1. /\ pc = "decide" /\ Verdict(round) = "work" /\ pc' = "open"
        /\ sequence < MaxInternalToolRounds
        /\ taskProtocolRetries' = taskProtocolRetries /\ sequence' = sequence + 1
    BY <1>10 DEF InternalToolFollowUp, AskFollowUp
  <2>2. Phase = "running" /\ Answer = "work"
    BY <2>1, RunningAnswer
  <2>3. Phase' = "running" /\ Answer' = "pending"
    BY <1>a, <2>1 DEF StreamInv, InFlight, Streaming, Phase, Answer
  <2>4. /\ sequence - taskProtocolRetries < MaxInternalToolRounds
        /\ sequence' - taskProtocolRetries' = (sequence - taskProtocolRetries) + 1
    BY <1>0, <2>1
  <2> QED
    BY <2>1, <2>2, <2>3, <2>4 DEF Contract!ContractNext, Contract!FollowUp
<1>11. CASE InternalToolRoundsExceeded
  <2>1. /\ pc = "decide" /\ pc' = "end" /\ wire' = Failed(ToolsWire, "bridge")
        /\ UNCHANGED <<sequence, taskProtocolRetries>>
    BY <1>11 DEF InternalToolRoundsExceeded
  <2>2. ToolsWire.terminal = "none"
    BY <2>1, CaptureStreams DEF StreamInv, InFlight, Streaming
  <2>3. wire'.terminal \in {"none", "failed"}
    BY <2>1, <2>2, FailedEffect, CaptureType
  <2> QED
    BY <2>1, <2>3, AbandonStep DEF Contract!ContractNext
<1>12. CASE ReturnFinal
  <2>1. /\ pc = "decide" /\ pc' = "end" /\ Verdict(round) = "work"
        /\ UNCHANGED <<round, sequence, taskProtocolRetries>>
        /\ wire' = Completed(wire, trace, round.items, KnownIds(round))
    BY <1>12 DEF ReturnFinal
  <2>2. wire'.terminal = "completed"
    BY <2>1, CompletedMatches DEF TypeOK, Rounds, StreamInv, InFlight
  <2> QED
    BY <2>1, <2>2, CompleteStep DEF Contract!ContractNext
<1>13. CASE UNCHANGED vars
  BY <1>13, StuttersContract DEF vars
<1> QED
  BY <1>1, <1>2, <1>3, <1>4, <1>5, <1>6, <1>7, <1>8, <1>9, <1>10, <1>11, <1>12, <1>13
  DEF Next, Upstream, Decide

\* Every streamed chat turn is a turn of TurnContract: at most one verdict per
\* answer, corrections and follow-ups within their limits, and no completion
\* on an answer that broke the protocol.
THEOREM KeepsTheContract == Spec => KeepsContract
<1>1. Init => Contract!ContractInit
  BY DEF Init, Contract!ContractInit, Phase, Answer
<1> QED
  BY <1>1, InitTypeOK, InitStreamInv, StepTypeOK, StepStreamInv, StepContract, PTL
  DEF Spec, KeepsContract, Contract!ContractSpec

-----------------------------------------------------------------------------
(* What Codex may rely on while it reads                                   *)

\* v holds what w held, and possibly more.
Extends(w, v) ==
  /\ w.announced \subseteq v.announced
  /\ Len(w.finished) <= Len(v.finished)
  /\ \A k \in 1..Len(w.finished) : v.finished[k] = w.finished[k]

LEMMA EmitDoneExtends ==
  ASSUME NEW w \in Wires, NEW items \in Seq(Items), NEW offset \in Nat, NEW known
  PROVE  Extends(w, EmitDone(w, items, offset, known))
<1> DEFINE v == EmitDone(w, items, offset, known)
           events == DoneEvents(items, offset)
<1>1. /\ w.finished \in Seq([item : Items, index : Nat])
      /\ events \in Seq([item : Items, index : Nat])
  BY DoneEventsType DEF Wires
<1>2. v.finished = w.finished \o events /\ w.announced \subseteq v.announced
  BY EmitDoneEffect
<1> HIDE DEF v, events
<1>3. /\ Len(w.finished) <= Len(w.finished \o events)
      /\ \A k \in 1..Len(w.finished) : (w.finished \o events)[k] = w.finished[k]
  BY <1>1
<1> QED
  BY <1>2, <1>3 DEF Extends, v

LEMMA ExtendsTransitive ==
  ASSUME NEW u \in Wires, NEW v \in Wires, NEW w \in Wires, Extends(u, v), Extends(v, w)
  PROVE  Extends(u, w)
<1>1. Len(u.finished) \in Nat /\ Len(v.finished) \in Nat /\ Len(w.finished) \in Nat
  BY DEF Wires
<1> QED
  BY <1>1 DEF Extends

LEMMA ExtendsItself ==
  ASSUME NEW w \in Wires, NEW v, v.announced = w.announced, v.finished = w.finished
  PROVE  Extends(w, v)
<1>1. Len(w.finished) \in Nat
  BY DEF Wires
<1> QED
  BY <1>1 DEF Extends

LEMMA CaptureExtends ==
  ASSUME TypeOK
  PROVE  /\ Extends(wire, NarrativeWire) /\ Extends(wire, ToolsWire)
         /\ Extends(wire, ViolationWire)
<1>1. /\ round.narrative \in Seq(Items) /\ round.searches \in Seq(Items)
      /\ wire \in Wires /\ Len(trace) \in Nat
  BY DEF TypeOK, Rounds
<1>2. NarrativeWire \in Wires /\ Len(NarrativeTrace) \in Nat /\ ToolsWire \in Wires
  BY CaptureType
<1>3. Extends(wire, NarrativeWire)
  BY <1>1, EmitDoneExtends DEF NarrativeWire
<1>4. Extends(wire, ToolsWire)
  <2>1. CASE EventsEmitted(round)
    <3>1. Extends(NarrativeWire, ToolsWire)
      BY <1>1, <1>2, <2>1, EmitDoneExtends DEF ToolsWire
    <3> QED
      BY <1>1, <1>2, <1>3, <3>1, ExtendsTransitive
  <2>2. CASE ~EventsEmitted(round)
    BY <1>1, <2>2, EmitDoneExtends DEF ToolsWire
  <2> QED
    BY <2>1, <2>2
<1>5. Extends(wire, ViolationWire)
  BY <1>1, <1>3, ExtendsItself DEF ViolationWire
<1> QED
  BY <1>3, <1>4, <1>5

LEMMA CompletedExtends ==
  ASSUME NEW w \in Wires, NEW tr \in Seq(Items), NEW items \in Seq(Items), NEW known
  PROVE  Extends(w, Completed(w, tr, items, known))
<1> DEFINE v == EmitDone(w, items, Len(tr), known)
<1>1. Len(tr) \in Nat
  OBVIOUS
<1>2. v \in Wires /\ Extends(w, v)
  BY <1>1, EmitDoneType, EmitDoneExtends
<1> HIDE DEF v
<1>3. Completed(w, tr, items, known) =
        [v EXCEPT !.terminal = "completed", !.output = tr \o items]
  BY DEF Completed, v
<1> QED
  BY <1>2, <1>3 DEF Extends, Wires

LEMMA FailedExtends ==
  ASSUME NEW w \in Wires, NEW v \in Wires, Extends(w, v), NEW failure
  PROVE  Extends(w, Failed(v, failure))
BY FailedEffect DEF Extends

LEMMA StepAppends ==
  TypeOK /\ StreamInv /\ [Next]_vars
    => wire' = wire \/ (wire.terminal = "none" /\ Extends(wire, wire'))
<1> SUFFICES ASSUME TypeOK, StreamInv, [Next]_vars, wire' # wire
             PROVE  wire.terminal = "none" /\ Extends(wire, wire')
  OBVIOUS
<1>1. pc # "end" => wire.terminal = "none"
  BY RunningAnswer
<1>2. wire \in Wires
  BY DEF TypeOK
<1>3. CASE Errors
  BY <1>1, <1>2, <1>3, FailedExtends, ExtendsItself DEF Errors, UpstreamError
<1>4. CASE Chunk
  BY <1>1, <1>2, <1>4, ChunkEffect, ExtendsItself DEF Extends
<1>5. CASE TaskProtocolRetry \/ InternalToolFollowUp
  BY <1>1, <1>5, CaptureExtends
  DEF TaskProtocolRetry, AskCorrection, InternalToolFollowUp, AskFollowUp
<1>6. CASE TaskProtocolViolation \/ InternalToolRoundsExceeded
  BY <1>1, <1>2, <1>6, CaptureExtends, CaptureType, FailedExtends
  DEF TaskProtocolViolation, InternalToolRoundsExceeded
<1>7. CASE EndTask
  <2>1. Extends(wire, EndWire)
    BY <1>2, CaptureExtends, ExtendsItself DEF EndWire
  <2>2. /\ EndTrace \in Seq(Items) /\ EndWire \in Wires /\ EndItems \in Seq(Items)
        /\ wire' = Completed(EndWire, EndTrace, EndItems, {})
    BY <1>7, EndTaskEffect DEF StreamInv
  <2>3. Extends(EndWire, wire') /\ wire' \in Wires
    BY <2>2, CompletedExtends, CompletedType
  <2> QED
    BY <1>1, <1>2, <1>7, <2>1, <2>2, <2>3, ExtendsTransitive DEF EndTask
<1>8. CASE ReturnFinal
  BY <1>1, <1>2, <1>8, CompletedExtends DEF ReturnFinal, TypeOK, Rounds
<1> QED
  BY <1>3, <1>4, <1>5, <1>6, <1>7, <1>8
  DEF Next, Upstream, Decide, Cancel, Open, ContextDone, StreamDone, vars

\* What Codex has been sent is never revised, and nothing follows a terminal
\* event.
THEOREM WireOnlyGrows == Spec => WireAppendOnly
<1>1. TypeOK /\ StreamInv /\ [Next]_vars
        => [/\ wire.terminal = "none"
            /\ wire.announced \subseteq wire'.announced
            /\ Len(wire.finished) <= Len(wire'.finished)
            /\ \A k \in 1..Len(wire.finished) : wire'.finished[k] = wire.finished[k]]_wire
  BY StepAppends DEF Extends
<1> QED
  BY <1>1, InitTypeOK, InitStreamInv, StepTypeOK, StepStreamInv, PTL
  DEF Spec, WireAppendOnly

LEMMA StepSilent ==
  TypeOK /\ StreamInv /\ [Next]_vars
    => (pc # "end" /\ pc' = "end" /\ wire'.terminal = "none"
          => canceled \/ UpstreamError("timeout"))
<1> SUFFICES ASSUME TypeOK, StreamInv, [Next]_vars, pc # "end", pc' = "end",
                    wire'.terminal = "none", ~canceled
             PROVE  UpstreamError("timeout")
  OBVIOUS
<1>1. CASE Errors
  <2> PICK failure \in {"upstream", "timeout"} : UpstreamError(failure)
    BY <1>1 DEF Errors
  <2>1. wire' = Failed(wire, failure)
    BY DEF UpstreamError
  <2>2. failure = "timeout"
    BY <2>1, FailedEffect DEF TypeOK
  <2> QED
    BY <2>2
<1>2. CASE TaskProtocolViolation \/ InternalToolRoundsExceeded
  <2>1. wire' = Failed(ViolationWire, "bridge") \/ wire' = Failed(ToolsWire, "bridge")
    BY <1>2 DEF TaskProtocolViolation, InternalToolRoundsExceeded
  <2> QED
    BY <2>1, CaptureType, FailedEffect
<1>3. CASE EndTask
  BY <1>3, EndTaskEffect, CompletedMatches DEF StreamInv
<1>4. CASE ReturnFinal
  BY <1>4, CompletedMatches DEF ReturnFinal, TypeOK, Rounds, StreamInv, InFlight
<1>5. CASE Chunk
  BY <1>5, ChunkEffect
<1> QED
  BY <1>1, <1>2, <1>3, <1>4, <1>5
  DEF Next, Upstream, Decide, Cancel, Open, ContextDone, StreamDone,
      TaskProtocolRetry, AskCorrection, InternalToolFollowUp, AskFollowUp, vars

\* A turn ends silently only for a client that left, or on the timeout of the
\* upstream client, which requestCanceled cannot tell apart.
THEOREM SilenceMeansGivenUp == Spec => SilentOnlyWhenGivenUp
<1>1. TypeOK /\ StreamInv /\ [Next]_vars
        => [pc # "end" /\ pc' = "end" /\ wire'.terminal = "none"
              => canceled \/ UpstreamError("timeout")]_vars
  BY StepSilent
<1> QED
  BY <1>1, InitTypeOK, InitStreamInv, StepTypeOK, StepStreamInv, PTL
  DEF Spec, SilentOnlyWhenGivenUp

-----------------------------------------------------------------------------
(* The items Codex is shown: their ids, their announcements, the result of *)
(* the task.  The inductive invariants                                     *)

Unique(items) == \A i, j \in 1..Len(items) : items[i].id = items[j].id => i = j

\* The ids of what earlier rounds left behind, and of what this round holds.
TraceIds ==
  /\ Unique(trace)
  /\ \A k \in 1..Len(trace) :
       \/ trace[k].id.prefix \in {"msg", "rs"} /\ trace[k].id.n < Len(trace)
       \/ trace[k].id.prefix = "fco" /\ trace[k].id.n < sequence

OwnId(r, id) ==
  \/ r.textAdded /\ id = r.textItemID
  \/ r.reasoningAdded /\ id = r.reasoningItemID

CallId(prefix, n, count, id) == \E j \in 1..count : id = ItemId(prefix, n, j)

RoundIds ==
  /\ round.textItemID = ItemId("msg", Len(trace), 0)
  /\ round.reasoningItemID = ItemId("rs", Len(trace), 0)
  /\ Unique(round.narrative) /\ Unique(round.items) /\ Unique(round.searches)
  /\ \A k \in 1..Len(round.narrative) : OwnId(round, round.narrative[k].id)
  /\ \A k \in 1..Len(round.items) :
       OwnId(round, round.items[k].id) \/ CallId("call", sequence, Len(round.calls), round.items[k].id)
  /\ \A k \in 1..Len(round.searches) : CallId("fco", sequence, Len(round.calls), round.searches[k].id)

\* A message that was announced is in the trace or in the round.
MessagesHeld ==
  /\ round.textAdded =>
       /\ \E k \in 1..Len(round.narrative) : round.narrative[k].id = round.textItemID
       /\ \E k \in 1..Len(round.items) : round.items[k].id = round.textItemID
  /\ MaxTaskProtocolRetries <= 1 =>
       \A p \in wire.announced : p.id.prefix = "msg" =>
         \/ \E k \in 1..Len(trace) : trace[k].id = p.id
         \/ round.emitEvents /\ round.textAdded /\ p.id = round.textItemID

PlacesFrom(items, offset) ==
  {[id |-> items[k].id, index |-> offset + k - 1] : k \in 1..Len(items)}

\* In canonical order the narrative leads the round's items.
NarrativeLeads ==
  /\ round.nextOutputIndex = Len(trace) + Len(round.items)
  /\ Len(round.narrative) <= Len(round.items)
  /\ \A k \in 1..Len(round.narrative) : round.items[k] = round.narrative[k]
  /\ \A k \in (Len(round.narrative) + 1)..Len(round.items) : round.items[k].id.prefix = "call"
  /\ round.calls = <<>> => Len(round.items) = Len(round.narrative)
  /\ round.textAdded \/ round.reasoningAdded <=> Len(round.narrative) > 0

\* Then the announcements are those of the trace and of the narrative.
AnnouncedHeld ==
  CanonicalOrder /\ MaxTaskProtocolRetries <= 1 =>
    /\ NarrativeLeads
    /\ wire.reannounced = {}
    /\ wire.announced =
         PlacesFrom(trace, 0) \cup
         (IF round.emitEvents THEN PlacesFrom(round.narrative, Len(trace)) ELSE {})

WireInv ==
  pc # "end" => TraceIds /\ RoundIds /\ MessagesHeld /\ AnnouncedHeld
-----------------------------------------------------------------------------
(* Items and their places                                                  *)

LEMMA Fields ==
  ASSUME TypeOK
  PROVE  /\ trace \in Seq(Items) /\ Len(trace) \in Nat /\ sequence \in Nat /\ wire \in Wires
         /\ round.narrative \in Seq(Items) /\ Len(round.narrative) \in Nat
         /\ round.items \in Seq(Items) /\ Len(round.items) \in Nat
         /\ round.searches \in Seq(Items) /\ Len(round.searches) \in Nat
         /\ round.calls \in Seq(Calls) /\ Len(round.calls) \in Nat
         /\ round.textItemID \in ItemIds /\ round.reasoningItemID \in ItemIds
         /\ round.nextOutputIndex \in Nat /\ round.emitEvents \in BOOLEAN
         /\ round.textAdded \in BOOLEAN /\ round.reasoningAdded \in BOOLEAN
BY DEF TypeOK, Rounds

LEMMA ItemNumbers ==
  ASSUME NEW items \in Seq(Items)
  PROVE  \A k \in 1..Len(items) : items[k].id.n \in Nat
<1>1. \A item \in Items : item.id \in ItemIds
  BY DEF Items
<1>2. \A id \in ItemIds : id.n \in Nat
  BY DEF ItemIds
<1>3. \A k \in 1..Len(items) : items[k] \in Items
  OBVIOUS
<1> QED
  BY <1>1, <1>2, <1>3

LEMMA CallIdFields ==
  ASSUME NEW prefix, NEW n, NEW count, NEW id, CallId(prefix, n, count, id)
  PROVE  id.prefix = prefix /\ id.n = n
BY DEF CallId, ItemId

\* One more item with an id of its own.
LEMMA UniqueAppend ==
  ASSUME NEW s \in Seq(Items), NEW item \in Items, Unique(s),
         \A k \in 1..Len(s) : s[k].id # item.id
  PROVE  /\ Append(s, item) \in Seq(Items) /\ Len(Append(s, item)) = Len(s) + 1
         /\ \A k \in 1..Len(s) : Append(s, item)[k] = s[k]
         /\ Append(s, item)[Len(s) + 1] = item
         /\ Unique(Append(s, item))
<1> DEFINE t == Append(s, item)
<1>1. /\ t \in Seq(Items) /\ Len(t) = Len(s) + 1 /\ Len(s) \in Nat
      /\ \A k \in 1..Len(s) : t[k] = s[k]
      /\ t[Len(s) + 1] = item
  OBVIOUS
<1> HIDE DEF t
<1>2. Unique(t)
  <2> SUFFICES ASSUME NEW i \in 1..Len(t), NEW j \in 1..Len(t), t[i].id = t[j].id
               PROVE  i = j
    BY DEF Unique
  <2>1. /\ i \in 1..Len(s) \/ i = Len(s) + 1
        /\ j \in 1..Len(s) \/ j = Len(s) + 1
    BY <1>1
  <2> QED
    BY <1>1, <2>1 DEF Unique
<1> QED
  BY <1>1, <1>2 DEF t

LEMMA UniqueConcat ==
  ASSUME NEW s \in Seq(Items), NEW t \in Seq(Items), Unique(s), Unique(t),
         \A i \in 1..Len(s) : \A j \in 1..Len(t) : s[i].id # t[j].id
  PROVE  Unique(s \o t)
<1> SUFFICES ASSUME NEW i \in 1..Len(s \o t), NEW j \in 1..Len(s \o t),
                    (s \o t)[i].id = (s \o t)[j].id
             PROVE  i = j
  BY DEF Unique
<1>1. /\ i \in 1..Len(s) \/ i - Len(s) \in 1..Len(t)
      /\ j \in 1..Len(s) \/ j - Len(s) \in 1..Len(t)
      /\ i \in 1..Len(s) => (s \o t)[i] = s[i]
      /\ j \in 1..Len(s) => (s \o t)[j] = s[j]
      /\ i \notin 1..Len(s) => (s \o t)[i] = t[i - Len(s)]
      /\ j \notin 1..Len(s) => (s \o t)[j] = t[j - Len(s)]
      /\ i \in Nat /\ j \in Nat /\ Len(s) \in Nat
  OBVIOUS
<1>2. CASE i \in 1..Len(s) /\ j \in 1..Len(s)
  BY <1>1, <1>2 DEF Unique
<1>3. CASE i \notin 1..Len(s) /\ j \notin 1..Len(s)
  <2>1. i - Len(s) = j - Len(s)
    BY <1>1, <1>3 DEF Unique
  <2> QED
    BY <1>1, <2>1
<1>4. CASE i \in 1..Len(s) /\ j \notin 1..Len(s)
  BY <1>1, <1>4
<1>5. CASE i \notin 1..Len(s) /\ j \in 1..Len(s)
  BY <1>1, <1>5
<1> QED
  BY <1>2, <1>3, <1>4, <1>5

\* The items of two sequences, one after the other.
LEMMA ConcatItems ==
  ASSUME NEW s \in Seq(Items), NEW t \in Seq(Items)
  PROVE  /\ s \o t \in Seq(Items) /\ Len(s \o t) = Len(s) + Len(t)
         /\ \A k \in 1..Len(s) : k \in 1..Len(s \o t) /\ (s \o t)[k] = s[k]
         /\ \A k \in 1..Len(t) : Len(s) + k \in 1..Len(s \o t) /\ (s \o t)[Len(s) + k] = t[k]
         /\ \A k \in 1..Len(s \o t) :
              \/ k \in 1..Len(s) /\ (s \o t)[k] = s[k]
              \/ \E j \in 1..Len(t) : k = Len(s) + j /\ (s \o t)[k] = t[j]
<1>1. /\ s \o t \in Seq(Items) /\ Len(s \o t) = Len(s) + Len(t)
      /\ Len(s) \in Nat /\ Len(t) \in Nat
      /\ \A k \in 1..Len(s) : (s \o t)[k] = s[k]
  OBVIOUS
<1>2. ASSUME NEW k \in 1..Len(t) PROVE (s \o t)[Len(s) + k] = t[k]
  OBVIOUS
<1>3. ASSUME NEW k \in 1..Len(s \o t), k \notin 1..Len(s)
      PROVE  \E j \in 1..Len(t) : k = Len(s) + j /\ (s \o t)[k] = t[j]
  <2>1. k - Len(s) \in 1..Len(t) /\ k = Len(s) + (k - Len(s))
    BY <1>1, <1>3
  <2> QED
    BY <1>2, <2>1
<1>4. \A k \in 1..Len(s) : k \in 1..Len(s \o t)
  BY <1>1
<1>5. \A k \in 1..Len(t) : Len(s) + k \in 1..Len(s \o t)
  BY <1>1
<1> DEFINE u == s \o t
<1>6. /\ u \in Seq(Items) /\ Len(u) = Len(s) + Len(t)
      /\ \A k \in 1..Len(s) : k \in 1..Len(u) /\ u[k] = s[k]
      /\ \A k \in 1..Len(t) : Len(s) + k \in 1..Len(u) /\ u[Len(s) + k] = t[k]
      /\ \A k \in 1..Len(u) : k \notin 1..Len(s) =>
           \E j \in 1..Len(t) : k = Len(s) + j /\ u[k] = t[j]
  BY <1>1, <1>2, <1>3, <1>4, <1>5
<1> HIDE DEF u
<1>7. \A k \in 1..Len(u) :
        \/ k \in 1..Len(s) /\ u[k] = s[k]
        \/ \E j \in 1..Len(t) : k = Len(s) + j /\ u[k] = t[j]
  BY <1>6
<1> QED
  BY <1>6, <1>7 DEF u

LEMMA PlacesConcat ==
  ASSUME NEW s \in Seq(Items), NEW t \in Seq(Items), NEW offset \in Nat
  PROVE  PlacesFrom(s \o t, offset) = PlacesFrom(s, offset) \cup PlacesFrom(t, offset + Len(s))
<1>0. Len(s) \in Nat /\ Len(t) \in Nat
  OBVIOUS
<1>1. ASSUME NEW p \in PlacesFrom(s \o t, offset)
      PROVE  p \in PlacesFrom(s, offset) \cup PlacesFrom(t, offset + Len(s))
  <2>1. PICK k \in 1..Len(s \o t) : p = [id |-> (s \o t)[k].id, index |-> offset + k - 1]
    BY DEF PlacesFrom
  <2>2. CASE k \in 1..Len(s) /\ (s \o t)[k] = s[k]
    BY <2>1, <2>2 DEF PlacesFrom
  <2>3. ASSUME NEW j \in 1..Len(t), k = Len(s) + j, (s \o t)[k] = t[j]
        PROVE  p \in PlacesFrom(t, offset + Len(s))
    <3>1. offset + k - 1 = (offset + Len(s)) + j - 1
      BY <1>0, <2>3
    <3> QED
      BY <2>1, <2>3, <3>1 DEF PlacesFrom
  <2> QED
    BY <2>2, <2>3, ConcatItems
<1>2. ASSUME NEW p \in PlacesFrom(s, offset) PROVE p \in PlacesFrom(s \o t, offset)
  BY ConcatItems DEF PlacesFrom
<1>3. ASSUME NEW p \in PlacesFrom(t, offset + Len(s)) PROVE p \in PlacesFrom(s \o t, offset)
  <2>1. PICK j \in 1..Len(t) : p = [id |-> t[j].id, index |-> (offset + Len(s)) + j - 1]
    BY DEF PlacesFrom
  <2>2. /\ Len(s) + j \in 1..Len(s \o t) /\ (s \o t)[Len(s) + j] = t[j]
        /\ (offset + Len(s)) + j - 1 = offset + (Len(s) + j) - 1
    BY <1>0, ConcatItems
  <2> QED
    BY <2>1, <2>2 DEF PlacesFrom
<1> QED
  BY <1>1, <1>2, <1>3

\* Places are within the indexes their items take.
LEMMA PlacesBound ==
  ASSUME NEW s \in Seq(Items), NEW offset \in Nat, NEW p \in PlacesFrom(s, offset)
  PROVE  p.index \in Nat /\ offset <= p.index /\ p.index < offset + Len(s)
BY DEF PlacesFrom

LEMMA PlacesAppend ==
  ASSUME NEW s \in Seq(Items), NEW item \in Items, NEW offset \in Nat
  PROVE  PlacesFrom(Append(s, item), offset) =
           PlacesFrom(s, offset) \cup {[id |-> item.id, index |-> offset + Len(s)]}
<1>1. Append(s, item) = s \o <<item>> /\ <<item>> \in Seq(Items)
  OBVIOUS
<1>2. offset + Len(s) \in Nat
  OBVIOUS
<1> DEFINE one == <<item>>
<1>3. PlacesFrom(one, offset + Len(s)) = {[id |-> item.id, index |-> offset + Len(s)]}
  <2> DEFINE m == offset + Len(s)
  <2>1. m \in Nat /\ m + 1 - 1 = m /\ Len(<<item>>) = 1 /\ 1..1 = {1} /\ <<item>>[1] = item
    BY <1>2
  <2> HIDE DEF m
  <2>2. PlacesFrom(<<item>>, m) = {[id |-> item.id, index |-> m]}
    BY <2>1 DEF PlacesFrom
  <2> QED
    BY <2>2 DEF m
<1> QED
  <2>1. one \in Seq(Items) /\ Append(s, item) = s \o one
    BY <1>1
  <2> HIDE DEF one
  <2> QED
    BY <1>3, <2>1, PlacesConcat

LEMMA AnnounceEffect ==
  ASSUME NEW w \in Wires, NEW places
  PROVE  /\ Announce(w, places).announced = w.announced \cup places
         /\ Announce(w, places).reannounced = w.reannounced \cup (places \cap w.announced)
BY DEF Announce, Wires

LEMMA EmitDoneAnnounces ==
  ASSUME NEW w \in Wires, NEW items \in Seq(Items), NEW offset \in Nat, NEW known
  PROVE  LET v == EmitDone(w, items, offset, known)
             places == UnknownPlaces(items, offset, known)
         IN /\ v.announced = w.announced \cup places
            /\ v.reannounced = w.reannounced \cup (places \cap w.announced)
BY DEF EmitDone, Announce, Wires

-----------------------------------------------------------------------------
(* A round grows                                                           *)

\* A narrative item with a fresh id is announced and joins the round.
NarrativeGrows(item) ==
  /\ item \in Items
  /\ round'.narrative = Append(round.narrative, item)
  /\ round'.items = Append(round.items, item)
  /\ round'.searches = round.searches /\ round'.calls = round.calls
  /\ round'.textItemID = round.textItemID /\ round'.reasoningItemID = round.reasoningItemID
  /\ round'.nextOutputIndex = round.nextOutputIndex + 1 /\ round'.emitEvents = round.emitEvents
  /\ AnnounceNext(item.id)
  /\ UNCHANGED <<pc, trace, sequence>>
  /\ CanonicalOrder => round.calls = <<>>

LEMMA GrowsIds ==
  ASSUME TypeOK, RoundIds, NEW item, NarrativeGrows(item),
         OwnId(round', item.id),
         ~OwnId(round, item.id), \A id : OwnId(round, id) => OwnId(round', id)
  PROVE  /\ RoundIds'
         /\ \A k \in 1..Len(round.narrative) : round'.narrative[k] = round.narrative[k]
         /\ \A k \in 1..Len(round.items) : round'.items[k] = round.items[k]
         /\ Len(round'.narrative) = Len(round.narrative) + 1
         /\ Len(round'.items) = Len(round.items) + 1
         /\ round'.narrative[Len(round.narrative) + 1] = item
         /\ round'.items[Len(round.items) + 1] = item
<1>1. /\ round.narrative \in Seq(Items) /\ round.items \in Seq(Items) /\ item \in Items
      /\ Len(round.narrative) \in Nat /\ Len(round.items) \in Nat
      /\ Unique(round.narrative) /\ Unique(round.items)
  BY Fields DEF RoundIds, NarrativeGrows
<1>2. \A k \in 1..Len(round.narrative) : round.narrative[k].id # item.id
  BY DEF RoundIds
<1>3. \A k \in 1..Len(round.items) : round.items[k].id # item.id
  <2>1. ~CallId("call", sequence, Len(round.calls), item.id)
    <3>1. item.id \in {ItemId("msg", Len(trace), 0), ItemId("rs", Len(trace), 0)}
      BY DEF OwnId, NarrativeGrows, RoundIds
    <3>2. item.id.prefix \in {"msg", "rs"}
      BY <3>1 DEF ItemId
    <3> QED
      BY <3>2, CallIdFields
  <2> QED
    BY <2>1 DEF RoundIds
<1>4. /\ Len(round'.narrative) = Len(round.narrative) + 1 /\ Unique(round'.narrative)
      /\ \A k \in 1..Len(round.narrative) : round'.narrative[k] = round.narrative[k]
      /\ round'.narrative[Len(round.narrative) + 1] = item
  BY <1>1, <1>2, UniqueAppend DEF NarrativeGrows
<1>5. /\ Len(round'.items) = Len(round.items) + 1 /\ Unique(round'.items)
      /\ \A k \in 1..Len(round.items) : round'.items[k] = round.items[k]
      /\ round'.items[Len(round.items) + 1] = item
  <2>1. round'.items = Append(round.items, item)
    BY DEF NarrativeGrows
  <2> QED
    BY <1>1, <1>3, <2>1, UniqueAppend
<1>6. \A k \in 1..Len(round'.narrative) : OwnId(round', round'.narrative[k].id)
  <2>1. \A k \in 1..Len(round'.narrative) :
          k \in 1..Len(round.narrative) \/ k = Len(round.narrative) + 1
    BY <1>1, <1>4
  <2> QED
    BY <1>4, <2>1 DEF RoundIds
<1>7. \A k \in 1..Len(round'.items) :
        \/ OwnId(round', round'.items[k].id)
        \/ CallId("call", sequence', Len(round'.calls), round'.items[k].id)
  <2>1. \A k \in 1..Len(round'.items) :
          k \in 1..Len(round.items) \/ k = Len(round.items) + 1
    BY <1>1, <1>5
  <2>2. sequence' = sequence /\ round'.calls = round.calls
    BY DEF NarrativeGrows
  <2> QED
    BY <1>5, <2>1, <2>2 DEF RoundIds
<1>8. \A k \in 1..Len(round'.searches) : 
        CallId("fco", sequence', Len(round'.calls), round'.searches[k].id)
  BY DEF CallId, NarrativeGrows, RoundIds
<1>9. /\ Unique(round'.searches) /\ round'.textItemID = ItemId("msg", Len(trace'), 0)
      /\ round'.reasoningItemID = ItemId("rs", Len(trace'), 0)
  BY DEF NarrativeGrows, RoundIds
<1> QED
  BY <1>1, <1>4, <1>5, <1>6, <1>7, <1>8, <1>9 DEF RoundIds

\* The place announced is the one the item gets in the narrative.
LEMMA GrowsAnnounced ==
  ASSUME TypeOK, AnnouncedHeld, NEW item, NarrativeGrows(item),
         round'.textAdded \/ round'.reasoningAdded
  PROVE  AnnouncedHeld'
<1> SUFFICES ASSUME CanonicalOrder, MaxTaskProtocolRetries <= 1
             PROVE  /\ NarrativeLeads' /\ wire'.reannounced = {}
                    /\ wire'.announced =
                         PlacesFrom(trace', 0) \cup
                         (IF round'.emitEvents THEN PlacesFrom(round'.narrative, Len(trace')) ELSE {})
  BY DEF AnnouncedHeld
<1> DEFINE n == Len(trace)
           s == round.narrative
           place == [id |-> item.id, index |-> n + Len(s)]
<1>1. /\ s \in Seq(Items) /\ round.items \in Seq(Items) /\ item \in Items /\ trace \in Seq(Items)
      /\ Len(s) \in Nat /\ Len(round.items) \in Nat /\ n \in Nat /\ wire \in Wires
  BY Fields DEF NarrativeGrows
<1>2. NarrativeLeads /\ wire.reannounced = {} /\ Len(round.items) = Len(s)
      /\ round.nextOutputIndex = n + Len(s)
      /\ wire.announced =
           PlacesFrom(trace, 0) \cup (IF round.emitEvents THEN PlacesFrom(s, n) ELSE {})
  BY DEF AnnouncedHeld, NarrativeLeads, NarrativeGrows
<1>3. /\ round'.narrative = Append(s, item) /\ round'.items = Append(round.items, item)
      /\ trace' = trace /\ round'.emitEvents = round.emitEvents
      /\ round'.nextOutputIndex = round.nextOutputIndex + 1 /\ round'.calls = round.calls
  BY DEF NarrativeGrows
<1>4. NarrativeLeads'
  <2>1. \A k \in 1..Len(s) : Append(s, item)[k] = s[k] /\ Append(round.items, item)[k] = round.items[k]
    BY <1>1, <1>2
  <2>2. /\ Append(s, item)[Len(s) + 1] = item /\ Append(round.items, item)[Len(s) + 1] = item
        /\ Len(Append(s, item)) = Len(s) + 1 /\ Len(Append(round.items, item)) = Len(s) + 1
    BY <1>1, <1>2
  <2>3. \A k \in 1..(Len(s) + 1) : k \in 1..Len(s) \/ k = Len(s) + 1
    BY <1>1
  <2>4. \A k \in 1..Len(s) : round.items[k] = s[k]
    BY <1>2 DEF NarrativeLeads
  <2> HIDE DEF s
  <2> QED
    BY <1>1, <1>2, <1>3, <2>1, <2>2, <2>3, <2>4 DEF NarrativeLeads
<1>5. PlacesFrom(round'.narrative, n) = PlacesFrom(s, n) \cup {place}
  <2> HIDE DEF s, n
  <2>1. PlacesFrom(Append(s, item), n) = PlacesFrom(s, n) \cup {[id |-> item.id, index |-> n + Len(s)]}
    BY <1>1, PlacesAppend
  <2> QED
    BY <1>3, <2>1
<1>6. place \notin wire.announced
  <2>1. place.index = n + Len(s)
    OBVIOUS
  <2>2. \A p \in PlacesFrom(trace, 0) : p.index # n + Len(s)
    BY <1>1, PlacesBound
  <2>3. \A p \in PlacesFrom(s, n) : p.index # n + Len(s)
    BY <1>1, PlacesBound
  <2> HIDE DEF place
  <2> QED
    BY <1>2, <2>1, <2>2, <2>3
<1>7. wire' = IF round.emitEvents THEN Announce(wire, {place}) ELSE wire
  BY <1>2 DEF NarrativeGrows, AnnounceNext
<1> HIDE DEF place, s, n
<1>8. /\ round.emitEvents => wire'.announced = wire.announced \cup {place} /\ wire'.reannounced = {}
      /\ ~round.emitEvents => wire' = wire
  BY <1>1, <1>2, <1>6, <1>7, AnnounceEffect
<1>9. Len(trace') = n
  BY <1>3 DEF n
<1> QED
  BY <1>2, <1>3, <1>4, <1>5, <1>8, <1>9

\* An id that is announced is announced as the next place.
LEMMA NextAnnounced ==
  ASSUME TypeOK, NEW id, AnnounceNext(id)
  PROVE  \A p \in wire'.announced : p \in wire.announced \/ (round.emitEvents /\ p.id = id)
<1>1. wire' = IF round.emitEvents
              THEN Announce(wire, {[id |-> id, index |-> round.nextOutputIndex]}) ELSE wire
  BY DEF AnnounceNext
<1>2. wire \in Wires
  BY Fields
<1> QED
  BY <1>1, <1>2, AnnounceEffect

LEMMA AddTextKeeps ==
  ASSUME TypeOK, WireInv, NEW text \in Texts, AddText(text)
  PROVE  WireInv'
<1> DEFINE item == Item(round.textItemID, "message", text)
<1>1. pc = "stream" /\ pc' = pc /\ ~round.textAdded /\ TraceIds /\ RoundIds /\ MessagesHeld /\ AnnouncedHeld
  BY DEF WireInv, AddText
<1>2. item \in Items /\ item.id = round.textItemID
  BY Fields DEF Item, Items, ItemTypes
<1>3. /\ NarrativeGrows(item)
      /\ round'.textAdded /\ round'.reasoningAdded = round.reasoningAdded
  <2>1. round \in Rounds
    BY DEF TypeOK
  <2>2. /\ round' = [round EXCEPT !.textAdded = TRUE, !.nextOutputIndex = @ + 1,
                      !.narrative = Append(@, item), !.items = Append(@, item)]
        /\ AnnounceNext(item.id) /\ UNCHANGED <<pc, trace, sequence>>
        /\ CanonicalOrder => round.calls = <<>>
    BY <1>2 DEF AddText
  <2> HIDE DEF item
  <2> QED
    BY <1>2, <2>1, <2>2 DEF NarrativeGrows, Rounds
<1> HIDE DEF item
<1>4. /\ OwnId(round', item.id) /\ ~OwnId(round, item.id)
      /\ \A id : OwnId(round, id) => OwnId(round', id)
  BY <1>1, <1>2, <1>3 DEF OwnId, NarrativeGrows, RoundIds, ItemId
<1>5. /\ RoundIds' /\ Len(round'.narrative) = Len(round.narrative) + 1
      /\ Len(round'.items) = Len(round.items) + 1
      /\ round'.narrative[Len(round.narrative) + 1] = item
      /\ round'.items[Len(round.items) + 1] = item
  BY <1>1, <1>3, <1>4, GrowsIds
<1>6. AnnouncedHeld'
  BY <1>1, <1>3, GrowsAnnounced
<1>7. TraceIds'
  BY <1>1, <1>3 DEF NarrativeGrows, TraceIds
<1>8. MessagesHeld'
  <2>1. /\ \E k \in 1..Len(round'.narrative) : round'.narrative[k].id = round'.textItemID
        /\ \E k \in 1..Len(round'.items) : round'.items[k].id = round'.textItemID
    <3>1. /\ Len(round.narrative) + 1 \in 1..Len(round'.narrative)
          /\ Len(round.items) + 1 \in 1..Len(round'.items)
          /\ round'.textItemID = item.id
      BY <1>2, <1>3, <1>5, Fields DEF NarrativeGrows
    <3> QED
      BY <1>5, <3>1
  <2>2. ASSUME MaxTaskProtocolRetries <= 1, NEW p \in wire'.announced, p.id.prefix = "msg"
        PROVE  \/ \E k \in 1..Len(trace') : trace'[k].id = p.id
               \/ round'.emitEvents /\ round'.textAdded /\ p.id = round'.textItemID
    BY <1>1, <1>2, <1>3, <2>2, NextAnnounced DEF NarrativeGrows, MessagesHeld
  <2> QED
    BY <2>1, <2>2 DEF MessagesHeld
<1> QED
  BY <1>5, <1>6, <1>7, <1>8 DEF WireInv

LEMMA AddReasoningKeeps ==
  ASSUME TypeOK, WireInv, NEW blank \in BOOLEAN, AddReasoning(blank)
  PROVE  WireInv'
<1> DEFINE item == Item(round.reasoningItemID, "reasoning", NoText)
<1>1. /\ pc = "stream" /\ pc' = pc /\ ~round.reasoningAdded
      /\ TraceIds /\ RoundIds /\ MessagesHeld /\ AnnouncedHeld
      /\ AnnounceNext(round.reasoningItemID) /\ UNCHANGED <<pc, trace, sequence>>
      /\ CanonicalOrder => ~blank /\ ~round.textAdded /\ round.calls = <<>>
  BY DEF WireInv, AddReasoning
<1>2. /\ item \in Items /\ item.id = round.reasoningItemID /\ round \in Rounds
      /\ <<item>> \in Seq(Items) /\ item.id.prefix = "rs"
  <2>1. item \in Items /\ item.id = round.reasoningItemID /\ round \in Rounds
    BY Fields DEF Item, Items, ItemTypes, TypeOK
  <2>2. round.reasoningItemID.prefix = "rs"
    BY <1>1 DEF RoundIds, ItemId
  <2> HIDE DEF item
  <2> QED
    BY <2>1, <2>2
<1> HIDE DEF item
<1>3. TraceIds'
  BY <1>1 DEF TraceIds
<1>4. round' = [round EXCEPT !.reasoningAdded = TRUE, !.nextOutputIndex = @ + 1,
                  !.narrative = @ \o (IF blank THEN <<>> ELSE <<item>>),
                  !.items = @ \o (IF blank THEN <<>> ELSE <<item>>)]
  BY DEF AddReasoning, item
<1>5. /\ round'.reasoningAdded /\ round'.textAdded = round.textAdded
      /\ round'.searches = round.searches /\ round'.calls = round.calls
      /\ round'.textItemID = round.textItemID /\ round'.reasoningItemID = round.reasoningItemID
      /\ round'.nextOutputIndex = round.nextOutputIndex + 1 /\ round'.emitEvents = round.emitEvents
      /\ blank => round'.narrative = round.narrative /\ round'.items = round.items
      /\ ~blank => /\ round'.narrative = Append(round.narrative, item)
                   /\ round'.items = Append(round.items, item)
  <2>1. /\ \A s \in Seq(Items) : s \o <<>> = s
        /\ \A s \in Seq(Items) : s \o <<item>> = Append(s, item)
    BY <1>2
  <2>2. round.narrative \in Seq(Items) /\ round.items \in Seq(Items)
    BY Fields
  <2>3. /\ round'.narrative = round.narrative \o (IF blank THEN <<>> ELSE <<item>>)
        /\ round'.items = round.items \o (IF blank THEN <<>> ELSE <<item>>)
        /\ round'.reasoningAdded /\ round'.textAdded = round.textAdded
        /\ round'.searches = round.searches /\ round'.calls = round.calls
        /\ round'.textItemID = round.textItemID /\ round'.reasoningItemID = round.reasoningItemID
        /\ round'.nextOutputIndex = round.nextOutputIndex + 1
        /\ round'.emitEvents = round.emitEvents
    BY <1>2, <1>4 DEF Rounds
  <2> QED
    BY <2>1, <2>2, <2>3
<1>6. \A p \in wire'.announced : p \in wire.announced \/ p.id.prefix # "msg"
  BY <1>1, <1>2, NextAnnounced
<1>7. CASE blank
  <2>1. RoundIds'
    BY <1>1, <1>5, <1>7 DEF RoundIds, OwnId
  <2>2. MessagesHeld'
    BY <1>1, <1>5, <1>6, <1>7 DEF MessagesHeld
  <2>3. AnnouncedHeld'
    BY <1>1, <1>7 DEF AnnouncedHeld
  <2> QED
    BY <1>3, <2>1, <2>2, <2>3 DEF WireInv
<1>8. CASE ~blank
  <2>1. NarrativeGrows(item)
    BY <1>1, <1>2, <1>5, <1>8 DEF NarrativeGrows
  <2>2. /\ OwnId(round', item.id) /\ ~OwnId(round, item.id)
        /\ \A id : OwnId(round, id) => OwnId(round', id)
    BY <1>1, <1>2, <1>5 DEF OwnId, RoundIds, ItemId
  <2>3. /\ RoundIds'
        /\ \A k \in 1..Len(round.narrative) : round'.narrative[k] = round.narrative[k]
        /\ \A k \in 1..Len(round.items) : round'.items[k] = round.items[k]
        /\ Len(round'.narrative) = Len(round.narrative) + 1
        /\ Len(round'.items) = Len(round.items) + 1
    BY <1>1, <2>1, <2>2, GrowsIds
  <2>4. AnnouncedHeld'
    BY <1>1, <1>5, <2>1, GrowsAnnounced
  <2>5. MessagesHeld'
    <3>1. round'.textAdded =>
            /\ \E k \in 1..Len(round'.narrative) : round'.narrative[k].id = round'.textItemID
            /\ \E k \in 1..Len(round'.items) : round'.items[k].id = round'.textItemID
      <4>1. /\ \A k \in 1..Len(round.narrative) : k \in 1..Len(round'.narrative)
            /\ \A k \in 1..Len(round.items) : k \in 1..Len(round'.items)
        BY <2>3, Fields
      <4>2. SUFFICES ASSUME round.textAdded
            PROVE  /\ \E k \in 1..Len(round'.narrative) : round'.narrative[k].id = round.textItemID
                   /\ \E k \in 1..Len(round'.items) : round'.items[k].id = round.textItemID
        BY <1>5
      <4>3. PICK a \in 1..Len(round.narrative) : round.narrative[a].id = round.textItemID
        BY <1>1, <4>2 DEF MessagesHeld
      <4>4. PICK b \in 1..Len(round.items) : round.items[b].id = round.textItemID
        BY <1>1, <4>2 DEF MessagesHeld
      <4>5. a \in 1..Len(round'.narrative) /\ round'.narrative[a] = round.narrative[a]
        BY <2>3, <4>1
      <4>6. b \in 1..Len(round'.items) /\ round'.items[b] = round.items[b]
        BY <2>3, <4>1
      <4> QED
        BY <4>3, <4>4, <4>5, <4>6
    <3>2. ASSUME MaxTaskProtocolRetries <= 1, NEW p \in wire'.announced, p.id.prefix = "msg"
          PROVE  \/ \E k \in 1..Len(trace') : trace'[k].id = p.id
                 \/ round'.emitEvents /\ round'.textAdded /\ p.id = round'.textItemID
      <4>1. p \in wire.announced
        BY <1>6, <3>2
      <4>2. \/ \E k \in 1..Len(trace) : trace[k].id = p.id
            \/ round.emitEvents /\ round.textAdded /\ p.id = round.textItemID
        BY <1>1, <3>2, <4>1 DEF MessagesHeld
      <4> QED
        BY <1>1, <1>5, <4>2
    <3> QED
      BY <3>1, <3>2 DEF MessagesHeld
  <2> QED
    BY <1>3, <2>3, <2>4, <2>5 DEF WireInv
<1> QED
  BY <1>7, <1>8

\* A call reserves an index in the round, unannounced.
LEMMA AddCallKeeps ==
  ASSUME TypeOK, WireInv, NEW call \in OfferedCalls, AddCall(call)
  PROVE  WireInv'
<1> DEFINE n == Len(round.calls)
           item == ToolCallItem(call, n + 1)
           search == Item(ItemId("fco", sequence, n + 1), "search", NoText)
<1>1. /\ pc = "stream" /\ pc' = pc /\ TraceIds /\ RoundIds /\ MessagesHeld /\ AnnouncedHeld
      /\ UNCHANGED <<trace, sequence, wire>>
  BY DEF WireInv, AddCall
<1>2. /\ item \in Items /\ item.id = ItemId("call", sequence, n + 1) /\ item.id.prefix = "call"
      /\ search \in Items /\ search.id = ItemId("fco", sequence, n + 1)
      /\ call \in Calls /\ n \in Nat /\ sequence \in Nat /\ round \in Rounds
  <2>1. n \in Nat /\ sequence \in Nat /\ round \in Rounds
    BY Fields DEF TypeOK
  <2>2. item \in Items /\ call \in Calls
    BY <2>1, CallTypes
  <2>3. item.id = ItemId("call", sequence, n + 1) /\ item.id.prefix = "call"
    BY DEF ToolCallItem, Item, ItemId
  <2>4. search \in Items /\ search.id = ItemId("fco", sequence, n + 1)
    BY <2>1 DEF Item, Items, ItemTypes, ItemId, ItemIds
  <2> QED
    BY <2>1, <2>2, <2>3, <2>4
<1>3. /\ round'.textAdded = round.textAdded /\ round'.reasoningAdded = round.reasoningAdded
      /\ round'.narrative = round.narrative /\ round'.items = Append(round.items, item)
      /\ round'.calls = Append(round.calls, call)
      /\ round'.searches = IF call.kind = "web" THEN Append(round.searches, search)
                           ELSE round.searches
      /\ round'.textItemID = round.textItemID /\ round'.reasoningItemID = round.reasoningItemID
      /\ round'.nextOutputIndex = round.nextOutputIndex + 1
      /\ round'.emitEvents = round.emitEvents
  BY <1>2 DEF AddCall, Rounds
<1>4. Len(round'.calls) = n + 1 /\ round'.calls # <<>>
  <2>1. \A c \in Seq(Calls) : Len(Append(c, call)) = Len(c) + 1 /\ Append(c, call) # <<>>
    BY <1>2
  <2> QED
    BY <1>3, <2>1, Fields
<1>5. /\ \A id : CallId("call", sequence, n, id) => CallId("call", sequence, n + 1, id)
      /\ \A id : CallId("fco", sequence, n, id) => CallId("fco", sequence, n + 1, id)
      /\ CallId("call", sequence, n + 1, item.id) /\ CallId("fco", sequence, n + 1, search.id)
      /\ ~CallId("call", sequence, n, item.id) /\ ~CallId("fco", sequence, n, search.id)
  <2>1. /\ n + 1 \in 1..(n + 1) /\ \A j \in 1..n : j \in 1..(n + 1) /\ j # n + 1
    BY <1>2
  <2>2. \A prefix, j : ItemId(prefix, sequence, j).k = j
    BY DEF ItemId
  <2> HIDE DEF n, item, search
  <2> QED
    BY <1>2, <2>1, <2>2 DEF CallId
<1> HIDE DEF item, search
<1>6. /\ Unique(round'.items) /\ Len(round'.items) = Len(round.items) + 1
      /\ \A k \in 1..Len(round.items) : round'.items[k] = round.items[k]
      /\ round'.items[Len(round.items) + 1] = item
  <2>1. \A k \in 1..Len(round.items) : round.items[k].id # item.id
    <3>1. ~OwnId(round, item.id)
      BY <1>1, <1>2 DEF OwnId, RoundIds, ItemId
    <3> QED
      BY <1>1, <1>5, <3>1 DEF RoundIds
  <2>2. Unique(round.items) /\ round.items \in Seq(Items)
    BY <1>1, Fields DEF RoundIds
  <2> QED
    BY <1>2, <1>3, <2>1, <2>2, UniqueAppend
<1>7. ASSUME call.kind = "web"
      PROVE  /\ Unique(round'.searches) /\ Len(round'.searches) = Len(round.searches) + 1
             /\ \A k \in 1..Len(round.searches) : round'.searches[k] = round.searches[k]
             /\ round'.searches[Len(round.searches) + 1] = search
  <2>1. \A k \in 1..Len(round.searches) : round.searches[k].id # search.id
    BY <1>1, <1>5 DEF RoundIds
  <2>2. Unique(round.searches) /\ round.searches \in Seq(Items)
    BY <1>1, Fields DEF RoundIds
  <2>3. round'.searches = Append(round.searches, search)
    BY <1>3, <1>7
  <2> QED
    BY <1>2, <2>1, <2>2, <2>3, UniqueAppend
<1>8. RoundIds'
  <2>1. \A k \in 1..Len(round'.items) :
          \/ OwnId(round', round'.items[k].id)
          \/ CallId("call", sequence, n + 1, round'.items[k].id)
    <3>1. \A k \in 1..Len(round'.items) : k \in 1..Len(round.items) \/ k = Len(round.items) + 1
      BY <1>6, Fields
    <3>2. \A id : OwnId(round, id) => OwnId(round', id)
      BY <1>3 DEF OwnId
    <3> QED
      BY <1>1, <1>5, <1>6, <3>1, <3>2 DEF RoundIds
  <2>2. \A k \in 1..Len(round'.searches) : CallId("fco", sequence, n + 1, round'.searches[k].id)
    <3>1. CASE call.kind = "web"
      <4>1. \A k \in 1..Len(round'.searches) :
              k \in 1..Len(round.searches) \/ k = Len(round.searches) + 1
        BY <1>7, <3>1, Fields
      <4> QED
        BY <1>1, <1>5, <1>7, <3>1, <4>1 DEF RoundIds
    <3>2. CASE call.kind # "web"
      BY <1>1, <1>3, <1>5, <3>2 DEF RoundIds
    <3> QED
      BY <3>1, <3>2
  <2>3. Unique(round'.searches)
    BY <1>1, <1>3, <1>7 DEF RoundIds
  <2>4. \A k \in 1..Len(round'.narrative) : OwnId(round', round'.narrative[k].id)
    BY <1>1, <1>3 DEF RoundIds, OwnId
  <2> QED
    BY <1>1, <1>3, <1>4, <1>6, <2>1, <2>2, <2>3, <2>4 DEF RoundIds
<1>9. TraceIds'
  BY <1>1 DEF TraceIds
<1>10. MessagesHeld'
  <2>1. \A k \in 1..Len(round.items) : k \in 1..Len(round'.items)
    BY <1>6, Fields
  <2> QED
    BY <1>1, <1>3, <1>6, <2>1 DEF MessagesHeld
<1>11. AnnouncedHeld'
  <2>1. NarrativeLeads => NarrativeLeads'
    <3>1. \A k \in (Len(round.narrative) + 1)..Len(round'.items) :
            k \in (Len(round.narrative) + 1)..Len(round.items) \/ k = Len(round.items) + 1
      BY <1>6, Fields
    <3>2. NarrativeLeads =>
            /\ round.nextOutputIndex = Len(trace) + Len(round.items)
            /\ \A k \in 1..Len(round.narrative) : k \in 1..Len(round.items)
      BY Fields DEF NarrativeLeads
    <3> QED
      <4> SUFFICES ASSUME NarrativeLeads PROVE NarrativeLeads'
        OBVIOUS
      <4>1. /\ round'.nextOutputIndex = Len(trace') + Len(round'.items)
            /\ Len(round'.narrative) <= Len(round'.items) /\ round'.calls # <<>>
        BY <1>1, <1>3, <1>4, <1>6, <3>2, Fields DEF NarrativeLeads
      <4>2. \A k \in 1..Len(round'.narrative) : round'.items[k] = round'.narrative[k]
        BY <1>3, <1>6, <3>2 DEF NarrativeLeads
      <4>3. \A k \in (Len(round'.narrative) + 1)..Len(round'.items) :
              round'.items[k].id.prefix = "call"
        <5>1. \A k \in (Len(round.narrative) + 1)..Len(round.items) : k \in 1..Len(round.items)
          BY Fields
        <5> QED
          BY <1>2, <1>3, <1>6, <3>1, <5>1 DEF NarrativeLeads
      <4>4. round'.textAdded \/ round'.reasoningAdded <=> Len(round'.narrative) > 0
        BY <1>3 DEF NarrativeLeads
      <4> QED
        BY <4>1, <4>2, <4>3, <4>4 DEF NarrativeLeads
  <2> QED
    BY <1>1, <1>3, <2>1 DEF AnnouncedHeld
<1> QED
  BY <1>8, <1>9, <1>10, <1>11 DEF WireInv

LEMMA ChunkKeeps ==
  ASSUME TypeOK, WireInv, Chunk
  PROVE  WireInv'
BY AddReasoningKeeps, AddTextKeeps, AddCallKeeps DEF Chunk

-----------------------------------------------------------------------------
(* What a round leaves behind                                              *)

\* Ids that a trace may hold before a request numbered n.
IdsBefore(tr, n) ==
  /\ Unique(tr)
  /\ \A k \in 1..Len(tr) :
       \/ tr[k].id.prefix \in {"msg", "rs"} /\ tr[k].id.n < Len(tr)
       \/ tr[k].id.prefix = "fco" /\ tr[k].id.n < n

\* The narrative's ids are numbered by the length of the trace.
LEMMA NarrativeTraceIds ==
  ASSUME TypeOK, TraceIds, RoundIds
  PROVE  IdsBefore(NarrativeTrace, sequence)
<1> DEFINE s == trace
           t == round.narrative
<1>1. s \in Seq(Items) /\ t \in Seq(Items) /\ Len(s) \in Nat /\ Len(t) \in Nat /\ sequence \in Nat
      /\ Unique(s) /\ Unique(t)
  BY Fields DEF TraceIds, RoundIds
<1>2. \A k \in 1..Len(t) : t[k].id.prefix \in {"msg", "rs"} /\ t[k].id.n = Len(s)
  BY DEF RoundIds, OwnId, ItemId
<1>3. \A k \in 1..Len(s) :
        /\ \/ s[k].id.prefix \in {"msg", "rs"} /\ s[k].id.n < Len(s)
           \/ s[k].id.prefix = "fco" /\ s[k].id.n < sequence
        /\ s[k].id.n \in Nat
  BY <1>1, ItemNumbers DEF TraceIds
<1> HIDE DEF s, t
<1>4. \A i \in 1..Len(s) : \A j \in 1..Len(t) : s[i].id # t[j].id
  BY <1>1, <1>2, <1>3
<1>5. Unique(s \o t)
  BY <1>1, <1>4, UniqueConcat
<1>6. ASSUME NEW k \in 1..Len(s \o t)
      PROVE  \/ (s \o t)[k].id.prefix \in {"msg", "rs"} /\ (s \o t)[k].id.n < Len(s \o t)
             \/ (s \o t)[k].id.prefix = "fco" /\ (s \o t)[k].id.n < sequence
  <2>1. Len(s \o t) = Len(s) + Len(t)
    BY <1>1
  <2>2. CASE k \in 1..Len(s) /\ (s \o t)[k] = s[k]
    BY <1>1, <1>3, <2>1, <2>2
  <2>3. ASSUME NEW j \in 1..Len(t), (s \o t)[k] = t[j]
        PROVE  (s \o t)[k].id.prefix \in {"msg", "rs"} /\ (s \o t)[k].id.n < Len(s \o t)
    BY <1>1, <1>2, <2>1, <2>3
  <2> QED
    BY <1>1, <2>2, <2>3, ConcatItems
<1> QED
  BY <1>5, <1>6 DEF IdsBefore, NarrativeTrace, s, t

LEMMA ToolsTraceIds ==
  ASSUME TypeOK, TraceIds, RoundIds
  PROVE  IdsBefore(ToolsTrace, sequence + 1)
<1> DEFINE s == IF EventsEmitted(round) THEN NarrativeTrace ELSE trace
           t == round.searches
<1>1. s \in Seq(Items) /\ t \in Seq(Items) /\ sequence \in Nat /\ IdsBefore(s, sequence) /\ Unique(t)
  BY Fields, CaptureType, NarrativeTraceIds DEF TraceIds, RoundIds, IdsBefore
<1>2. \A k \in 1..Len(t) : t[k].id.prefix = "fco" /\ t[k].id.n = sequence
  BY CallIdFields DEF RoundIds
<1>3. ToolsTrace = s \o t
  BY DEF ToolsTrace
<1> HIDE DEF s, t
<1>4. Len(s) \in Nat /\ Len(t) \in Nat /\ \A k \in 1..Len(s) : s[k].id.n \in Nat
  BY <1>1, ItemNumbers
<1>5. \A i \in 1..Len(s) : \A j \in 1..Len(t) : s[i].id # t[j].id
  <2> SUFFICES ASSUME NEW i \in 1..Len(s), NEW j \in 1..Len(t)
      PROVE  s[i].id # t[j].id
    OBVIOUS
  <2>1. t[j].id.prefix = "fco" /\ t[j].id.n = sequence
    BY <1>2
  <2>2. \/ s[i].id.prefix \in {"msg", "rs"}
        \/ s[i].id.prefix = "fco" /\ s[i].id.n < sequence
    BY <1>1 DEF IdsBefore
  <2> QED
    BY <1>1, <2>1, <2>2
<1>6. Unique(s \o t)
  BY <1>1, <1>5, UniqueConcat DEF IdsBefore
<1>7. ASSUME NEW k \in 1..Len(s \o t)
      PROVE  \/ (s \o t)[k].id.prefix \in {"msg", "rs"} /\ (s \o t)[k].id.n < Len(s \o t)
             \/ (s \o t)[k].id.prefix = "fco" /\ (s \o t)[k].id.n < sequence + 1
  <2>1. Len(s \o t) = Len(s) + Len(t)
    BY <1>1
  <2>2. CASE k \in 1..Len(s) /\ (s \o t)[k] = s[k]
    BY <1>1, <1>4, <2>1, <2>2 DEF IdsBefore
  <2>3. ASSUME NEW j \in 1..Len(t), (s \o t)[k] = t[j]
        PROVE  (s \o t)[k].id.prefix = "fco" /\ (s \o t)[k].id.n < sequence + 1
    BY <1>1, <1>2, <2>3
  <2> QED
    BY <1>1, <2>2, <2>3, ConcatItems
<1> QED
  BY <1>3, <1>6, <1>7 DEF IdsBefore

-----------------------------------------------------------------------------
(* Announcements are settled: what was announced is in the items           *)

Settled(w, items) ==
  /\ MaxTaskProtocolRetries <= 1 =>
       \A p \in w.announced : p.id.prefix = "msg" =>
         \E k \in 1..Len(items) : items[k].id = p.id
  /\ CanonicalOrder /\ MaxTaskProtocolRetries <= 1 =>
       w.reannounced = {} /\ w.announced = PlacesFrom(items, 0)

\* Items announced where they finish, all of them.
LEMMA EmitAllSettles ==
  ASSUME NEW w \in Wires, NEW tr \in Seq(Items), NEW items \in Seq(Items), Settled(w, tr)
  PROVE  Settled(EmitDone(w, items, Len(tr), {}), tr \o items)
<1> DEFINE v == EmitDone(w, items, Len(tr), {})
<1>1. Len(tr) \in Nat /\ tr \o items \in Seq(Items)
  OBVIOUS
<1>2. UnknownPlaces(items, Len(tr), {}) = PlacesFrom(items, Len(tr))
  BY DEF UnknownPlaces, PlacesFrom
<1>3. /\ v.announced = w.announced \cup PlacesFrom(items, Len(tr))
      /\ v.reannounced = w.reannounced \cup (PlacesFrom(items, Len(tr)) \cap w.announced)
  BY <1>1, <1>2, EmitDoneAnnounces
<1> HIDE DEF v
<1>4. ASSUME CanonicalOrder, MaxTaskProtocolRetries <= 1
      PROVE  v.reannounced = {} /\ v.announced = PlacesFrom(tr \o items, 0)
  <2>1. \A p \in PlacesFrom(tr, 0) : p \notin PlacesFrom(items, Len(tr))
    <3>1. \A p \in PlacesFrom(tr, 0) : p.index \in Nat /\ p.index < 0 + Len(tr)
      BY PlacesBound
    <3>2. \A p \in PlacesFrom(items, Len(tr)) : Len(tr) <= p.index
      BY <1>1, PlacesBound
    <3> QED
      BY <1>1, <3>1, <3>2
  <2>2. PlacesFrom(tr \o items, 0) = PlacesFrom(tr, 0) \cup PlacesFrom(items, 0 + Len(tr))
    BY PlacesConcat
  <2>3. 0 + Len(tr) = Len(tr)
    BY <1>1
  <2> QED
    BY <1>3, <1>4, <2>1, <2>2, <2>3 DEF Settled
<1>5. ASSUME MaxTaskProtocolRetries <= 1, NEW p \in v.announced, p.id.prefix = "msg"
      PROVE  \E k \in 1..Len(tr \o items) : (tr \o items)[k].id = p.id
  <2>1. CASE p \in w.announced
    <3>1. PICK k \in 1..Len(tr) : tr[k].id = p.id
      BY <1>5, <2>1 DEF Settled
    <3> QED
      BY <3>1, ConcatItems
  <2>2. CASE p \in PlacesFrom(items, Len(tr))
    <3>1. PICK k \in 1..Len(items) : items[k].id = p.id
      BY <2>2 DEF PlacesFrom
    <3>2. Len(tr) + k \in 1..Len(tr \o items) /\ (tr \o items)[Len(tr) + k] = items[k]
      BY ConcatItems
    <3> QED
      BY <3>1, <3>2
  <2> QED
    BY <1>3, <2>1, <2>2
<1> QED
  BY <1>4, <1>5 DEF Settled, v

\* Nothing was announced by the round.
LEMMA TraceSettled ==
  ASSUME TypeOK, MessagesHeld, AnnouncedHeld, ~EventsEmitted(round)
  PROVE  Settled(wire, trace)
<1>1. ~round.emitEvents \/ (~round.textAdded /\ ~round.reasoningAdded)
  BY DEF EventsEmitted
<1>2. ASSUME CanonicalOrder, MaxTaskProtocolRetries <= 1
      PROVE  wire.reannounced = {} /\ wire.announced = PlacesFrom(trace, 0)
  <2>1. ~round.textAdded /\ ~round.reasoningAdded => PlacesFrom(round.narrative, Len(trace)) = {}
    <3>1. ~round.textAdded /\ ~round.reasoningAdded => Len(round.narrative) = 0
      BY <1>2, Fields DEF AnnouncedHeld, NarrativeLeads
    <3> QED
      BY <3>1 DEF PlacesFrom
  <2> QED
    BY <1>1, <1>2, <2>1 DEF AnnouncedHeld
<1> QED
  BY <1>1, <1>2 DEF Settled, MessagesHeld

\* The narrative was announced while it streamed, or is announced now.
LEMMA NarrativeSettled ==
  ASSUME TypeOK, RoundIds, MessagesHeld, AnnouncedHeld
  PROVE  Settled(NarrativeWire, NarrativeTrace)
<1> DEFINE s == round.narrative
<1>1. /\ wire \in Wires /\ trace \in Seq(Items) /\ s \in Seq(Items)
      /\ Len(trace) \in Nat
  BY Fields
<1>2. CASE ~EventsEmitted(round)
  <2>1. Settled(wire, trace)
    BY <1>2, TraceSettled
  <2>2. KnownIds(round) = {}
    BY <1>2 DEF KnownIds
  <2> QED
    BY <1>1, <2>1, <2>2, EmitAllSettles DEF NarrativeWire, NarrativeTrace
<1>3. CASE EventsEmitted(round)
  <2>1. round.emitEvents /\ KnownIds(round) = {round.textItemID, round.reasoningItemID}
    BY <1>3 DEF EventsEmitted, KnownIds
  <2>2. \A k \in 1..Len(s) : s[k].id \in KnownIds(round)
    BY <2>1 DEF RoundIds, OwnId
  <2>3. UnknownPlaces(s, Len(trace), KnownIds(round)) = {}
    BY <2>2 DEF UnknownPlaces
  <2>4. NarrativeWire.announced = wire.announced /\ NarrativeWire.reannounced = wire.reannounced
    <3> DEFINE known == KnownIds(round)
               n == Len(trace)
    <3>1. NarrativeWire = EmitDone(wire, s, n, known) /\ UnknownPlaces(s, n, known) = {}
      BY <2>3 DEF NarrativeWire
    <3>2. s \in Seq(Items) /\ n \in Nat
      BY <1>1
    <3> HIDE DEF s, n, known
    <3>3. /\ EmitDone(wire, s, n, known).announced = wire.announced \cup UnknownPlaces(s, n, known)
          /\ EmitDone(wire, s, n, known).reannounced =
               wire.reannounced \cup (UnknownPlaces(s, n, known) \cap wire.announced)
      BY <1>1, <3>2, EmitDoneAnnounces
    <3> QED
      BY <3>1, <3>3
  <2>5. NarrativeTrace = trace \o s
    BY DEF NarrativeTrace
  <2> HIDE DEF s
  <2>6. PlacesFrom(trace \o s, 0) = PlacesFrom(trace, 0) \cup PlacesFrom(s, Len(trace))
    <3>1. PlacesFrom(trace \o s, 0) = PlacesFrom(trace, 0) \cup PlacesFrom(s, 0 + Len(trace))
      BY <1>1, PlacesConcat
    <3>2. 0 + Len(trace) = Len(trace)
      BY <1>1
    <3> QED
      BY <3>1, <3>2
  <2>7. ASSUME MaxTaskProtocolRetries <= 1, NEW p \in wire.announced, p.id.prefix = "msg"
        PROVE  \E k \in 1..Len(trace \o s) : (trace \o s)[k].id = p.id
    <3>1. CASE \E k \in 1..Len(trace) : trace[k].id = p.id
      BY <1>1, <3>1, ConcatItems
    <3>2. CASE round.textAdded /\ p.id = round.textItemID
      <4>1. PICK k \in 1..Len(s) : s[k].id = p.id
        BY <3>2 DEF MessagesHeld, s
      <4>2. Len(trace) + k \in 1..Len(trace \o s) /\ (trace \o s)[Len(trace) + k] = s[k]
        BY <1>1, ConcatItems
      <4> QED
        BY <4>1, <4>2
    <3> QED
      BY <2>7, <3>1, <3>2 DEF MessagesHeld
  <2> QED
    BY <2>1, <2>4, <2>5, <2>6, <2>7 DEF Settled, AnnouncedHeld, s
<1> QED
  BY <1>2, <1>3

LEMMA ToolsSettled ==
  ASSUME TypeOK, RoundIds, MessagesHeld, AnnouncedHeld
  PROVE  Settled(ToolsWire, ToolsTrace)
<1> DEFINE w == IF EventsEmitted(round) THEN NarrativeWire ELSE wire
           tr == IF EventsEmitted(round) THEN NarrativeTrace ELSE trace
<1>1. w \in Wires /\ tr \in Seq(Items) /\ round.searches \in Seq(Items) /\ Settled(w, tr)
  BY Fields, CaptureType, TraceSettled, NarrativeSettled
<1>2. ToolsWire = EmitDone(w, round.searches, Len(tr), {}) /\ ToolsTrace = tr \o round.searches
  BY DEF ToolsWire, ToolsTrace
<1> HIDE DEF w, tr
<1> QED
  BY <1>1, <1>2, EmitAllSettles

\* The final items: the narrative among them is known to Codex already.
LEMMA FinalSettled ==
  ASSUME TypeOK, RoundIds, MessagesHeld, AnnouncedHeld
  PROVE  Settled(EmitDone(wire, round.items, Len(trace), KnownIds(round)), trace \o round.items)
<1> DEFINE s == round.narrative
           t == round.items
           n == Len(trace)
           v == EmitDone(wire, t, n, KnownIds(round))
           places == UnknownPlaces(t, n, KnownIds(round))
<1>1. /\ wire \in Wires /\ trace \in Seq(Items) /\ s \in Seq(Items) /\ t \in Seq(Items)
      /\ n \in Nat /\ Len(s) \in Nat /\ Len(t) \in Nat
  BY Fields
<1>2. CASE ~EventsEmitted(round)
  <2>1. Settled(wire, trace)
    BY <1>2, TraceSettled
  <2>2. KnownIds(round) = {}
    BY <1>2 DEF KnownIds
  <2> QED
    BY <1>1, <2>1, <2>2, EmitAllSettles
<1>3. CASE EventsEmitted(round)
  <2>1. round.emitEvents /\ KnownIds(round) = {round.textItemID, round.reasoningItemID}
    BY <1>3 DEF EventsEmitted, KnownIds
  <2>2. v.announced = wire.announced \cup places
        /\ v.reannounced = wire.reannounced \cup (places \cap wire.announced)
    BY <1>1, EmitDoneAnnounces
  <2>3. \A p \in places : p \in PlacesFrom(t, n)
    BY DEF UnknownPlaces, PlacesFrom
  <2>4. ASSUME CanonicalOrder, MaxTaskProtocolRetries <= 1
        PROVE  v.reannounced = {} /\ v.announced = PlacesFrom(trace \o t, 0)
    <3>1. /\ NarrativeLeads /\ wire.reannounced = {}
          /\ wire.announced = PlacesFrom(trace, 0) \cup PlacesFrom(s, n)
      BY <2>1, <2>4 DEF AnnouncedHeld
    <3>2. /\ Len(s) <= Len(t) /\ \A k \in 1..Len(s) : t[k] = s[k] /\ t[k].id \in KnownIds(round)
          /\ \A k \in (Len(s) + 1)..Len(t) : t[k].id \notin KnownIds(round)
      <4>1. \A k \in 1..Len(s) : s[k].id \in KnownIds(round)
        BY <2>1 DEF RoundIds, OwnId
      <4>2. \A id \in KnownIds(round) : id.prefix # "call"
        BY <2>1 DEF RoundIds, ItemId
      <4> QED
        BY <3>1, <4>1, <4>2 DEF NarrativeLeads
    <3>3. \A p \in places : n + Len(s) <= p.index /\ p.index \in Nat
      <4> SUFFICES ASSUME NEW p \in places
                   PROVE  n + Len(s) <= p.index /\ p.index \in Nat
        OBVIOUS
      <4>1. PICK k \in 1..Len(t) :
              t[k].id \notin KnownIds(round) /\ p = [id |-> t[k].id, index |-> n + k - 1]
        BY DEF UnknownPlaces
      <4>2. k > Len(s)
        BY <1>1, <3>2, <4>1
      <4> QED
        BY <1>1, <4>1, <4>2
    <3>4. PlacesFrom(t, n) = PlacesFrom(s, n) \cup places
      <4>1. ASSUME NEW p \in PlacesFrom(t, n) PROVE p \in PlacesFrom(s, n) \cup places
        <5>1. PICK k \in 1..Len(t) : p = [id |-> t[k].id, index |-> n + k - 1]
          BY <4>1 DEF PlacesFrom
        <5>2. CASE k \in 1..Len(s)
          BY <3>2, <5>1, <5>2 DEF PlacesFrom
        <5>3. CASE k \notin 1..Len(s)
          <6>1. k \in (Len(s) + 1)..Len(t)
            BY <1>1, <5>3
          <6> QED
            BY <3>2, <5>1, <6>1 DEF UnknownPlaces
        <5> QED
          BY <5>2, <5>3
      <4>2. ASSUME NEW p \in PlacesFrom(s, n) PROVE p \in PlacesFrom(t, n)
        <5>1. PICK k \in 1..Len(s) : p = [id |-> s[k].id, index |-> n + k - 1]
          BY <4>2 DEF PlacesFrom
        <5>2. k \in 1..Len(t) /\ t[k] = s[k]
          BY <1>1, <3>2
        <5> QED
          BY <5>1, <5>2 DEF PlacesFrom
      <4> QED
        BY <2>3, <4>1, <4>2
    <3> HIDE DEF s, t, n, v, places
    <3>5. /\ \A p \in PlacesFrom(trace, 0) : p.index \in Nat /\ p.index < 0 + Len(trace)
          /\ \A p \in PlacesFrom(s, n) : p.index \in Nat /\ p.index < n + Len(s)
      BY <1>1, PlacesBound
    <3>6. places \cap wire.announced = {}
      <4>1. Len(trace) = n
        BY DEF n
      <4>2. \A p \in wire.announced : p.index \in Nat /\ p.index < n + Len(s)
        BY <1>1, <3>1, <3>5, <4>1
      <4> QED
        BY <1>1, <3>3, <4>2
    <3>7. PlacesFrom(trace \o t, 0) = PlacesFrom(trace, 0) \cup PlacesFrom(t, n)
      <4>1. PlacesFrom(trace \o t, 0) = PlacesFrom(trace, 0) \cup PlacesFrom(t, 0 + Len(trace))
        BY <1>1, PlacesConcat
      <4>2. 0 + Len(trace) = n
        BY <1>1 DEF n
      <4> QED
        BY <4>1, <4>2
    <3> QED
      BY <2>2, <3>1, <3>4, <3>6, <3>7
  <2>5. ASSUME MaxTaskProtocolRetries <= 1, NEW p \in v.announced, p.id.prefix = "msg"
        PROVE  \E k \in 1..Len(trace \o t) : (trace \o t)[k].id = p.id
    <3>1. CASE \E k \in 1..Len(trace) : trace[k].id = p.id
      BY <1>1, <3>1, ConcatItems
    <3>2. CASE \E k \in 1..Len(t) : t[k].id = p.id
      <4>1. PICK k \in 1..Len(t) : t[k].id = p.id
        BY <3>2
      <4>2. n + k \in 1..Len(trace \o t) /\ (trace \o t)[n + k] = t[k]
        BY <1>1, ConcatItems
      <4> QED
        BY <4>1, <4>2
    <3>3. p \in PlacesFrom(t, n) => \E k \in 1..Len(t) : t[k].id = p.id
      BY DEF PlacesFrom
    <3> QED
      BY <2>2, <2>3, <2>5, <3>1, <3>2, <3>3 DEF MessagesHeld
  <2> QED
    BY <2>4, <2>5 DEF Settled
<1> QED
  BY <1>2, <1>3

\* A new request follows settled items.
LEMMA AskedKeeps ==
  ASSUME NEW tr \in Seq(Items), NEW emitEvents \in BOOLEAN,
         trace' = tr, round' = NewRound(Len(tr), emitEvents),
         IdsBefore(tr, sequence'), Settled(wire', tr)
  PROVE  (TraceIds /\ RoundIds /\ MessagesHeld /\ AnnouncedHeld)'
<1>1. /\ round'.textItemID = ItemId("msg", Len(trace'), 0)
      /\ round'.reasoningItemID = ItemId("rs", Len(trace'), 0)
      /\ round'.nextOutputIndex = Len(trace') /\ ~round'.textAdded /\ ~round'.reasoningAdded
      /\ round'.calls = <<>> /\ round'.narrative = <<>> /\ round'.items = <<>>
      /\ round'.searches = <<>>
  BY DEF NewRound, EmptyRound
<1>2. /\ Len(round'.calls) = 0 /\ Len(round'.narrative) = 0 /\ Len(round'.items) = 0
      /\ Len(round'.searches) = 0 /\ Len(trace') \in Nat
  BY <1>1
<1>3. TraceIds'
  BY DEF TraceIds, IdsBefore
<1>4. RoundIds'
  BY <1>1, <1>2 DEF RoundIds, Unique
<1>5. MessagesHeld'
  BY <1>1 DEF MessagesHeld, Settled
<1>6. AnnouncedHeld'
  <2>1. PlacesFrom(round'.narrative, Len(trace')) = {}
    BY <1>2 DEF PlacesFrom
  <2>2. NarrativeLeads'
    BY <1>1, <1>2 DEF NarrativeLeads
  <2> QED
    BY <2>1, <2>2 DEF AnnouncedHeld, Settled
<1> QED
  BY <1>3, <1>4, <1>5, <1>6

\* A correction: with one retry at most, what it hides is settled first.
LEMMA ViolationSettled ==
  ASSUME TypeOK, RoundIds, MessagesHeld, AnnouncedHeld,
         taskProtocolRetries < MaxTaskProtocolRetries
  PROVE  Settled(ViolationWire, ViolationTrace)
<1>1. MaxTaskProtocolRetries <= 1 => taskProtocolRetries = 0
  <2>1. MaxTaskProtocolRetries \in Nat
    BY ChatConstants
  <2>2. taskProtocolRetries \in Nat
    BY DEF TypeOK
  <2> QED
    BY <2>1, <2>2
<1>2. CASE MaxTaskProtocolRetries <= 1
  BY <1>1, <1>2, TraceSettled, NarrativeSettled DEF ViolationWire, ViolationTrace
<1>3. CASE ~(MaxTaskProtocolRetries <= 1)
  BY <1>3 DEF Settled
<1> QED
  BY <1>2, <1>3

LEMMA IdsLater ==
  ASSUME NEW tr \in Seq(Items), NEW n \in Nat, IdsBefore(tr, n)
  PROVE  IdsBefore(tr, n + 1)
BY ItemNumbers DEF IdsBefore

-----------------------------------------------------------------------------
(* WireInv is inductive                                                    *)

LEMMA InitWireInv == Init => WireInv
<1> SUFFICES ASSUME Init PROVE WireInv
  OBVIOUS
<1>1. /\ trace = <<>> /\ sequence = 0 /\ wire.announced = {} /\ wire.reannounced = {}
      /\ round = EmptyRound(0, 0, TRUE)
  BY DEF Init, NewRound
<1>2. /\ round.textItemID = ItemId("msg", 0, 0) /\ round.reasoningItemID = ItemId("rs", 0, 0)
      /\ round.nextOutputIndex = 0 /\ ~round.textAdded /\ ~round.reasoningAdded
      /\ round.narrative = <<>> /\ round.items = <<>> /\ round.searches = <<>>
      /\ round.calls = <<>>
  BY <1>1 DEF EmptyRound
<1>3. /\ Len(trace) = 0 /\ Len(round.narrative) = 0 /\ Len(round.items) = 0
      /\ Len(round.searches) = 0 /\ Len(round.calls) = 0
  BY <1>1, <1>2
<1>4. TraceIds /\ RoundIds
  BY <1>2, <1>3 DEF TraceIds, RoundIds, Unique
<1>5. MessagesHeld
  BY <1>1, <1>2 DEF MessagesHeld
<1>6. AnnouncedHeld
  <2>1. PlacesFrom(trace, 0) = {} /\ PlacesFrom(round.narrative, Len(trace)) = {}
    BY <1>3 DEF PlacesFrom
  <2>2. NarrativeLeads
    BY <1>2, <1>3 DEF NarrativeLeads
  <2> QED
    BY <1>1, <2>1, <2>2 DEF AnnouncedHeld
<1> QED
  BY <1>4, <1>5, <1>6 DEF WireInv

LEMMA StepWireInv == TypeOK /\ WireInv /\ [Next]_vars => WireInv'
<1> SUFFICES ASSUME TypeOK, WireInv, [Next]_vars, pc' # "end" PROVE WireInv'
  BY DEF WireInv
<1>1. CASE UNCHANGED <<round, trace, sequence, wire>>
  <2>1. pc # "end"
    BY DEF Next, Cancel, Upstream, Open, Errors, UpstreamError, ContextDone, StreamDone,
           Chunk, AddReasoning, AddText, AddCall, Decide, TaskProtocolRetry,
           TaskProtocolViolation, EndTask, InternalToolFollowUp,
           InternalToolRoundsExceeded, ReturnFinal, vars
  <2> QED
    BY <1>1, <2>1 DEF WireInv, TraceIds, RoundIds, MessagesHeld, AnnouncedHeld, NarrativeLeads
<1>2. CASE Chunk
  BY <1>2, ChunkKeeps
<1>3. CASE TaskProtocolRetry
  <2>1. /\ TraceIds /\ RoundIds /\ MessagesHeld /\ AnnouncedHeld
        /\ taskProtocolRetries < MaxTaskProtocolRetries
        /\ trace' = ViolationTrace /\ wire' = ViolationWire /\ sequence' = sequence + 1
        /\ round' = NewRound(Len(ViolationTrace), FALSE)
    BY <1>3 DEF TaskProtocolRetry, AskCorrection, WireInv
  <2>2. IdsBefore(ViolationTrace, sequence)
    BY <2>1, NarrativeTraceIds DEF ViolationTrace, IdsBefore, TraceIds
  <2>3. ViolationTrace \in Seq(Items) /\ sequence \in Nat
    BY CaptureType DEF TypeOK
  <2>4. IdsBefore(ViolationTrace, sequence')
    BY <2>1, <2>2, <2>3, IdsLater
  <2>5. Settled(wire', ViolationTrace)
    BY <2>1, ViolationSettled
  <2>6. (TraceIds /\ RoundIds /\ MessagesHeld /\ AnnouncedHeld)'
    BY <2>1, <2>3, <2>4, <2>5, AskedKeeps
  <2> QED
    BY <2>6 DEF WireInv
<1>4. CASE InternalToolFollowUp
  <2>1. /\ TraceIds /\ RoundIds /\ MessagesHeld /\ AnnouncedHeld
        /\ trace' = ToolsTrace /\ wire' = ToolsWire /\ sequence' = sequence + 1
        /\ round' = NewRound(Len(ToolsTrace), TRUE)
    BY <1>4 DEF InternalToolFollowUp, AskFollowUp, WireInv
  <2>2. ToolsTrace \in Seq(Items)
    BY CaptureType
  <2>3. IdsBefore(ToolsTrace, sequence')
    BY <2>1, ToolsTraceIds
  <2>4. Settled(wire', ToolsTrace)
    BY <2>1, ToolsSettled
  <2>5. (TraceIds /\ RoundIds /\ MessagesHeld /\ AnnouncedHeld)'
    BY <2>1, <2>2, <2>3, <2>4, AskedKeeps
  <2> QED
    BY <2>5 DEF WireInv
<1> QED
  BY <1>1, <1>2, <1>3, <1>4
  DEF Next, Upstream, Errors, Decide, Cancel, Open, UpstreamError, ContextDone,
      StreamDone, TaskProtocolViolation, EndTask, InternalToolRoundsExceeded,
      ReturnFinal, vars

-----------------------------------------------------------------------------
(* How the turn ends                                                       *)

LEMMA CompletedAnnounces ==
  ASSUME NEW w \in Wires, NEW tr \in Seq(Items), NEW items \in Seq(Items), NEW known,
         Settled(EmitDone(w, items, Len(tr), known), tr \o items)
  PROVE  /\ Completed(w, tr, items, known).output = tr \o items
         /\ Settled(Completed(w, tr, items, known), tr \o items)
<1> DEFINE u == EmitDone(w, items, Len(tr), known)
           v == Completed(w, tr, items, known)
<1>1. u \in Wires /\ Settled(u, tr \o items)
  BY EmitDoneType
<1>2. v = [u EXCEPT !.terminal = "completed", !.output = tr \o items]
  BY DEF Completed
<1> HIDE DEF u, v
<1>3. v.output = tr \o items /\ v.announced = u.announced /\ v.reannounced = u.reannounced
  BY <1>1, <1>2 DEF Wires
<1>4. Settled(v, tr \o items)
  BY <1>1, <1>3 DEF Settled
<1> QED
  BY <1>3, <1>4 DEF v

\* What has been written before the end carries no output.
LEMMA EmitDoneOutput ==
  ASSUME NEW w \in Wires, NEW items \in Seq(Items), NEW offset \in Nat, NEW known
  PROVE  EmitDone(w, items, offset, known).output = w.output
BY DEF EmitDone, Announce, Wires

LEMMA CaptureOutput ==
  ASSUME TypeOK
  PROVE  /\ ViolationWire.output = wire.output
         /\ ToolsWire.output = wire.output
<1>1. /\ round.narrative \in Seq(Items) /\ round.searches \in Seq(Items)
      /\ wire \in Wires /\ Len(trace) \in Nat
      /\ NarrativeWire \in Wires /\ Len(NarrativeTrace) \in Nat
  BY Fields, CaptureType
<1>2. NarrativeWire.output = wire.output
  BY <1>1, EmitDoneOutput DEF NarrativeWire
<1>3. ToolsWire.output = wire.output
  BY <1>1, <1>2, EmitDoneOutput DEF ToolsWire
<1> QED
  BY <1>2, <1>3 DEF ViolationWire

\* A completed turn is settled, and its output is the answer's; any other
\* turn has no output.
Concludes ==
  IF wire.terminal = "completed"
  THEN Settled(wire, wire.output) /\ ItemIdsUnique /\ ResultShownOnce
  ELSE wire.output = <<>>

LEMMA EndTaskConcludes ==
  ASSUME TypeOK, StreamInv, WireInv, EndTask
  PROVE  Concludes'
<1> DEFINE result == TaskResult(round)
           item == Item(ItemId("msg", 0, 0), "message", result)
<1>1. /\ pc = "decide" /\ Verdict(round) = "ended" /\ round' = round
      /\ TraceIds /\ RoundIds /\ MessagesHeld /\ AnnouncedHeld
  BY DEF EndTask, WireInv
<1>2. /\ EndTrace \in Seq(Items) /\ EndWire \in Wires /\ EndItems \in Seq(Items)
      /\ trace' = EndTrace /\ wire' = Completed(EndWire, EndTrace, EndItems, {})
  BY EndTaskEffect DEF StreamInv
<1>3. wire'.terminal = "completed"
  BY EndTaskEffect, CompletedMatches DEF StreamInv
<1>4. Settled(EndWire, EndTrace)
  <2>1. CASE round.textAdded \/ round.reasoningAdded
    BY <1>1, <2>1, NarrativeSettled DEF EndWire, EndTrace
  <2>2. CASE ~(round.textAdded \/ round.reasoningAdded)
    BY <1>1, <2>2, TraceSettled DEF EndWire, EndTrace, EventsEmitted
  <2> QED
    BY <2>1, <2>2
<1>5. wire'.output = EndTrace \o EndItems /\ Settled(wire', EndTrace \o EndItems)
  BY <1>2, <1>4, EmitAllSettles, CompletedAnnounces
<1>6. Verdict(round') = "ended" /\ TaskResult(round') = result
  BY <1>1
<1>7. ItemIdsUnique'
  <2>1. Unique(EndTrace)
    BY <1>1, Fields, NarrativeTraceIds DEF EndTrace, IdsBefore, TraceIds
  <2>2. \A k \in 1..Len(EndTrace) : wire'.output[k] = EndTrace[k]
    BY <1>2, <1>5
  <2>3. Len(EndTrace) \in Nat /\ trace' = EndTrace
    BY <1>2
  <2>4. Len(wire'.output) \in Nat
    BY <1>2, <1>5
  <2> QED
    BY <1>6, <2>1, <2>2, <2>3, <2>4 DEF ItemIdsUnique, Unique
<1>8. ResultShownOnce'
  <2> DEFINE n == Len(EndTrace)
             output == wire'.output
             shown == {k \in 1..Len(output) : output[k].text = result}
  <2>1. n \in Nat /\ Len(trace') = n
    BY <1>2
  <2>2. shown # {} /\ \A k \in shown : k > n => \A i \in shown : i = k
    <3>1. CASE \E k \in 1..n : EndTrace[k].text = result
      <4>1. EndItems = <<>>
        BY <3>1 DEF EndItems, ResultItems
      <4>2. output = EndTrace
        BY <1>2, <1>5, <4>1
      <4> QED
        BY <2>1, <3>1, <4>2
    <3>2. CASE ~ \E k \in 1..n : EndTrace[k].text = result
      <4>1. EndItems = <<item>>
        BY <3>2 DEF EndItems, ResultItems
      <4>2. item \in Items /\ item.text = result
        BY <1>2, <4>1 DEF Item
      <4>3. output = Append(EndTrace, item)
        BY <1>2, <1>5, <4>1, <4>2
      <4> HIDE DEF item, output
      <4>4. /\ Len(output) = n + 1 /\ output[n + 1] = item
            /\ \A k \in 1..n : output[k] = EndTrace[k]
        BY <1>2, <4>2, <4>3
      <4>5. n + 1 \in shown
        BY <2>1, <4>2, <4>4
      <4>6. \A k \in shown : k = n + 1
        BY <2>1, <3>2, <4>4
      <4> QED
        BY <4>5, <4>6
    <3> QED
      BY <3>1, <3>2
  <2> QED
    BY <1>6, <2>1, <2>2 DEF ResultShownOnce
<1> QED
  BY <1>3, <1>5, <1>7, <1>8 DEF Concludes

LEMMA ReturnFinalConcludes ==
  ASSUME TypeOK, StreamInv, WireInv, ReturnFinal
  PROVE  Concludes'
<1>1. /\ pc = "decide" /\ Verdict(round) = "work" /\ round' = round
      /\ wire' = Completed(wire, trace, round.items, KnownIds(round))
      /\ TraceIds /\ RoundIds /\ MessagesHeld /\ AnnouncedHeld
      /\ wire \in Wires /\ trace \in Seq(Items) /\ round.items \in Seq(Items)
  BY Fields DEF ReturnFinal, WireInv
<1>2. wire'.terminal = "completed"
  BY <1>1, CompletedMatches DEF StreamInv, InFlight
<1>3. wire'.output = trace \o round.items /\ Settled(wire', trace \o round.items)
  <2>1. TypeOK /\ RoundIds /\ MessagesHeld /\ AnnouncedHeld
    BY <1>1
  <2>2. Settled(EmitDone(wire, round.items, Len(trace), KnownIds(round)), trace \o round.items)
    BY <2>1, FinalSettled
  <2>3. /\ Completed(wire, trace, round.items, KnownIds(round)).output = trace \o round.items
        /\ Settled(Completed(wire, trace, round.items, KnownIds(round)), trace \o round.items)
    BY <1>1, <2>2, CompletedAnnounces
  <2> QED
    BY <1>1, <2>3
<1>4. Verdict(round') = "work"
  BY <1>1
<1>5. Unique(trace \o round.items)
  <2> DEFINE s == trace
             t == round.items
  <2>1. s \in Seq(Items) /\ t \in Seq(Items) /\ Len(s) \in Nat /\ Unique(s) /\ Unique(t)
    BY <1>1 DEF TraceIds, RoundIds
  <2>2. \A k \in 1..Len(t) :
          \/ t[k].id.prefix \in {"msg", "rs"} /\ t[k].id.n = Len(s)
          \/ t[k].id.prefix = "call"
    BY <1>1, CallIdFields DEF RoundIds, OwnId, ItemId
  <2>3. \A k \in 1..Len(s) :
          /\ (s[k].id.prefix \in {"msg", "rs"} /\ s[k].id.n < Len(s)) \/ s[k].id.prefix = "fco"
          /\ s[k].id.n \in Nat
    BY <1>1, ItemNumbers DEF TraceIds
  <2> HIDE DEF s, t
  <2>4. \A i \in 1..Len(s) : \A j \in 1..Len(t) : s[i].id # t[j].id
    BY <2>1, <2>2, <2>3
  <2>5. Unique(s \o t)
    BY <2>1, <2>4, UniqueConcat
  <2> QED
    BY <2>5 DEF s, t
<1>6. ItemIdsUnique'
  BY <1>3, <1>5 DEF ItemIdsUnique, Unique
<1>7. ResultShownOnce'
  BY <1>4 DEF ResultShownOnce
<1> QED
  BY <1>2, <1>3, <1>6, <1>7 DEF Concludes

LEMMA StepConcludes ==
  TypeOK /\ StreamInv /\ WireInv /\ Concludes /\ [Next]_vars => Concludes'
<1> SUFFICES ASSUME TypeOK, StreamInv, WireInv, Concludes, [Next]_vars PROVE Concludes'
  OBVIOUS
<1>1. pc # "end" => wire.terminal = "none" /\ wire.output = <<>>
  BY DEF StreamInv, InFlight, Streaming, Concludes
<1>2. CASE UNCHANGED vars
  <2>1. wire' = wire /\ trace' = trace /\ Verdict(round') = Verdict(round)
        /\ TaskResult(round') = TaskResult(round)
    BY <1>2 DEF vars
  <2>2. ItemIdsUnique => ItemIdsUnique'
    BY <2>1 DEF ItemIdsUnique
  <2>3. ResultShownOnce => ResultShownOnce'
    BY <2>1 DEF ResultShownOnce
  <2> QED
    BY <2>1, <2>2, <2>3 DEF Concludes, Settled
<1>3. CASE wire' = wire /\ pc # "end"
  BY <1>1, <1>3 DEF Concludes
<1>4. ASSUME NEW w \in Wires, NEW failure, wire' = Failed(w, failure), pc # "end",
             w.terminal = "none", w.output = wire.output
      PROVE  Concludes'
  <2>1. wire'.terminal \in {"none", "failed"} /\ wire'.output = <<>>
    BY <1>1, <1>4 DEF Failed, Wires
  <2> QED
    BY <2>1 DEF Concludes
<1>5. CASE Errors
  BY <1>1, <1>4, <1>5 DEF Errors, UpstreamError, TypeOK
<1>6. CASE Chunk
  <2>1. pc # "end" /\ wire'.terminal = wire.terminal /\ wire'.output = wire.output
    BY <1>6, ChunkEffect
  <2> QED
    BY <1>1, <2>1 DEF Concludes
<1>7. pc # "end" =>
        /\ ViolationWire \in Wires /\ ToolsWire \in Wires
        /\ ViolationWire.terminal = "none" /\ ToolsWire.terminal = "none"
        /\ ViolationWire.output = wire.output /\ ToolsWire.output = wire.output
  BY CaptureType, CaptureStreams, CaptureOutput DEF StreamInv, InFlight, Streaming
<1>8. CASE TaskProtocolRetry \/ InternalToolFollowUp
  BY <1>1, <1>7, <1>8
  DEF TaskProtocolRetry, AskCorrection, InternalToolFollowUp, AskFollowUp, Concludes
<1>9. CASE TaskProtocolViolation \/ InternalToolRoundsExceeded
  BY <1>4, <1>7, <1>9 DEF TaskProtocolViolation, InternalToolRoundsExceeded
<1>10. CASE EndTask
  BY <1>10, EndTaskConcludes
<1>11. CASE ReturnFinal
  BY <1>11, ReturnFinalConcludes
<1> QED
  BY <1>2, <1>3, <1>5, <1>6, <1>8, <1>9, <1>10, <1>11
  DEF Next, Upstream, Decide, Cancel, Open, ContextDone, StreamDone

ConcludesInv == TypeOK /\ StreamInv /\ WireInv /\ Concludes

LEMMA ConcludesHolds == Spec => []ConcludesInv
<1>1. Init => ConcludesInv
  BY InitTypeOK, InitStreamInv, InitWireInv DEF ConcludesInv, Init, Concludes
<1>2. ConcludesInv /\ [Next]_vars => ConcludesInv'
  BY StepTypeOK, StepStreamInv, StepWireInv, StepConcludes DEF ConcludesInv
<1> QED
  BY <1>1, <1>2, PTL DEF Spec

\* Codex can tell the items of a completed response apart by their ids, in
\* whatever order the upstream streams and however many rounds went before: the
\* offset in an id keeps it from those of earlier rounds.  Excepted is only the
\* message made from the result of a finished task, whose id the text of the
\* first round may have.
THEOREM ItemIdsAreUnique == Spec => []ItemIdsUnique
<1>1. ConcludesInv => ItemIdsUnique
  <2>1. wire.output = <<>> => Len(wire.output) = 0
    OBVIOUS
  <2> QED
    BY <2>1 DEF ConcludesInv, Concludes, ItemIdsUnique
<1> QED
  BY <1>1, ConcludesHolds, PTL

\* The result of a finished task is in the output, and the bridge adds it
\* only where the model had not shown it.
THEOREM ResultIsShownOnce == Spec => []ResultShownOnce
<1>1. ConcludesInv => ResultShownOnce
  BY DEF ConcludesInv, Concludes, ResultShownOnce
<1> QED
  BY <1>1, ConcludesHolds, PTL

\* With the one correction the code allows, text that Codex has started to
\* show is in the output.  A second correction would drop what a follow-up
\* streamed before it: captureNarrative runs before the first one only.
THEOREM NarrativeIsKept ==
  ASSUME MaxTaskProtocolRetries <= 1
  PROVE  Spec => []NarrativeKept
<1>1. ConcludesInv => NarrativeKept
  BY DEF ConcludesInv, Concludes, Settled, NarrativeKept
<1> QED
  BY <1>1, ConcludesHolds, PTL

\* An upstream that streams reasoning, text and calls in that order makes
\* the bridge announce each item once, at the index where it finishes.
THEOREM AnnouncedOnce ==
  ASSUME CanonicalOrder, MaxTaskProtocolRetries <= 1
  PROVE  Spec => []AnnouncedWhereFinished
<1>1. ConcludesInv => AnnouncedWhereFinished
  <2> SUFFICES ASSUME ConcludesInv, wire.terminal = "completed"
               PROVE  /\ wire.announced = {[id |-> wire.finished[k].item.id,
                                            index |-> wire.finished[k].index] :
                                              k \in 1..Len(wire.finished)}
                      /\ wire.reannounced = {}
    BY DEF AnnouncedWhereFinished
  <2> DEFINE output == wire.output
  <2>1. /\ wire.reannounced = {} /\ wire.announced = PlacesFrom(output, 0)
        /\ wire.finished = DoneEvents(output, 0) /\ output \in Seq(Items)
    BY DEF ConcludesInv, Concludes, Settled, StreamInv, StreamMatchesOutput, TypeOK, Wires
  <2> HIDE DEF output
  <2>2. Len(DoneEvents(output, 0)) = Len(output)
    BY <2>1 DEF DoneEvents
  <2>3. \A k \in 1..Len(output) :
          DoneEvents(output, 0)[k] = [item |-> output[k], index |-> 0 + k - 1]
    BY DEF DoneEvents
  <2>4. \A k \in 1..Len(output) :
          [id |-> wire.finished[k].item.id, index |-> wire.finished[k].index] =
            [id |-> output[k].id, index |-> 0 + k - 1]
    <3> SUFFICES ASSUME NEW k \in 1..Len(output)
                 PROVE  [id |-> wire.finished[k].item.id, index |-> wire.finished[k].index] =
                          [id |-> output[k].id, index |-> 0 + k - 1]
      OBVIOUS
    <3>1. wire.finished[k] = [item |-> output[k], index |-> 0 + k - 1]
      BY <2>1, <2>3
    <3> QED
      BY <3>1
  <2>5. Len(wire.finished) = Len(output)
    BY <2>1, <2>2
  <2>6. PlacesFrom(output, 0) = {[id |-> wire.finished[k].item.id,
                                  index |-> wire.finished[k].index] : k \in 1..Len(wire.finished)}
    BY <2>4, <2>5, Zenon DEF PlacesFrom
  <2> QED
    BY <2>1, <2>6
<1> QED
  BY <1>1, ConcludesHolds, PTL

=============================================================================
