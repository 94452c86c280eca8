------------------------ MODULE ProjectedTurnProofs ------------------------
(* Theorems about ProjectedTurn, for every value of its constants.         *)
EXTENDS ProjectedTurn, SequenceTheorems, DataLemmas

-----------------------------------------------------------------------------
(* The inductive invariant.  TypeOK says what the variables hold; the rest *)
(* says how the round, the slots, the keys and the wire hang together.     *)

\* The bounds and what each place in the handler is reached with.
Control ==
  /\ taskProtocolRetries <= MaxTaskProtocolRetries
  /\ taskProtocolRetries <= sequence
  /\ mode # "protocol" => taskProtocolRetries = 0 /\ ~round.hideNarrative
  /\ pc \in {"open", "stream"} => round.cursor = 1
  /\ pc = "open" => round = NewRound(round.hideNarrative)
  /\ pc = "absorb" => round.cursor <= Len(round.output)
  /\ pc = "repair" => mode = "structured"
  /\ pc \in {"stream", "absorb"} => streamed
  /\ round.over => streamed /\ pc \in {"stream", "repair", "end"}
  /\ pc # "end" => wire.terminals = (IF round.over THEN <<"failed">> ELSE <<>>) /\ wire.output = <<>>
  /\ streamed /\ sequence > 0 /\ sequence = taskProtocolRetries => round.hideNarrative

\* The follow-ups of a turn, counted the way each mode counts them.
Counted ==
  IF streamed THEN sequence <= MaxInternalToolRounds + taskProtocolRetries
  ELSE sequence - taskProtocolRetries <= MaxInternalToolRounds * taskProtocolRetries + followUps

\* What upstream sent in this round.
OutputGood ==
  /\ Len(round.output) <= MaxItems
  /\ round.open => Len(round.output) > 0
  /\ round.hidden \subseteq 1..Len(round.output)
  /\ \A k \in 1..Len(round.output) :
       /\ round.output[k].id = [round |-> sequence, k |-> k]
       /\ round.output[k].kind \in Kinds

\* Each item of the round has at most one slot, which holds it or is reserved.
Owned(items, indexes, output) ==
  /\ \A k \in 1..Len(items) : items[k].kind \notin InternalKinds
  /\ \A k \in DOMAIN indexes :
       /\ items[indexes[k] + 1] \in {output[k], Blank}
       /\ \A i \in DOMAIN indexes : indexes[i] = indexes[k] => i = k

\* The keys name the slots of the messages seen so far, in this round or before.
Keyed(items, indexes, output, ids) ==
  \A id \in DOMAIN ids :
    \/ id.round < sequence
    \/ /\ id.round = sequence /\ id.k \in DOMAIN indexes
       /\ indexes[id.k] = ids[id]
       /\ items[ids[id] + 1] = output[id.k]

SlotsGood ==
  /\ Owned(slots, round.indexes, round.output)
  /\ Keyed(slots, round.indexes, round.output, keys)

\* Not streamed, there are no slots and nothing is written before the end.
WholeQuiet ==
  ~streamed => /\ slots = <<>> /\ keys = <<>> /\ omissions = 0
               /\ wire.announced = {} /\ wire.finished = <<>>

\* What was finished stands in its slot.
FinishedStand ==
  pc # "end" =>
    \A e \in 1..Len(wire.finished) :
      /\ wire.finished[e].index < Len(slots)
      /\ slots[wire.finished[e].index + 1] = wire.finished[e].item
      /\ wire.finished[e].item.kind \in {"message", "work"}

\* Nothing of a structured answer is written before the end.
StructuredQuiet ==
  mode = "structured" /\ pc # "end" => wire.announced = {} /\ wire.finished = <<>>

\* While upstream sends every event: each item is announced, then finished or
\* hidden, before the next one appears, and the slots hold what was sent.
Tracked ==
  streamed /\ omissions = 0 =>
    /\ ~round.partial
    /\ pc \in {"absorb", "decide", "repair"} => ~round.open
    /\ \A k \in DOMAIN round.indexes :
         /\ k \notin round.hidden /\ round.output[k].kind \notin InternalKinds
         /\ slots[round.indexes[k] + 1] = round.output[k]
         /\ round.hideNarrative => round.output[k].kind # "message"
    /\ \A k \in 1..Len(round.output) :
         \/ k = Len(round.output) /\ round.open
         \/ k \in round.hidden \cup DOMAIN round.indexes
    /\ round.hideNarrative => \A k \in 1..Len(round.output) :
         round.output[k].kind = "message" => k \in round.hidden

\* Then what is finished is a prefix of the slots, in their order; only the
\* open item may have a slot that is not finished yet, the last one.
Pending == round.open /\ Len(round.output) \in DOMAIN round.indexes
InOrder ==
  streamed /\ omissions = 0 /\ emitOutput /\ pc # "end" =>
    /\ ~Pending => Len(slots) = Len(wire.finished)
    /\ Pending => /\ Len(slots) = Len(wire.finished) + 1
                  /\ round.indexes[Len(round.output)] = Len(wire.finished)
    /\ \A e \in 1..Len(wire.finished) :
         wire.finished[e] = [item |-> slots[e], index |-> e - 1]

IInv ==
  /\ TypeOK /\ Control /\ Counted /\ OutputGood /\ SlotsGood
  /\ WholeQuiet /\ FinishedStand /\ StructuredQuiet /\ Tracked /\ InOrder

-----------------------------------------------------------------------------
(* The operators the model is built from                                   *)

USE DEF NoText, CallKinds, EndKinds, InternalKinds

LEMMA ItemTypes ==
  /\ \A kind \in Kinds : \A text \in TextsOf(kind), id \in Ids : Item(id, kind, text) \in Items
  /\ \A text \in Texts \cup {NoText}, id \in Ids : Item(id, "message", text) \in Items
  /\ Blank \in Items
  /\ \A i, j \in Nat : [round |-> i, k |-> j] \in Ids
BY DEF Item, Items, Kinds, TextsOf, Blank, Ids

LEMMA NewRoundType ==
  ASSUME NEW hideNarrative \in BOOLEAN
  PROVE  LET r == NewRound(hideNarrative)
         IN /\ r.hideNarrative = hideNarrative /\ r.output = <<>> /\ ~r.open /\ ~r.partial
            /\ ~r.over /\ r.indexes = <<>> /\ r.hidden = {} /\ r.cursor = 1
BY DEF NewRound

\* An entry is added to a map, or replaced in it.
LEMMA WithEntryType ==
  ASSUME NEW D, NEW map \in [D -> Nat], NEW key, NEW value \in Nat
  PROVE  /\ WithEntry(map, key, value) \in [D \cup {key} -> Nat]
         /\ WithEntry(map, key, value)[key] = value
         /\ \A x \in D : x # key => WithEntry(map, key, value)[x] = map[x]
BY DEF WithEntry

\* What reserveItem and storeItem do to the slots, given the map of the items
\* of the round to their slots.
PutAt(items, index, item) ==
  IF index = Len(items) THEN Append(items, item) ELSE [items EXCEPT ![index + 1] = item]
SlotIn(items, indexes, k) == IF k \in DOMAIN indexes THEN indexes[k] ELSE Len(items)

LEMMA PutEffect ==
  ASSUME NEW items \in Seq(Items), NEW index \in 0..Len(items), NEW item \in Items
  PROVE  /\ PutAt(items, index, item) \in Seq(Items)
         /\ Len(PutAt(items, index, item)) =
              (IF index = Len(items) THEN Len(items) + 1 ELSE Len(items))
         /\ PutAt(items, index, item)[index + 1] = item
         /\ \A k \in 1..Len(items) :
              k # index + 1 => PutAt(items, index, item)[k] = items[k]
         /\ \A k \in 1..Len(PutAt(items, index, item)) :
              k # index + 1 => k \in 1..Len(items)
BY DEF PutAt

LEMMA PutOwned ==
  ASSUME NEW items \in Seq(Items), NEW output \in Seq(Items),
         NEW indexes, indexes \in [DOMAIN indexes -> Nat],
         \A j \in DOMAIN indexes : indexes[j] < Len(items),
         Owned(items, indexes, output),
         NEW k \in 1..Len(output), output[k].kind \notin InternalKinds,
         NEW item \in {output[k], Blank}, NEW index, index = SlotIn(items, indexes, k)
  PROVE  Owned(PutAt(items, index, item), WithEntry(indexes, k, index), output)
<1> DEFINE D == DOMAIN indexes
           s == PutAt(items, index, item)
           map == WithEntry(indexes, k, index)
<1>1. index \in 0..Len(items)
  BY DEF SlotIn
<1>5. \A j \in DOMAIN indexes : j # k => indexes[j] # index
  BY DEF Owned, SlotIn
<1>2. item \in Items /\ item.kind \notin InternalKinds
  BY ItemTypes DEF Blank, Item
<1>3. /\ map \in [D \cup {k} -> Nat] /\ map[k] = index
      /\ \A j \in D : j # k => map[j] = indexes[j]
  BY <1>1 DEF WithEntry
<1>4. /\ s \in Seq(Items) /\ s[index + 1] = item
      /\ \A j \in 1..Len(items) : j # index + 1 => s[j] = items[j]
      /\ \A j \in 1..Len(s) : j # index + 1 => j \in 1..Len(items)
  BY <1>1, <1>2, PutEffect
<1> HIDE DEF s, map
<1>6. ASSUME NEW j \in DOMAIN map
      PROVE  /\ s[map[j] + 1] \in {output[j], Blank}
             /\ \A i \in DOMAIN map : map[i] = map[j] => i = j
  <2>1. CASE j = k
    BY <1>3, <1>4, <1>5, <2>1
  <2>2. CASE j # k
    <3>1. j \in DOMAIN indexes /\ map[j] = indexes[j] /\ indexes[j] # index
      BY <1>3, <1>5, <1>6, <2>2
    <3>2. indexes[j] + 1 \in 1..Len(items) /\ indexes[j] + 1 # index + 1
      BY <1>1, <3>1
    <3>3. s[indexes[j] + 1] = items[indexes[j] + 1]
      BY <1>4, <3>2
    <3> QED
      BY <1>3, <1>5, <3>1, <3>3 DEF Owned
  <2> QED
    BY <2>1, <2>2
<1>7. \A j \in 1..Len(s) : s[j].kind \notin InternalKinds
  BY <1>2, <1>4 DEF Owned
<1> QED
  BY <1>6, <1>7 DEF Owned, s, map

\* Keys stay good when an item gets its slot.
LEMMA PutKeyed ==
  ASSUME NEW items \in Seq(Items), NEW output \in Seq(Items), sequence \in Nat,
         NEW indexes, indexes \in [DOMAIN indexes -> Nat],
         \A j \in DOMAIN indexes : indexes[j] < Len(items),
         Owned(items, indexes, output),
         NEW ids, ids \in [DOMAIN ids -> Nat], DOMAIN ids \subseteq Ids,
         \A id \in DOMAIN ids : ids[id] < Len(items),
         Keyed(items, indexes, output, ids),
         NEW k \in 1..Len(output), output[k].id = [round |-> sequence, k |-> k],
         NEW item \in {output[k], Blank},
         item = output[k] \/ k \notin DOMAIN indexes,
         NEW index, index = SlotIn(items, indexes, k)
  PROVE  /\ Keyed(PutAt(items, index, item), WithEntry(indexes, k, index), output, ids)
         /\ item = output[k] =>
              Keyed(PutAt(items, index, item), WithEntry(indexes, k, index), output,
                    WithEntry(ids, output[k].id, index))
<1> DEFINE D == DOMAIN indexes
           E == DOMAIN ids
           s == PutAt(items, index, item)
           map == WithEntry(indexes, k, index)
           more == WithEntry(ids, output[k].id, index)
<1>1. index \in 0..Len(items)
  BY DEF SlotIn
<1>5. /\ \A j \in DOMAIN indexes : j # k => indexes[j] # index
      /\ k \in DOMAIN indexes => indexes[k] = index
  BY DEF Owned, SlotIn
<1>2. item \in Items
  BY ItemTypes
<1>3. /\ map \in [D \cup {k} -> Nat] /\ map[k] = index
      /\ \A j \in D : j # k => map[j] = indexes[j]
  BY <1>1 DEF WithEntry
<1>4. /\ s \in Seq(Items) /\ s[index + 1] = item
      /\ \A j \in 1..Len(items) : j # index + 1 => s[j] = items[j]
  BY <1>1, <1>2, PutEffect
<1>6. /\ more \in [E \cup {output[k].id} -> Nat] /\ more[output[k].id] = index
      /\ \A id \in E : id # output[k].id => more[id] = ids[id]
  BY <1>1 DEF WithEntry
<1> HIDE DEF s, map, more
<1>7. ASSUME NEW id \in DOMAIN ids, ~(id.round < sequence)
      PROVE  /\ id.round = sequence /\ id.k \in DOMAIN map
             /\ map[id.k] = ids[id] /\ s[ids[id] + 1] = output[id.k]
             /\ id.k # k => ids[id] = indexes[id.k]
  <2>1. /\ id.round = sequence /\ id.k \in DOMAIN indexes
        /\ indexes[id.k] = ids[id] /\ items[ids[id] + 1] = output[id.k]
    BY <1>7 DEF Keyed
  <2>2. ids[id] + 1 \in 1..Len(items)
    OBVIOUS
  <2>3. CASE id.k = k
    BY <1>3, <1>4, <1>5, <2>1, <2>3
  <2>4. CASE id.k # k
    <3>1. ids[id] + 1 # index + 1
      BY <1>1, <1>5, <2>1, <2>4
    <3>2. s[ids[id] + 1] = items[ids[id] + 1]
      BY <1>4, <2>2, <3>1
    <3> QED
      BY <1>3, <2>1, <2>4, <3>2
  <2> QED
    BY <2>3, <2>4
<1>8. Keyed(s, map, output, ids)
  BY <1>7 DEF Keyed
<1>9. ASSUME item = output[k] PROVE Keyed(s, map, output, more)
  <2> SUFFICES ASSUME NEW id \in DOMAIN more, ~(id.round < sequence)
               PROVE  /\ id.round = sequence /\ id.k \in DOMAIN map
                      /\ map[id.k] = more[id] /\ s[more[id] + 1] = output[id.k]
    BY DEF Keyed
  <2>1. CASE id = output[k].id
    BY <1>3, <1>4, <1>6, <1>9, <2>1
  <2>2. CASE id # output[k].id
    BY <1>6, <1>7, <2>2
  <2> QED
    BY <2>1, <2>2
<1> QED
  BY <1>8, <1>9 DEF s, map, more

-----------------------------------------------------------------------------
(* What is written to Codex                                                *)

Finished == [item : Items, index : Nat]

LEMMA WireFields ==
  ASSUME NEW w \in Wires
  PROVE  /\ w.announced \in SUBSET [id : Ids, index : Nat] /\ w.finished \in Seq(Finished)
         /\ w.output \in Seq(Items) /\ w.terminals \in Seq({"completed", "failed"})
BY DEF Wires, Finished

LEMMA AnnounceEffect ==
  ASSUME NEW w \in Wires, NEW id \in Ids, NEW index \in Nat
  PROVE  /\ Announce(w, id, index) \in Wires
         /\ Announce(w, id, index).finished = w.finished
         /\ Announce(w, id, index).terminals = w.terminals
         /\ Announce(w, id, index).output = w.output
<1>1. w.announced \cup {[id |-> id, index |-> index]} \in SUBSET [id : Ids, index : Nat]
  BY WireFields
<1> QED
  BY <1>1 DEF Announce, Wires

LEMMA FinishEffect ==
  ASSUME NEW w \in Wires, NEW item \in Items, NEW index \in Nat
  PROVE  /\ Finish(w, item, index) \in Wires
         /\ Finish(w, item, index).announced = w.announced
         /\ Finish(w, item, index).finished = Append(w.finished, [item |-> item, index |-> index])
         /\ Finish(w, item, index).terminals = w.terminals
         /\ Finish(w, item, index).output = w.output
<1>1. [item |-> item, index |-> index] \in Finished
  BY DEF Finished
<1>2. Append(w.finished, [item |-> item, index |-> index]) \in Seq(Finished)
  BY <1>1, WireFields
<1> QED
  BY <1>2 DEF Finish, Wires, Finished

\* An item announced and finished at once.
LEMMA EmitItemEffect ==
  ASSUME NEW w \in Wires, NEW item \in Items, NEW index \in Nat
  PROVE  /\ EmitItem(w, item, index) \in Wires
         /\ EmitItem(w, item, index).finished = Append(w.finished, [item |-> item, index |-> index])
         /\ EmitItem(w, item, index).terminals = w.terminals
         /\ EmitItem(w, item, index).output = w.output
<1>1. item.id \in Ids
  BY DEF Items
<1> DEFINE v == Announce(w, item.id, index)
<1>2. v \in Wires /\ v.finished = w.finished /\ v.terminals = w.terminals /\ v.output = w.output
  BY <1>1, AnnounceEffect
<1> HIDE DEF v
<1>3. /\ Finish(v, item, index) \in Wires
      /\ Finish(v, item, index).finished = Append(v.finished, [item |-> item, index |-> index])
      /\ Finish(v, item, index).terminals = v.terminals
      /\ Finish(v, item, index).output = v.output
  BY <1>2, FinishEffect
<1> QED
  BY <1>2, <1>3 DEF EmitItem, v

\* The items of a whole response emitted at once.
LEMMA EmitItemsEffect ==
  ASSUME NEW w \in Wires, NEW items \in Seq(Items)
  PROVE  /\ EmitItems(w, items) \in Wires
         /\ EmitItems(w, items).finished =
              w.finished \o [k \in 1..Len(items) |-> [item |-> items[k], index |-> k - 1]]
         /\ EmitItems(w, items).terminals = w.terminals
<1> DEFINE n == Len(items)
           place(k) == [id |-> items[k].id, index |-> k - 1]
           event(k) == [item |-> items[k], index |-> k - 1]
           places == {place(k) : k \in 1..n}
           events == [k \in 1..n |-> event(k)]
<1>0. n \in Nat
  OBVIOUS
<1>1. ASSUME NEW k \in 1..n
      PROVE  place(k) \in [id : Ids, index : Nat] /\ event(k) \in Finished
  <2>1. items[k] \in Items
    OBVIOUS
  <2>2. items[k].id \in Ids
    BY <2>1 DEF Items
  <2>3. k - 1 \in Nat
    BY <1>0
  <2> QED
    BY <2>1, <2>2, <2>3 DEF Finished
<1>2. EmitItems(w, items) = [w EXCEPT !.announced = @ \cup places, !.finished = @ \o events]
  BY DEF EmitItems
<1> HIDE DEF n, place, event
<1>3. places \subseteq [id : Ids, index : Nat] /\ events \in Seq(Finished)
  BY <1>0, <1>1
<1> HIDE DEF places, events
<1>4. /\ w.announced \cup places \in SUBSET [id : Ids, index : Nat]
      /\ w.finished \o events \in Seq(Finished)
  BY <1>3, WireFields
<1>5. /\ EmitItems(w, items) \in Wires /\ EmitItems(w, items).finished = w.finished \o events
      /\ EmitItems(w, items).terminals = w.terminals
  BY <1>2, <1>4 DEF Wires, Finished
<1> QED
  BY <1>5 DEF events, event, n

LEMMA TerminateEffect ==
  ASSUME NEW w \in Wires, NEW terminal \in {"completed", "failed"}
  PROVE  /\ Terminate(w, terminal) \in Wires
         /\ Terminate(w, terminal).announced = w.announced
         /\ Terminate(w, terminal).finished = w.finished
         /\ Terminate(w, terminal).terminals = Append(w.terminals, terminal)
         /\ Terminate(w, terminal).output = w.output
<1>1. Append(w.terminals, terminal) \in Seq({"completed", "failed"})
  BY WireFields
<1> QED
  BY <1>1 DEF Terminate, Wires

\* A failed turn is told so, or nothing.
LEMMA FailedEffect ==
  ASSUME NEW failure, wire \in Wires,
         NEW v \in {Failed(wire, failure), projectedResponseFailure(failure)}
  PROVE  /\ v \in Wires /\ v.announced = wire.announced /\ v.finished = wire.finished
         /\ v.terminals \in {wire.terminals, Append(wire.terminals, "failed")}
         /\ v.output = wire.output
BY TerminateEffect DEF Failed, projectedResponseFailure

LEMMA CompletedEffect ==
  ASSUME NEW w \in Wires, NEW output \in Seq(Items)
  PROVE  /\ Completed(w, output) \in Wires
         /\ Completed(w, output).announced = w.announced
         /\ Completed(w, output).finished = w.finished
         /\ Completed(w, output).terminals = Append(w.terminals, "completed")
         /\ Completed(w, output).output = output
<1> DEFINE v == Terminate(w, "completed")
<1>1. /\ v \in Wires /\ v.announced = w.announced /\ v.finished = w.finished
      /\ v.terminals = Append(w.terminals, "completed")
  BY TerminateEffect
<1> HIDE DEF v
<1>2. Completed(w, output) = [v EXCEPT !.output = output]
  BY DEF Completed, v
<1> QED
  BY <1>1, <1>2 DEF Wires

-----------------------------------------------------------------------------
(* Steps that end the turn                                                 *)

LEMMA EndKeeps ==
  ASSUME IInv, pc # "end", End, wire' \in Wires,
         ~streamed => wire'.announced = wire.announced /\ wire'.finished = wire.finished
  PROVE  IInv'
<1> USE DEF IInv, End
<1>1. TypeOK'
  BY DEF TypeOK, Rounds, Wires, Modes
<1>2. Control' /\ Counted'
  BY DEF Control, Counted
<1>3. OutputGood' /\ SlotsGood'
  BY DEF OutputGood, SlotsGood, Owned, Keyed, Kinds
<1>4. WholeQuiet' /\ FinishedStand' /\ StructuredQuiet'
  BY DEF WholeQuiet, FinishedStand, StructuredQuiet
<1>5. Tracked' /\ InOrder'
  BY DEF Tracked, InOrder
<1> QED
  BY <1>1, <1>2, <1>3, <1>4, <1>5

-----------------------------------------------------------------------------
(* The filter of the end tool, by induction over the output                *)

LEMMA FilterEffect ==
  ASSUME NEW output \in Seq(Items)
  PROVE  /\ projectedWithoutTaskEndCalls(output) \in Seq(Items)
         /\ mode = "protocol" =>
              \A k \in 1..Len(projectedWithoutTaskEndCalls(output)) :
                projectedWithoutTaskEndCalls(output)[k].kind \notin EndKinds
<1> DEFINE N == Len(output)
           Kept == {s \in Seq(Items) : \A k \in 1..Len(s) : s[k].kind \notin EndKinds}
           next(n, s) == IF output[n].kind \in EndKinds THEN s ELSE Append(s, output[n])
           step == [p \in (1..N) \X Kept |-> next(p[1], p[2])]
           IsKept(f) == f = [n \in 0..N |-> IF n = 0 THEN <<>> ELSE next(n, f[n - 1])]
           kept == CHOOSE f : IsKept(f)
<1>1. N \in Nat /\ <<>> \in Kept /\ \A n \in 1..N : output[n] \in Items
  OBVIOUS
<1>2. ASSUME NEW n \in 1..N, NEW s \in Kept PROVE next(n, s) \in Kept
  <2>1. s \in Seq(Items) /\ output[n] \in Items /\ \A k \in 1..Len(s) : s[k].kind \notin EndKinds
    BY <1>1
  <2>2. ASSUME output[n].kind \notin EndKinds PROVE Append(s, output[n]) \in Kept
    <3>1. /\ Append(s, output[n]) \in Seq(Items) /\ Len(Append(s, output[n])) = Len(s) + 1
          /\ Append(s, output[n])[Len(s) + 1] = output[n]
          /\ \A k \in 1..Len(s) : Append(s, output[n])[k] = s[k]
      BY <2>1
    <3>2. \A k \in 1..(Len(s) + 1) : k = Len(s) + 1 \/ k \in 1..Len(s)
      BY <2>1
    <3>3. \A k \in 1..Len(Append(s, output[n])) : Append(s, output[n])[k].kind \notin EndKinds
      BY <2>1, <2>2, <3>1, <3>2
    <3> QED
      BY <3>1, <3>3
  <2> QED
    BY <2>2
<1> HIDE DEF N, Kept, next
<1>3. step \in [(1..N) \X Kept -> Kept]
  BY <1>2
<1>4. /\ \A n \in 1..N, s \in Kept : step[<<n, s>>] = next(n, s)
  OBVIOUS
<1> HIDE DEF step
<1>5. PICK f \in [0..N -> Kept] :
        f[0] = <<>> /\ \A n \in 1..N : f[n] = step[<<n, f[n - 1]>>]
  <2> DEFINE empty == <<>>
  <2> HIDE DEF empty
  <2>1. empty \in Kept /\ N \in Nat
    BY <1>1 DEF empty
  <2>2. \E f : IsLoop(f, Kept, N, empty, step)
    BY <1>3, <2>1, LoopExists
  <2> QED
    BY <2>2 DEF empty, IsLoop
<1>6. IsKept(f)
  <2>1. ASSUME NEW n \in 0..N PROVE f[n] = IF n = 0 THEN <<>> ELSE next(n, f[n - 1])
    <3>1. n # 0 => n \in 1..N /\ f[n - 1] \in Kept
      BY <1>1
    <3> QED
      BY <1>4, <1>5, <3>1
  <2> QED
    BY <2>1
<1>7. IsKept(kept)
  BY <1>6
<1> HIDE DEF kept
<1>8. ASSUME NEW n \in Nat PROVE n <= N => kept[n] \in Kept
  <2> DEFINE G == {m \in Nat : m <= N => kept[m] \in Kept}
  <2>1. 0 \in G
    BY <1>1, <1>7
  <2>2. ASSUME NEW m \in Nat, m \in G PROVE m + 1 \in G
    <3> SUFFICES ASSUME m + 1 <= N PROVE kept[m + 1] \in Kept
      OBVIOUS
    <3>1. kept[m] \in Kept /\ m + 1 \in 1..N /\ (m + 1) - 1 = m /\ m + 1 # 0
      BY <1>1, <2>2
    <3>2. kept[m + 1] = next(m + 1, kept[m])
      BY <1>1, <1>7, <3>1
    <3> QED
      BY <1>2, <3>1, <3>2
  <2> HIDE DEF G
  <2>3. Nat \subseteq G
    BY <2>1, <2>2, SetInduction
  <2> QED
    BY <2>3 DEF G
<1>9. kept[N] \in Kept
  BY <1>1, <1>8
<1>10. projectedWithoutTaskEndCalls(output) = IF mode # "protocol" THEN output ELSE kept[N]
  BY DEF projectedWithoutTaskEndCalls, kept, N, next
<1> QED
  BY <1>9, <1>10 DEF Kept

-----------------------------------------------------------------------------
(* Steps that leave the items and the slots alone                          *)

\* The invariants over the items, when only the other fields of the round may
\* have changed.
LEMMA SameItems ==
  ASSUME OutputGood, SlotsGood,
         UNCHANGED <<mode, slots, keys, sequence>>, round'.output = round.output,
         round'.indexes = round.indexes, round'.open = round.open,
         round'.hidden = round.hidden
  PROVE  OutputGood' /\ SlotsGood'
BY DEF OutputGood, SlotsGood, Owned, Keyed, Kinds

LEMMA QuietKeeps ==
  ASSUME IInv, Cancel \/ Open \/ AskRepair \/ ResponseCompleted
  PROVE  IInv'
<1> USE DEF IInv
<1>1. /\ UNCHANGED <<mode, streamed, followUps, round, slots, keys, sequence,
                     taskProtocolRetries, wire>>
      /\ pc # "end" /\ pc' # "end" /\ canceled' \in BOOLEAN
      /\ omissions' \in 0..MaxOmissions /\ omissions \in Nat
      /\ omissions' = 0 => omissions = 0
      /\ pc' # pc \/ omissions' # omissions => ~round.over
      /\ \/ pc' = pc
         \/ pc = "open" /\ pc' = "stream" /\ streamed
         \/ pc = "decide" /\ pc' = "repair" /\ mode = "structured"
         \/ pc = "stream" /\ pc' = "absorb" /\ round.output # <<>>
         \/ pc = "stream" /\ pc' = "decide"
      /\ pc = "stream" /\ pc' # pc /\ omissions' = 0 /\ ~round.partial => ~round.open
      /\ omissions' # omissions => pc = "stream"
  <2>1. omissions \in Nat /\ LeftOpen \in 0..1 /\ MaxOmissions \in Nat /\ canceled \in BOOLEAN
        /\ omissions <= MaxOmissions
    BY ProjectedConstants DEF TypeOK, LeftOpen
  <2>2. CASE Cancel
    BY <2>1, <2>2 DEF Cancel
  <2>3. CASE Open
    BY <2>1, <2>3 DEF Open, Control
  <2>4. CASE AskRepair
    BY <2>1, <2>4 DEF AskRepair, Judged, emitOutput, Control
  <2>5. CASE ResponseCompleted
    BY <2>1, <2>5 DEF ResponseCompleted, LeftOpen
  <2> QED
    BY <2>2, <2>3, <2>4, <2>5
<1>2. TypeOK'
  BY <1>1 DEF TypeOK, Rounds, Wires, Modes
<1>3. Control'
  <2>1. round.output # <<>> => Len(round.output) \in Nat /\ Len(round.output) >= 1
    BY DEF TypeOK, Rounds
  <2> QED
    BY <1>1, <2>1 DEF Control
<1>4. Counted' /\ OutputGood' /\ SlotsGood'
  BY <1>1, SameItems DEF Counted
<1>5. WholeQuiet' /\ FinishedStand' /\ StructuredQuiet'
  BY <1>1 DEF WholeQuiet, FinishedStand, StructuredQuiet, Control
<1>6. Tracked' /\ InOrder'
  <2>1. pc = "open" => ~round.open
    BY DEF Control, NewRound
  <2> QED
    BY <1>1, <2>1 DEF Tracked, InOrder, Pending, emitOutput
<1> QED
  BY <1>2, <1>3, <1>4, <1>5, <1>6

\* response.failed is forwarded.
LEMMA UpstreamFailedKeeps ==
  ASSUME IInv, UpstreamFailed
  PROVE  IInv'
<1> USE DEF IInv
<1>0. /\ pc \in {"stream", "repair"} /\ streamed /\ ~round.over
      /\ round' = [round EXCEPT !.over = TRUE] /\ wire' = Terminate(wire, "failed")
      /\ UNCHANGED <<mode, streamed, followUps, pc, slots, keys, sequence,
                     taskProtocolRetries, omissions, canceled>>
  BY DEF UpstreamFailed
<1>1. /\ wire \in Wires /\ wire' \in Wires /\ wire'.announced = wire.announced
      /\ wire'.finished = wire.finished /\ wire'.output = wire.output
      /\ wire'.terminals = Append(wire.terminals, "failed")
  BY <1>0, TerminateEffect DEF TypeOK
<1>2. /\ round'.over /\ round'.hideNarrative = round.hideNarrative /\ round'.output = round.output
      /\ round'.open = round.open /\ round'.partial = round.partial
      /\ round'.indexes = round.indexes /\ round'.hidden = round.hidden
      /\ round'.cursor = round.cursor
  BY <1>0 DEF TypeOK, Rounds
<1>3. TypeOK'
  BY <1>0, <1>1, <1>2 DEF TypeOK, Rounds, Wires, Modes
<1>4. Control'
  BY <1>0, <1>1, <1>2 DEF Control
<1>5. Counted' /\ OutputGood' /\ SlotsGood'
  BY <1>0, <1>2, SameItems DEF Counted
<1>6. WholeQuiet' /\ FinishedStand' /\ StructuredQuiet'
  BY <1>0, <1>1 DEF WholeQuiet, FinishedStand, StructuredQuiet
<1>7. Tracked' /\ InOrder'
  <2>1. Tracked'
    BY <1>0, <1>2 DEF Tracked
  <2>2. InOrder'
    BY <1>0, <1>1, <1>2 DEF InOrder, Pending, emitOutput
  <2> QED
    BY <2>1, <2>2
<1> QED
  BY <1>3, <1>4, <1>5, <1>6, <1>7

-----------------------------------------------------------------------------
(* A whole answer, and the next request                                    *)

LEMMA WholeAnswerKeeps ==
  ASSUME IInv, WholeAnswer
  PROVE  IInv'
<1> USE DEF IInv
<1>1. PICK n \in 0..MaxItems : \E kinds \in [1..n -> Kinds] :
        \E texts \in [1..n -> Texts \cup {NoText}] :
          /\ \A k \in 1..n : texts[k] \in TextsOf(kinds[k])
          /\ round' = [round EXCEPT !.output =
               [k \in 1..n |-> Item([round |-> sequence, k |-> k], kinds[k], texts[k])]]
  BY DEF WholeAnswer
<1>2. PICK kinds \in [1..n -> Kinds], texts \in [1..n -> Texts \cup {NoText}] :
        /\ \A k \in 1..n : texts[k] \in TextsOf(kinds[k])
        /\ round' = [round EXCEPT !.output =
             [k \in 1..n |-> Item([round |-> sequence, k |-> k], kinds[k], texts[k])]]
  BY <1>1
<1> DEFINE item(k) == Item([round |-> sequence, k |-> k], kinds[k], texts[k])
           output == [k \in 1..n |-> item(k)]
<1>3. n \in Nat /\ n <= MaxItems
  BY ProjectedConstants
<1>4. ASSUME NEW k \in 1..n
      PROVE  /\ item(k) \in Items /\ item(k).id = [round |-> sequence, k |-> k]
             /\ item(k).kind \in Kinds
  <2>1. kinds[k] \in Kinds /\ texts[k] \in TextsOf(kinds[k]) /\ k \in Nat /\ sequence \in Nat
    BY <1>2, <1>3 DEF TypeOK
  <2>2. [round |-> sequence, k |-> k] \in Ids
    BY <2>1 DEF Ids
  <2>3. Item([round |-> sequence, k |-> k], kinds[k], texts[k]) \in Items
    BY <2>1, <2>2, ItemTypes
  <2> QED
    BY <2>1, <2>3 DEF Item
<1>5. round' = [round EXCEPT !.output = output]
  BY <1>2
<1> HIDE DEF item
<1>6. /\ output \in Seq(Items) /\ Len(output) = n
      /\ \A k \in 1..n : output[k].id = [round |-> sequence, k |-> k] /\ output[k].kind \in Kinds
  <2>1. output \in [1..n -> Items]
    BY <1>4
  <2>2. \A k \in 1..n : output[k] = item(k)
    OBVIOUS
  <2> HIDE DEF output
  <2>3. output \in Seq(Items) /\ Len(output) = n
    BY <1>3, <2>1
  <2> QED
    BY <1>4, <2>2, <2>3
<1> HIDE DEF output
<1>7. /\ pc = "open" /\ ~streamed /\ pc' = "decide"
      /\ UNCHANGED <<mode, streamed, followUps, slots, keys, sequence, taskProtocolRetries,
                     omissions, canceled, wire>>
  BY DEF WholeAnswer
<1>8. /\ round = NewRound(round.hideNarrative) /\ round.indexes = <<>> /\ ~round.over
      /\ slots = <<>> /\ keys = <<>> /\ ~round.open /\ round.hidden = {}
  BY <1>7 DEF Control, NewRound, WholeQuiet
<1>9. /\ round'.output = output /\ round'.hideNarrative = round.hideNarrative
      /\ ~round'.open /\ round'.partial = round.partial /\ ~round'.over
      /\ round'.indexes = <<>> /\ round'.hidden = round.hidden /\ round'.cursor = round.cursor
  BY <1>5, <1>8 DEF TypeOK, Rounds
<1>10. TypeOK'
  <2>1. round' \in Rounds'
    BY <1>5, <1>6, <1>9 DEF TypeOK, Rounds
  <2>2. /\ round'.indexes \in [DOMAIN round'.indexes -> Nat]
        /\ DOMAIN round'.indexes \subseteq 1..Len(round'.output)
        /\ \A k \in DOMAIN round'.indexes : round'.indexes[k] < Len(slots')
    BY <1>9
  <2> QED
    BY <1>7, <2>1, <2>2 DEF TypeOK, Modes, Wires
<1>11. Control' /\ Counted'
  BY <1>7, <1>9 DEF Control, Counted
<1>12. OutputGood'
  BY <1>3, <1>6, <1>7, <1>8, <1>9 DEF OutputGood, Kinds
<1>13. SlotsGood'
  BY <1>7, <1>8, <1>9 DEF SlotsGood, Owned, Keyed
<1>14. WholeQuiet' /\ FinishedStand' /\ StructuredQuiet' /\ Tracked' /\ InOrder'
  BY <1>7 DEF WholeQuiet, FinishedStand, StructuredQuiet, Tracked, InOrder
<1> QED
  BY <1>10, <1>11, <1>12, <1>13, <1>14

\* A follow-up or a correction starts a round of its own; the ids of the past
\* rounds stay behind its sequence number.
Asked(hideNarrative) ==
  /\ pc = "decide" /\ Ask(hideNarrative)
  /\ followUps' \in 0..MaxInternalToolRounds
  /\ taskProtocolRetries' \in Nat /\ taskProtocolRetries' <= MaxTaskProtocolRetries
  /\ taskProtocolRetries' <= sequence + 1
  /\ mode # "protocol" => taskProtocolRetries' = 0 /\ ~hideNarrative
  /\ streamed /\ sequence + 1 = taskProtocolRetries' => hideNarrative
  /\ Counted'

LEMMA AskKeeps ==
  ASSUME IInv, NEW hideNarrative \in BOOLEAN, Asked(hideNarrative)
  PROVE  IInv'
<1> USE DEF IInv, Asked
<1>1. /\ pc' = "open" /\ round' = NewRound(hideNarrative) /\ sequence' = sequence + 1
      /\ sequence \in Nat
      /\ UNCHANGED <<mode, streamed, slots, keys, omissions, canceled, wire>>
  BY DEF Ask, TypeOK
<1>2. /\ round'.hideNarrative = hideNarrative /\ round'.output = <<>> /\ ~round'.open
      /\ ~round'.partial /\ ~round'.over /\ round'.indexes = <<>> /\ round'.hidden = {}
      /\ round'.cursor = 1
  BY <1>1 DEF NewRound
<1>3. TypeOK'
  <2>1. round' \in Rounds'
    BY <1>1, <1>2, ProjectedConstants DEF Rounds, NewRound
  <2> QED
    BY <1>1, <1>2, <2>1 DEF TypeOK, Modes, Wires
<1>4. Control'
  <2>1. ~round.over
    BY DEF Control
  <2> QED
    BY <1>1, <1>2, <2>1 DEF Control
<1>5. OutputGood' /\ SlotsGood'
  <2>1. \A id \in DOMAIN keys : id.round <= sequence
    BY <1>1 DEF SlotsGood, Keyed, TypeOK, Ids
  <2>2. Keyed(slots, <<>>, <<>>, keys)'
    BY <1>1, <2>1 DEF Keyed, TypeOK, Ids
  <2>3. Owned(slots, <<>>, <<>>)
    BY DEF SlotsGood, Owned
  <2> QED
    BY <1>1, <1>2, <2>2, <2>3, ProjectedConstants DEF OutputGood, SlotsGood, Owned, Keyed
<1>6. WholeQuiet' /\ FinishedStand' /\ StructuredQuiet'
  BY <1>1 DEF WholeQuiet, FinishedStand, StructuredQuiet
<1>7. Tracked' /\ InOrder'
  <2>1. ~Pending' /\ round'.indexes = <<>> /\ Len(round'.output) = 0
    BY <1>2 DEF Pending
  <2>2. streamed /\ omissions = 0 => ~Pending
    BY DEF Tracked, InOrder, Pending
  <2>3. Tracked'
    BY <1>1, <1>2, <2>1 DEF Tracked
  <2>4. InOrder'
    BY <1>1, <1>2, <2>1, <2>2 DEF InOrder, emitOutput
  <2> QED
    BY <2>3, <2>4
<1> QED
  BY <1>3, <1>4, <1>5, <1>6, <1>7

-----------------------------------------------------------------------------
(* An item gets its slot, or is put into the one it has                    *)

\* What the state holds, without the records around it.
LEMMA StateFields ==
  ASSUME IInv
  PROVE  /\ slots \in Seq(Items) /\ Len(slots) \in Nat
         /\ round.output \in Seq(Items) /\ Len(round.output) \in Nat
         /\ round.indexes \in [DOMAIN round.indexes -> Nat]
         /\ DOMAIN round.indexes \subseteq 1..Len(round.output)
         /\ \A k \in DOMAIN round.indexes : round.indexes[k] < Len(slots)
         /\ round.hidden \in SUBSET (1..MaxItems) /\ round.cursor \in 1..(MaxItems + 1)
         /\ round.open \in BOOLEAN /\ round.partial \in BOOLEAN /\ round.over \in BOOLEAN
         /\ round.hideNarrative \in BOOLEAN
         /\ keys \in [DOMAIN keys -> Nat] /\ DOMAIN keys \subseteq Ids
         /\ \A id \in DOMAIN keys : keys[id] < Len(slots)
         /\ sequence \in Nat /\ omissions \in Nat /\ wire \in Wires
         /\ wire.finished \in Seq(Finished) /\ Len(wire.finished) \in Nat
         /\ Owned(slots, round.indexes, round.output)
         /\ Keyed(slots, round.indexes, round.output, keys)
BY WireFields DEF IInv, TypeOK, Rounds, SlotsGood

\* The slots and the map of the round once item k has the slot index, which
\* holds value.
Given(items, map, output, k, index, value) ==
  /\ index \in 0..Len(slots) /\ items \in Seq(Items) /\ Len(slots) <= Len(items)
  /\ index = Len(slots) => Len(items) = Len(slots) + 1
  /\ index # Len(slots) => Len(items) = Len(slots)
  /\ items[index + 1] = value
  /\ \A j \in 1..Len(slots) : j # index + 1 => items[j] = slots[j]
  /\ map \in [DOMAIN map -> Nat] /\ DOMAIN map = DOMAIN round.indexes \cup {k}
  /\ DOMAIN map \subseteq 1..Len(output)
  /\ \A j \in DOMAIN map : map[j] < Len(items)
  /\ map[k] = index /\ \A j \in DOMAIN round.indexes : map[j] = round.indexes[j]
  /\ Owned(items, map, output) /\ Keyed(items, map, output, keys)
  /\ value = output[k] => Keyed(items, map, output, WithEntry(keys, output[k].id, index))

LEMMA SlotGiven ==
  ASSUME IInv, NEW output \in Seq(Items), Len(round.output) <= Len(output),
         \A j \in 1..Len(round.output) : output[j] = round.output[j],
         NEW k \in 1..Len(output), output[k].id = [round |-> sequence, k |-> k],
         output[k].kind \notin InternalKinds,
         NEW value \in {output[k], Blank}, value = output[k] \/ k \notin DOMAIN round.indexes,
         NEW index, index = SlotOf(k),
         NEW items, items = PutAt(slots, index, value),
         NEW map, map = WithEntry(round.indexes, k, index)
  PROVE  Given(items, map, output, k, index, value)
<1>1. /\ Owned(slots, round.indexes, output) /\ Keyed(slots, round.indexes, output, keys)
  BY StateFields DEF Owned, Keyed
<1>2. /\ slots \in Seq(Items) /\ sequence \in Nat /\ Len(slots) \in Nat
      /\ round.indexes \in [DOMAIN round.indexes -> Nat]
      /\ \A j \in DOMAIN round.indexes : round.indexes[j] < Len(slots)
      /\ keys \in [DOMAIN keys -> Nat] /\ DOMAIN keys \subseteq Ids
      /\ \A id \in DOMAIN keys : keys[id] < Len(slots)
  BY StateFields
<1>3. index = SlotIn(slots, round.indexes, k)
  BY DEF SlotOf, SlotIn
<1>4. index \in 0..Len(slots)
  BY <1>2, <1>3 DEF SlotIn
<1>5. value \in Items
  BY ItemTypes
<1>6. /\ items \in Seq(Items)
      /\ Len(items) = (IF index = Len(slots) THEN Len(slots) + 1 ELSE Len(slots))
      /\ items[index + 1] = value
      /\ \A j \in 1..Len(slots) : j # index + 1 => items[j] = slots[j]
  BY <1>2, <1>4, <1>5 DEF PutAt
<1>7. /\ map \in [DOMAIN map -> Nat] /\ DOMAIN map = DOMAIN round.indexes \cup {k}
      /\ map[k] = index /\ \A j \in DOMAIN round.indexes : map[j] = round.indexes[j]
  BY <1>2, <1>3, <1>4 DEF WithEntry, SlotIn
<1>8. Owned(PutAt(slots, index, value), WithEntry(round.indexes, k, index), output)
  BY <1>1, <1>2, <1>3, PutOwned
<1>9. /\ Keyed(PutAt(slots, index, value), WithEntry(round.indexes, k, index), output, keys)
      /\ value = output[k] =>
           Keyed(PutAt(slots, index, value), WithEntry(round.indexes, k, index), output,
                 WithEntry(keys, output[k].id, index))
  BY <1>1, <1>2, <1>3, PutKeyed
<1>10. DOMAIN map \subseteq 1..Len(output) /\ \A j \in DOMAIN map : map[j] < Len(items)
  <2>1. DOMAIN map \subseteq 1..Len(output)
    BY <1>2, <1>7, StateFields
  <2>2. index < Len(items) /\ Len(slots) <= Len(items)
    BY <1>4, <1>6, StateFields
  <2>3. ASSUME NEW j \in DOMAIN map
        PROVE  map[j] < Len(items)
    <3>1. CASE j = k
      BY <1>7, <2>2, <3>1
    <3>2. CASE j # k
      <4>1. j \in DOMAIN round.indexes /\ map[j] = round.indexes[j]
        BY <1>7, <3>2
      <4> QED
        BY <1>6, <2>2, <4>1, StateFields
    <3> QED
      BY <3>1, <3>2
  <2> QED
    BY <2>1, <2>3
<1> QED
  BY <1>2, <1>4, <1>6, <1>7, <1>8, <1>9, <1>10 DEF Given

\* The id of the item is recorded with its slot.
LEMMA KeyGiven ==
  ASSUME IInv, NEW id \in Ids, NEW index \in Nat, NEW n \in Nat, index < n, Len(slots) <= n
  PROVE  /\ WithEntry(keys, id, index) \in [DOMAIN WithEntry(keys, id, index) -> Nat]
         /\ DOMAIN WithEntry(keys, id, index) \subseteq Ids
         /\ \A other \in DOMAIN WithEntry(keys, id, index) :
              WithEntry(keys, id, index)[other] < n
BY StateFields DEF WithEntry

\* What was finished stands in its slot, and still does when the slot of an
\* item of the round is given it.
LEMMA FinishedNow ==
  ASSUME IInv, pc # "end", NEW e \in 1..Len(wire.finished)
  PROVE  /\ wire.finished[e].index \in Nat /\ wire.finished[e].index < Len(slots)
         /\ wire.finished[e].index + 1 \in 1..Len(slots)
         /\ slots[wire.finished[e].index + 1] = wire.finished[e].item
         /\ wire.finished[e].item.kind \in {"message", "work"}
<1>1. wire.finished[e] \in Finished /\ Len(slots) \in Nat
  BY StateFields
<1>2. wire.finished[e].index \in Nat
  BY <1>1 DEF Finished
<1> QED
  BY <1>1, <1>2 DEF IInv, FinishedStand

LEMMA FinishedStill ==
  ASSUME IInv, pc # "end", NEW k \in 1..Len(round.output),
         NEW index, index = SlotOf(k), NEW items, items = PutAt(slots, index, round.output[k])
  PROVE  \A e \in 1..Len(wire.finished) :
           /\ wire.finished[e].index \in Nat /\ wire.finished[e].index < Len(items)
           /\ items[wire.finished[e].index + 1] = wire.finished[e].item
           /\ wire.finished[e].item.kind \in {"message", "work"}
<1> SUFFICES ASSUME NEW e \in 1..Len(wire.finished)
             PROVE  /\ wire.finished[e].index \in Nat /\ wire.finished[e].index < Len(items)
                    /\ items[wire.finished[e].index + 1] = wire.finished[e].item
                    /\ wire.finished[e].item.kind \in {"message", "work"}
  OBVIOUS
<1> DEFINE at == wire.finished[e].index
           item == wire.finished[e].item
<1>1. wire.finished[e] \in Finished
  BY StateFields
<1>2. at \in Nat /\ at < Len(slots) /\ slots[at + 1] = item /\ item.kind \in {"message", "work"}
  BY <1>1 DEF IInv, FinishedStand, Finished
<1> HIDE DEF at, item
<1>3. /\ slots \in Seq(Items) /\ Len(slots) \in Nat /\ round.output[k] \in Items
      /\ \A j \in DOMAIN round.indexes : round.indexes[j] \in Nat /\ round.indexes[j] < Len(slots)
  BY StateFields
<1>4. index \in 0..Len(slots)
  BY <1>3 DEF SlotOf
<1>5. /\ Len(items) = (IF index = Len(slots) THEN Len(slots) + 1 ELSE Len(slots))
      /\ items[index + 1] = round.output[k]
      /\ \A j \in 1..Len(slots) : j # index + 1 => items[j] = slots[j]
  BY <1>3, <1>4 DEF PutAt
<1>6. at = index => item = round.output[k]
  <2> SUFFICES ASSUME at = index PROVE item = round.output[k]
    OBVIOUS
  <2>1. k \in DOMAIN round.indexes /\ round.indexes[k] = index
    BY <1>2, <1>3 DEF SlotOf
  <2>2. slots[index + 1] \in {round.output[k], Blank}
    BY <2>1, StateFields DEF Owned
  <2> QED
    BY <1>2, <2>2 DEF Blank, Item
<1>7. at < Len(items) /\ items[at + 1] = item
  <2>1. at + 1 \in 1..Len(slots) /\ Len(items) >= Len(slots)
    BY <1>2, <1>3, <1>5
  <2>2. at # index => items[at + 1] = slots[at + 1]
    BY <1>2, <1>4, <1>5, <2>1
  <2> QED
    BY <1>2, <1>5, <1>6, <2>1, <2>2
<1> QED
  BY <1>2, <1>7 DEF at, item

-----------------------------------------------------------------------------
(* The next item of a round appears                                        *)

LEMMA OpensKeeps ==
  ASSUME IInv, NEW kind \in Kinds, NEW text \in TextsOf(kind), NEW first \in FirstEvents(kind),
         ItemOpens(kind, text, first)
  PROVE  IInv'
<1> DEFINE k == Len(round.output) + 1
           item == Item([round |-> sequence, k |-> k], kind, text)
           output == Append(round.output, item)
           reserves == kind = "message" /\ ~round.hideNarrative /\ first # "none"
           hides == \/ kind \in InternalKinds /\ first = "added"
                    \/ kind = "message" /\ round.hideNarrative /\ first # "none"
           partial == kind # "work" /\ first # "added"
           value == IF first = "added" THEN item ELSE Blank
           indexes == WithEntry(round.indexes, k, Len(slots))
<1>1. /\ pc = "stream" /\ ~round.over /\ k <= MaxItems
      /\ omissions' = omissions + LeftOpen + (IF partial THEN 1 ELSE 0)
      /\ omissions' <= MaxOmissions
      /\ round' = [round EXCEPT
           !.output = output,
           !.open = TRUE,
           !.partial = partial,
           !.hidden = IF hides THEN @ \cup {k} ELSE @,
           !.indexes = IF reserves THEN indexes ELSE @]
      /\ ~reserves => UNCHANGED <<slots, keys, wire>>
      /\ reserves => slots' = Append(slots, value)
      /\ reserves /\ first # "added" => UNCHANGED <<keys, wire>>
      /\ reserves /\ first = "added" =>
           /\ keys' = WithEntry(keys, item.id, Len(slots))
           /\ wire' = IF emitOutput THEN Announce(wire, item.id, Len(slots)) ELSE wire
      /\ UNCHANGED <<mode, streamed, followUps, pc, sequence, taskProtocolRetries, canceled>>
  BY DEF ItemOpens
<1>2. k \in 1..MaxItems /\ sequence \in Nat /\ k \in Nat /\ [round |-> sequence, k |-> k] \in Ids
  BY <1>1, ProjectedConstants, StateFields DEF Ids
<1>3. /\ item \in Items /\ item.id = [round |-> sequence, k |-> k] /\ item.kind = kind
      /\ item.id \in Ids /\ streamed
  <2>1. item \in Items
    BY <1>2, ItemTypes
  <2> QED
    BY <1>1, <1>2, <2>1 DEF Item, IInv, Control
<1>4. /\ output \in Seq(Items) /\ Len(output) = k /\ output[k] = item
      /\ \A j \in 1..Len(round.output) : output[j] = round.output[j]
      /\ \A j \in 1..k : j # k => j \in 1..Len(round.output)
      /\ k \in 1..Len(output) /\ Len(round.output) < k /\ k \notin DOMAIN round.indexes
      /\ SlotOf(k) = Len(slots)
  <2>1. round.output \in Seq(Items) /\ item \in Items /\ Len(round.output) \in Nat
    BY <1>3, StateFields
  <2>2. DOMAIN round.indexes \subseteq 1..Len(round.output)
    BY StateFields
  <2> HIDE DEF item
  <2> QED
    BY <2>1, <2>2 DEF SlotOf
<1>5. /\ round'.hideNarrative = round.hideNarrative /\ round'.output = output /\ round'.open
      /\ round'.partial = partial /\ round'.over = round.over
      /\ round'.indexes = IF reserves THEN indexes ELSE round.indexes
      /\ round'.cursor = round.cursor
      /\ round'.hidden = IF hides THEN round.hidden \cup {k} ELSE round.hidden
      /\ round' \in [ hideNarrative : BOOLEAN, output : {output}, open : BOOLEAN, partial : BOOLEAN,
                      over : BOOLEAN, indexes : {round'.indexes}, hidden : SUBSET (1..MaxItems),
                      cursor : 1..(MaxItems + 1) ]
  <2> HIDE DEF output, indexes, hides, reserves, k
  <2>1. partial \in BOOLEAN
    OBVIOUS
  <2> HIDE DEF partial
  <2> QED
    BY <1>1, <1>2, <2>1 DEF IInv, TypeOK, Rounds
<1>6. /\ omissions \in Nat /\ omissions' \in 0..MaxOmissions
      /\ omissions' = 0 => omissions = 0 /\ ~partial /\ (round.open => round.partial)
  <2>1. omissions \in Nat /\ LeftOpen \in 0..1 /\ MaxOmissions \in Nat
    BY ProjectedConstants, StateFields DEF LeftOpen
  <2>2. omissions' \in 0..MaxOmissions
    BY <1>1, <2>1
  <2>3. omissions' = 0 => omissions = 0 /\ LeftOpen = 0 /\ ~partial
    BY <1>1, <2>1
  <2> QED
    BY <2>1, <2>2, <2>3 DEF LeftOpen
<1> HIDE DEF k, item, output, indexes
<1>7. ASSUME reserves
      PROVE  /\ slots' \in Seq(Items) /\ Len(slots') = Len(slots) + 1
             /\ slots'[Len(slots) + 1] = value
             /\ \A j \in 1..Len(slots) : slots'[j] = slots[j]
             /\ indexes \in [DOMAIN indexes -> Nat] /\ DOMAIN indexes = DOMAIN round.indexes \cup {k}
             /\ \A j \in DOMAIN indexes : indexes[j] < Len(slots')
             /\ DOMAIN indexes \subseteq 1..k
             /\ indexes[k] = Len(slots)
             /\ \A j \in DOMAIN round.indexes : indexes[j] = round.indexes[j]
             /\ Owned(slots', indexes, output) /\ Keyed(slots', indexes, output, keys)
             /\ value = item => Keyed(slots', indexes, output, WithEntry(keys, item.id, Len(slots)))
             /\ item.kind = "message"
  <2>1. value \in {output[k], Blank} /\ output[k].kind \notin InternalKinds
        /\ item.kind = "message"
    BY <1>3, <1>4, <1>7
  <2> HIDE DEF value
  <2>2. slots' = PutAt(slots, Len(slots), value) /\ indexes = WithEntry(round.indexes, k, Len(slots))
    BY <1>1, <1>7 DEF PutAt, indexes
  <2>3. Len(round.output) <= Len(output) /\ Len(slots) \in Nat
    BY <1>4, StateFields
  <2>4. Given(slots', indexes, output, k, Len(slots), value)
    BY <1>3, <1>4, <2>1, <2>2, <2>3, SlotGiven
  <2>5. \A j \in 1..Len(slots) : j # Len(slots) + 1
    BY <2>3
  <2> QED
    BY <1>4, <2>1, <2>3, <2>4, <2>5 DEF Given
<1>8. ASSUME reserves, first = "added"
      PROVE  /\ keys' \in [DOMAIN keys' -> Nat] /\ DOMAIN keys' \subseteq Ids
             /\ \A id \in DOMAIN keys' : keys'[id] < Len(slots')
             /\ Keyed(slots', indexes, output, keys')
             /\ wire' \in Wires /\ wire'.finished = wire.finished /\ wire'.output = wire.output
             /\ wire'.terminals = wire.terminals
             /\ mode = "structured" => wire' = wire
  <2>1. keys' = WithEntry(keys, item.id, Len(slots)) /\ value = item
    BY <1>1, <1>8
  <2>2. Len(slots) \in Nat /\ Len(slots') \in Nat /\ Len(slots) < Len(slots')
    BY <1>7, <1>8, StateFields
  <2>3. /\ keys' \in [DOMAIN keys' -> Nat] /\ DOMAIN keys' \subseteq Ids
        /\ \A id \in DOMAIN keys' : keys'[id] < Len(slots')
    BY <1>3, <2>1, <2>2, KeyGiven
  <2>4. Keyed(slots', indexes, output, keys')
    BY <1>7, <1>8, <2>1
  <2>5. /\ wire' \in Wires /\ wire'.finished = wire.finished /\ wire'.output = wire.output
        /\ wire'.terminals = wire.terminals
        /\ mode = "structured" => wire' = wire
    BY <1>1, <1>3, <1>8, <2>2, StateFields, AnnounceEffect DEF emitOutput
  <2> QED
    BY <2>3, <2>4, <2>5
<1>9. /\ slots' \in Seq(Items) /\ Len(slots') \in Nat /\ Len(slots) <= Len(slots')
      /\ \A j \in 1..Len(slots) : slots'[j] = slots[j]
      /\ Owned(slots', round'.indexes, output) /\ Keyed(slots', round'.indexes, output, keys')
      /\ round'.indexes \in [DOMAIN round'.indexes -> Nat]
      /\ DOMAIN round'.indexes \subseteq 1..k
      /\ \A j \in DOMAIN round'.indexes : round'.indexes[j] < Len(slots')
      /\ keys' \in [DOMAIN keys' -> Nat] /\ DOMAIN keys' \subseteq Ids
      /\ \A id \in DOMAIN keys' : keys'[id] < Len(slots')
      /\ wire' \in Wires /\ wire'.finished = wire.finished /\ wire'.output = wire.output
      /\ wire'.terminals = wire.terminals
      /\ mode = "structured" => wire' = wire
  <2>1. CASE reserves
    <3>1. round'.indexes = indexes
      BY <1>5, <2>1
    <3>2. CASE first = "added"
      BY <1>7, <1>8, <2>1, <3>1, <3>2, StateFields
    <3>3. CASE first # "added"
      <4>1. UNCHANGED <<keys, wire>>
        BY <1>1, <2>1, <3>3
      <4>2. \A id \in DOMAIN keys : keys[id] < Len(slots) + 1
        BY StateFields
      <4> QED
        BY <1>7, <2>1, <3>1, <4>1, <4>2, StateFields
    <3> QED
      BY <3>2, <3>3
  <2>2. CASE ~reserves
    <3>1. round'.indexes = round.indexes /\ UNCHANGED <<slots, keys, wire>>
      BY <1>1, <1>5, <2>2
    <3>2. Owned(slots, round.indexes, output) /\ Keyed(slots, round.indexes, output, keys)
      BY <1>4, StateFields DEF Owned, Keyed
    <3>3. DOMAIN round.indexes \subseteq 1..k
      BY <1>2, <1>4, StateFields
    <3> QED
      BY <3>1, <3>2, <3>3, StateFields
  <2> QED
    BY <2>1, <2>2
<1>10. TypeOK'
  <2>1. round' \in Rounds'
    BY <1>4, <1>5 DEF Rounds
  <2>2. /\ mode \in Modes /\ streamed \in BOOLEAN /\ followUps \in 0..MaxInternalToolRounds
        /\ pc \in {"open", "stream", "absorb", "decide", "repair", "end"}
        /\ sequence \in Nat /\ taskProtocolRetries \in Nat /\ canceled \in BOOLEAN
    BY DEF IInv, TypeOK
  <2> QED
    BY <1>1, <1>2, <1>3, <1>6, <1>5, <1>4, <1>9, <2>1, <2>2 DEF TypeOK, Modes, Wires
<1>11. Control' /\ Counted'
  BY <1>1, <1>2, <1>3, <1>6, <1>5, <1>9 DEF IInv, Control, Counted
<1>12. OutputGood'
  BY <1>1, <1>2, <1>3, <1>6, <1>5, <1>4 DEF IInv, OutputGood, Kinds
<1>13. SlotsGood'
  BY <1>1, <1>2, <1>3, <1>6, <1>5, <1>9 DEF SlotsGood, Keyed
<1>14. WholeQuiet' /\ StructuredQuiet' /\ FinishedStand'
  <2>1. WholeQuiet' /\ StructuredQuiet'
    BY <1>1, <1>2, <1>3, <1>6, <1>9 DEF IInv, WholeQuiet, StructuredQuiet
  <2>2. ASSUME NEW e \in 1..Len(wire.finished)
        PROVE  /\ wire.finished[e].index < Len(slots')
               /\ slots'[wire.finished[e].index + 1] = wire.finished[e].item
               /\ wire.finished[e].item.kind \in {"message", "work"}
    <3>1. Len(slots) \in Nat /\ pc # "end"
      BY <1>1, StateFields
    <3> QED
      BY <1>9, <3>1, FinishedNow
  <2>3. FinishedStand'
    BY <1>9, <2>2 DEF FinishedStand
  <2> QED
    BY <2>1, <2>3
<1>15. Tracked'
  <2> SUFFICES ASSUME omissions' = 0 PROVE Tracked'
    BY DEF Tracked
  <2>1. /\ omissions = 0 /\ ~partial /\ ~round.open /\ ~round.partial
    BY <1>1, <1>2, <1>3, <1>6 DEF IInv, Tracked
  <2>2. /\ \A j \in DOMAIN round.indexes :
             /\ j \notin round.hidden /\ round.output[j].kind \notin InternalKinds
             /\ slots[round.indexes[j] + 1] = round.output[j]
             /\ round.hideNarrative => round.output[j].kind # "message"
        /\ \A j \in 1..Len(round.output) : j \in round.hidden \cup DOMAIN round.indexes
        /\ round.hideNarrative => \A j \in 1..Len(round.output) :
             round.output[j].kind = "message" => j \in round.hidden
    BY <1>1, <1>2, <1>3, <1>6, <2>1 DEF IInv, Tracked
  <2>3. ASSUME NEW j \in DOMAIN round'.indexes
        PROVE  /\ j \notin round'.hidden /\ output[j].kind \notin InternalKinds
               /\ slots'[round'.indexes[j] + 1] = output[j]
               /\ round.hideNarrative => output[j].kind # "message"
    <3>1. CASE j = k
      <4>1. reserves
        BY <1>5, <1>4, <3>1, <2>3
      <4>2. k \notin round.hidden
        BY <1>4 DEF IInv, OutputGood
      <4>3. value = item /\ ~hides /\ kind = "message" /\ ~round.hideNarrative
        BY <2>1, <4>1 DEF value
      <4>4. round'.hidden = round.hidden /\ round'.indexes = indexes
        BY <1>5, <4>1, <4>3
      <4>5. slots'[indexes[k] + 1] = item
        BY <1>7, <4>1, <4>3
      <4> QED
        BY <1>3, <1>4, <3>1, <4>2, <4>3, <4>4, <4>5
    <3>2. CASE j # k
      <4>1. j \in DOMAIN round.indexes /\ round'.indexes[j] = round.indexes[j]
        BY <1>5, <1>7, <2>3, <3>2
      <4>2. j \in 1..Len(round.output) /\ output[j] = round.output[j] /\ j \notin round'.hidden
        <5>1. j \in 1..Len(round.output) /\ j \notin round.hidden
          BY <2>2, <4>1, StateFields
        <5>2. output[j] = round.output[j]
          BY <1>4, <3>2, <5>1
        <5>3. j \notin round'.hidden
          BY <1>5, <3>2, <5>1
        <5> QED
          BY <5>1, <5>2, <5>3
      <4>3. slots'[round.indexes[j] + 1] = slots[round.indexes[j] + 1]
        <5>1. round.indexes[j] \in Nat /\ round.indexes[j] < Len(slots) /\ Len(slots) \in Nat
          BY <4>1, StateFields
        <5>2. round.indexes[j] + 1 \in 1..Len(slots)
          BY <5>1
        <5> QED
          BY <1>9, <5>2
      <4>4. /\ round.output[j].kind \notin InternalKinds
            /\ slots[round.indexes[j] + 1] = round.output[j]
            /\ round.hideNarrative => round.output[j].kind # "message"
        BY <2>2, <4>1
      <4> QED
        BY <4>1, <4>2, <4>3, <4>4
    <3> QED
      BY <3>1, <3>2
  <2>4. ASSUME NEW j \in 1..k
        PROVE  /\ j = k \/ j \in round'.hidden \cup DOMAIN round'.indexes
               /\ round.hideNarrative /\ output[j].kind = "message" => j \in round'.hidden
    <3>1. CASE j = k
      BY <1>1, <1>2, <1>3, <1>6, <1>5, <1>4, <2>1, <3>1
    <3>2. CASE j # k
      BY <1>5, <1>4, <1>7, <2>2, <3>2
    <3> QED
      BY <3>1, <3>2
  <2>5. ~round'.partial
    BY <1>5, <2>1
  <2> QED
    BY <1>1, <1>2, <1>3, <1>6, <1>5, <1>4, <2>3, <2>4, <2>5 DEF Tracked
<1>16. InOrder'
  <2> SUFFICES ASSUME omissions' = 0, emitOutput PROVE InOrder'
    BY <1>1, <1>2, <1>3, <1>6 DEF InOrder, emitOutput
  <2>1. /\ omissions = 0 /\ ~partial /\ ~round.open
    BY <1>1, <1>2, <1>3, <1>6 DEF IInv, Tracked
  <2>2. /\ Len(slots) = Len(wire.finished)
        /\ \A e \in 1..Len(wire.finished) :
             wire.finished[e] = [item |-> slots[e], index |-> e - 1]
    BY <1>1, <1>2, <1>3, <1>6, <2>1, StateFields DEF IInv, InOrder, Pending
  <2>3. Pending' <=> reserves
    BY <1>5, <1>4, <1>7 DEF Pending
  <2>4. reserves => Len(slots') = Len(slots) + 1 /\ round'.indexes[k] = Len(slots)
    BY <1>5, <1>7
  <2>5. ~reserves => slots' = slots
    BY <1>1, <1>2, <1>3, <1>6
  <2>6. /\ ~reserves => Len(slots') = Len(wire.finished)
        /\ reserves => Len(slots') = Len(wire.finished) + 1 /\ round'.indexes[k] = Len(wire.finished)
    <3>1. Len(slots) \in Nat /\ Len(wire.finished) \in Nat /\ Len(slots) = Len(wire.finished)
      BY <2>2, StateFields
    <3> HIDE DEF reserves
    <3> QED
      BY <2>4, <2>5, <3>1
  <2>7. \A e \in 1..Len(wire.finished) :
          wire.finished[e] = [item |-> slots'[e], index |-> e - 1]
    BY <1>9, <2>2
  <2>8. wire'.finished = wire.finished /\ Len(round'.output) = k
    BY <1>4, <1>5, <1>9
  <2> QED
    BY <2>3, <2>6, <2>7, <2>8 DEF InOrder
<1> QED
  BY <1>10, <1>11, <1>12, <1>13, <1>14, <1>15, <1>16 DEF IInv

-----------------------------------------------------------------------------
(* The last event of an item                                               *)

LEMMA DoneKeeps ==
  ASSUME IInv, DoneItem
  PROVE  IInv'
<1> DEFINE k == Len(round.output)
           item == round.output[k]
           index == SlotOf(k)
           hide == k \in round.hidden \/ item.kind \in InternalKinds
           map == WithEntry(round.indexes, k, index)
<1>1. /\ pc = "stream" /\ ~round.over /\ round.open
      /\ round' = [round EXCEPT
           !.open = FALSE, !.partial = FALSE,
           !.hidden = IF hide THEN @ \cup {k} ELSE @,
           !.indexes = IF hide THEN @ ELSE map]
      /\ hide => UNCHANGED <<slots, keys, wire>>
      /\ ~hide => slots' = PutAt(slots, index, item)
      /\ ~hide => keys' = IF item.kind = "message" THEN WithEntry(keys, item.id, index) ELSE keys
      /\ ~hide /\ ~emitOutput => wire' = wire
      /\ ~hide /\ emitOutput /\ item.kind = "work" => wire' = EmitItem(wire, item, index)
      /\ ~hide /\ emitOutput /\ item.kind # "work" => wire' = Finish(wire, item, index)
      /\ UNCHANGED <<mode, streamed, followUps, pc, sequence, taskProtocolRetries, omissions, canceled>>
  BY DEF DoneItem, Store, Put, PutAt
<1>2. /\ k \in 1..Len(round.output) /\ k \in 1..MaxItems /\ item \in Items
      /\ item.id = [round |-> sequence, k |-> k] /\ item.kind \in Kinds /\ item.id \in Ids
      /\ streamed
  <2>1. k \in Nat /\ k > 0 /\ k <= MaxItems /\ MaxItems \in Nat /\ round.output \in Seq(Items)
    BY <1>1, StateFields, ProjectedConstants DEF IInv, OutputGood
  <2>2. item \in Items
    BY <2>1
  <2> QED
    BY <1>1, <2>1, <2>2 DEF IInv, OutputGood, Control, Items
<1>3. /\ round'.hideNarrative = round.hideNarrative /\ round'.output = round.output
      /\ ~round'.open /\ ~round'.partial /\ round'.over = round.over
      /\ round'.indexes = IF hide THEN round.indexes ELSE map
      /\ round'.cursor = round.cursor
      /\ round'.hidden = IF hide THEN round.hidden \cup {k} ELSE round.hidden
      /\ round' \in [ hideNarrative : BOOLEAN, output : {round.output}, open : BOOLEAN,
                      partial : BOOLEAN, over : BOOLEAN, indexes : {round'.indexes},
                      hidden : SUBSET (1..MaxItems), cursor : 1..(MaxItems + 1) ]
  <2> HIDE DEF hide, map, k
  <2> QED
    BY <1>1, <1>2 DEF IInv, TypeOK, Rounds
<1> HIDE DEF map, index, item, k
<1>4. ASSUME ~hide
      PROVE  /\ Given(slots', map, round.output, k, index, item)
             /\ index \in 0..Len(slots) /\ index \in Nat
             /\ Len(slots) <= Len(slots') /\ index < Len(slots') /\ Len(slots') \in Nat
  <2>1. item.kind \notin InternalKinds /\ item \in {round.output[k], Blank}
        /\ Len(round.output) <= Len(round.output) /\ round.output \in Seq(Items)
        /\ item = round.output[k]
    BY <1>4, StateFields DEF item
  <2>2. index = SlotOf(k) /\ slots' = PutAt(slots, index, item)
        /\ map = WithEntry(round.indexes, k, index)
    BY <1>1, <1>4 DEF index, map
  <2>3. Given(slots', map, round.output, k, index, item)
    BY <1>2, <2>1, <2>2, SlotGiven
  <2>4. Len(slots) \in Nat
    BY StateFields
  <2> QED
    BY <2>3, <2>4 DEF Given
<1>5. /\ slots' \in Seq(Items) /\ Len(slots') \in Nat /\ Len(slots) <= Len(slots')
      /\ Owned(slots', round'.indexes, round.output)
      /\ Keyed(slots', round'.indexes, round.output, keys')
      /\ round'.indexes \in [DOMAIN round'.indexes -> Nat]
      /\ DOMAIN round'.indexes \subseteq 1..Len(round.output)
      /\ \A j \in DOMAIN round'.indexes : round'.indexes[j] < Len(slots')
      /\ keys' \in [DOMAIN keys' -> Nat] /\ DOMAIN keys' \subseteq Ids
      /\ \A id \in DOMAIN keys' : keys'[id] < Len(slots')
  <2>1. CASE hide
    BY <1>1, <1>3, <2>1, StateFields
  <2>2. CASE ~hide
    <3>1. round'.indexes = map
      BY <1>3, <2>2
    <3>2. CASE item.kind = "message"
      <4>1. keys' = WithEntry(keys, item.id, index)
        BY <1>1, <2>2, <3>2
      <4>2. /\ keys' \in [DOMAIN keys' -> Nat] /\ DOMAIN keys' \subseteq Ids
            /\ \A id \in DOMAIN keys' : keys'[id] < Len(slots')
        BY <1>2, <1>4, <2>2, <4>1, KeyGiven
      <4> QED
        BY <1>4, <2>2, <3>1, <4>1, <4>2 DEF Given, item
    <3>3. CASE item.kind # "message"
      <4>1. keys' = keys
        BY <1>1, <2>2, <3>3
      <4>2. \A id \in DOMAIN keys : keys[id] \in Nat /\ keys[id] < Len(slots)
        BY StateFields
      <4>3. \A id \in DOMAIN keys' : keys'[id] < Len(slots')
        BY <1>4, <2>2, <4>1, <4>2, StateFields
      <4> QED
        BY <1>4, <2>2, <3>1, <4>1, <4>3, StateFields DEF Given
    <3> QED
      BY <3>2, <3>3
  <2> QED
    BY <2>1, <2>2
\* What is written, and where.
<1>6. /\ wire' \in Wires /\ wire'.output = wire.output /\ wire'.terminals = wire.terminals
      /\ hide \/ ~emitOutput => wire' = wire
      /\ ~hide /\ emitOutput =>
           wire'.finished = Append(wire.finished, [item |-> item, index |-> index])
  <2>1. wire \in Wires
    BY StateFields
  <2>2. CASE hide \/ ~emitOutput
    BY <1>1, <2>1, <2>2
  <2>3. CASE ~hide /\ emitOutput /\ item.kind = "work"
    <3>1. wire' = EmitItem(wire, item, index)
      BY <1>1, <2>3
    <3> QED
      BY <1>2, <1>4, <2>1, <2>3, <3>1, EmitItemEffect
  <2>4. CASE ~hide /\ emitOutput /\ item.kind # "work"
    <3>1. wire' = Finish(wire, item, index)
      BY <1>1, <2>4
    <3> QED
      BY <1>2, <1>4, <2>1, <2>4, <3>1, FinishEffect
  <2> QED
    BY <2>2, <2>3, <2>4
<1>7. TypeOK'
  <2>1. round' \in Rounds'
    BY <1>3, StateFields DEF Rounds
  <2>2. /\ mode \in Modes /\ streamed \in BOOLEAN /\ followUps \in 0..MaxInternalToolRounds
        /\ pc \in {"open", "stream", "absorb", "decide", "repair", "end"}
        /\ sequence \in Nat /\ taskProtocolRetries \in Nat /\ canceled \in BOOLEAN
        /\ omissions \in 0..MaxOmissions
    BY DEF IInv, TypeOK
  <2> QED
    BY <1>1, <1>3, <1>5, <1>6, <2>1, <2>2 DEF TypeOK, Modes, Wires
<1>8. Control' /\ Counted'
  BY <1>1, <1>3, <1>6 DEF IInv, Control, Counted
<1>9. OutputGood'
  BY <1>1, <1>2, <1>3 DEF IInv, OutputGood, Kinds
<1>10. SlotsGood'
  BY <1>1, <1>3, <1>5 DEF SlotsGood, Keyed
<1>11. WholeQuiet' /\ StructuredQuiet'
  BY <1>1, <1>2, <1>6 DEF IInv, WholeQuiet, StructuredQuiet, emitOutput
\* The entries of finished, the new one among them, stand in their slots.
<1>12. item.kind \notin InternalKinds => item.kind \in {"message", "work"}
  BY <1>2 DEF Kinds
<1>13. FinishedStand'
  <2>1. CASE hide
    BY <1>1, <2>1 DEF IInv, FinishedStand
  <2>2. CASE ~hide
    <3>1. ASSUME NEW e \in 1..Len(wire.finished)
          PROVE  /\ wire.finished[e].index < Len(slots')
                 /\ slots'[wire.finished[e].index + 1] = wire.finished[e].item
                 /\ wire.finished[e].item.kind \in {"message", "work"}
      <4>1. slots' = PutAt(slots, index, round.output[k]) /\ index = SlotOf(k)
        BY <1>1, <2>2 DEF item, index
      <4> QED
        BY <1>1, <1>2, <4>1, FinishedStill
    <3>2. index < Len(slots') /\ slots'[index + 1] = item
      BY <1>4, <2>2 DEF Given
    <3>3. CASE ~emitOutput
      BY <1>6, <3>1, <3>3 DEF FinishedStand
    <3>4. CASE emitOutput
      <4>1. wire.finished \in Seq(Finished) /\ Len(wire.finished) \in Nat
        BY StateFields
      <4> DEFINE event == [item |-> item, index |-> index]
      <4>2. wire'.finished = Append(wire.finished, event)
        BY <1>6, <2>2, <3>4
      <4>3. /\ event.index < Len(slots') /\ slots'[event.index + 1] = event.item
            /\ event.item.kind \in {"message", "work"}
        BY <1>12, <2>2, <3>2
      <4> HIDE DEF event
      <4> QED
        BY <3>1, <4>1, <4>2, <4>3 DEF FinishedStand
    <3> QED
      BY <3>3, <3>4
  <2> QED
    BY <2>1, <2>2
<1>14. Tracked'
  <2> SUFFICES ASSUME omissions = 0 PROVE Tracked'
    BY <1>1 DEF Tracked
  <2>1. /\ \A j \in DOMAIN round.indexes :
             /\ j \notin round.hidden /\ round.output[j].kind \notin InternalKinds
             /\ slots[round.indexes[j] + 1] = round.output[j]
             /\ round.hideNarrative => round.output[j].kind # "message"
        /\ \A j \in 1..Len(round.output) :
             j = k \/ j \in round.hidden \cup DOMAIN round.indexes
        /\ round.hideNarrative => \A j \in 1..Len(round.output) :
             round.output[j].kind = "message" => j \in round.hidden
    BY <1>1, <1>2 DEF IInv, Tracked, k
  <2>2. CASE hide
    <3>1. k \notin DOMAIN round.indexes
      BY <2>1, <2>2 DEF item
    <3> QED
      BY <1>1, <1>3, <2>1, <2>2, <3>1 DEF Tracked
  <2>3. CASE ~hide
    <3>1. /\ DOMAIN map = DOMAIN round.indexes \cup {k} /\ map[k] = index
          /\ \A j \in DOMAIN round.indexes : map[j] = round.indexes[j]
          /\ slots'[index + 1] = item
          /\ \A j \in 1..Len(slots) : j # index + 1 => slots'[j] = slots[j]
      BY <1>4, <2>3 DEF Given
    <3>2. ASSUME NEW j \in DOMAIN map
          PROVE  /\ j \notin round.hidden /\ round.output[j].kind \notin InternalKinds
                 /\ slots'[map[j] + 1] = round.output[j]
                 /\ round.hideNarrative => round.output[j].kind # "message"
      <4>1. CASE j = k
        BY <1>2, <2>1, <2>3, <3>1, <4>1 DEF item
      <4>2. CASE j # k
        <5>1. j \in DOMAIN round.indexes /\ map[j] = round.indexes[j]
          BY <3>1, <4>2
        <5>2. slots'[map[j] + 1] = slots[map[j] + 1]
          <6>1. map[j] + 1 \in 1..Len(slots)
            BY <5>1, StateFields
          <6>2. CASE map[j] = index
            BY <1>4, <2>3, <3>1, <3>2, <4>2, <6>2 DEF Given, Owned
          <6>3. CASE map[j] # index
            BY <1>4, <2>3, <3>1, <5>1, <6>1, <6>3, StateFields
          <6> QED
            BY <6>2, <6>3
        <5> QED
          BY <2>1, <5>1, <5>2
      <4> QED
        BY <4>1, <4>2
    <3>3. round'.indexes = map /\ round'.hidden = round.hidden
      BY <1>3, <2>3
    <3> QED
      BY <1>1, <1>3, <2>1, <3>1, <3>2, <3>3 DEF Tracked
  <2> QED
    BY <2>2, <2>3
<1>15. InOrder'
  <2> SUFFICES ASSUME omissions = 0, emitOutput PROVE InOrder'
    BY <1>1 DEF InOrder, emitOutput
  <2>1. /\ ~Pending => Len(slots) = Len(wire.finished)
        /\ Pending => Len(slots) = Len(wire.finished) + 1 /\ round.indexes[k] = Len(wire.finished)
        /\ \A e \in 1..Len(wire.finished) :
             wire.finished[e] = [item |-> slots[e], index |-> e - 1]
        /\ Len(wire.finished) \in Nat /\ Len(slots) \in Nat
        /\ wire.finished \in Seq(Finished)
    BY <1>1, <1>2, StateFields DEF IInv, InOrder, k
  <2>2. Pending <=> k \in DOMAIN round.indexes
    BY <1>1 DEF Pending, k
  <2>3. ~Pending'
    BY <1>3 DEF Pending
  <2>4. CASE hide
    <3>1. k \notin DOMAIN round.indexes
      BY <1>1, <1>2, <2>4 DEF IInv, Tracked, item
    <3> QED
      BY <1>6, <1>1, <2>1, <2>2, <2>3, <2>4, <3>1 DEF InOrder
  <2>5. CASE ~hide
    <3>1. index = Len(wire.finished)
      BY <2>1, <2>2 DEF index, SlotOf
    <3>2. /\ index = Len(slots) => Len(slots') = Len(slots) + 1
          /\ index # Len(slots) => Len(slots') = Len(slots)
          /\ slots'[index + 1] = item
          /\ \A j \in 1..Len(slots) : j # index + 1 => slots'[j] = slots[j]
      BY <1>4, <2>5 DEF Given
    <3>3. Len(slots') = Len(wire.finished) + 1
      BY <2>1, <2>2, <3>1, <3>2
    <3>4. \A e \in 1..Len(wire.finished) : slots'[e] = slots[e]
      <4>1. Len(wire.finished) <= Len(slots)
        BY <2>1
      <4>2. ASSUME NEW e \in 1..Len(wire.finished) PROVE e \in 1..Len(slots) /\ e # index + 1
        BY <2>1, <3>1, <4>1
      <4> QED
        BY <3>2, <4>2
    <3> DEFINE event == [item |-> item, index |-> index]
    <3>5. wire'.finished = Append(wire.finished, event)
      BY <1>6, <2>5
    <3>6. event = [item |-> slots'[Len(wire.finished) + 1], index |-> Len(wire.finished)]
      BY <3>1, <3>2
    <3> HIDE DEF event
    <3>7. Len(wire'.finished) = Len(wire.finished) + 1
      BY <2>1, <3>5
    <3>8. \A e \in 1..Len(wire'.finished) :
            wire'.finished[e] = [item |-> slots'[e], index |-> e - 1]
      <4> SUFFICES ASSUME NEW e \in 1..(Len(wire.finished) + 1)
                   PROVE  wire'.finished[e] = [item |-> slots'[e], index |-> e - 1]
        BY <3>7
      <4>1. CASE e = Len(wire.finished) + 1
        BY <2>1, <3>5, <3>6, <4>1
      <4>2. CASE e # Len(wire.finished) + 1
        <5>1. e \in 1..Len(wire.finished)
          BY <2>1, <4>2
        <5> QED
          BY <2>1, <3>4, <3>5, <5>1
      <4> QED
        BY <4>1, <4>2
    <3> QED
      BY <2>3, <3>3, <3>7, <3>8 DEF InOrder
  <2> QED
    BY <2>4, <2>5
<1> QED
  BY <1>7, <1>8, <1>9, <1>10, <1>11, <1>13, <1>14, <1>15 DEF IInv

-----------------------------------------------------------------------------
(* The items that response.completed lists                                 *)

LEMMA AbsorbKeeps ==
  ASSUME IInv, AbsorbItem
  PROVE  IInv'
<1> DEFINE k == round.cursor
           item == round.output[k]
           skip == \/ k \in round.hidden \/ item.kind \in InternalKinds
                   \/ round.hideNarrative /\ item.kind = "message"
           known == item.id \in DOMAIN keys \/ k \in DOMAIN round.indexes
           index == SlotOf(k)
           map == WithEntry(round.indexes, k, index)
           last == k = Len(round.output)
<1>1. /\ pc = "absorb" /\ streamed /\ ~round.over
      /\ k \in 1..Len(round.output) /\ k \in 1..MaxItems /\ item \in Items /\ item.id \in Ids
      /\ item.id = [round |-> sequence, k |-> k] /\ item.kind \in Kinds
  <2>1. pc = "absorb" /\ streamed /\ ~round.over /\ k <= Len(round.output)
    BY DEF AbsorbItem, IInv, Control
  <2>2. /\ k \in 1..(MaxItems + 1) /\ Len(round.output) \in Nat /\ Len(round.output) <= MaxItems
        /\ round.output \in Seq(Items) /\ MaxItems \in Nat
    BY StateFields, ProjectedConstants DEF IInv, OutputGood
  <2>3. k \in 1..Len(round.output) /\ k \in 1..MaxItems
    BY <2>1, <2>2
  <2>4. item \in Items
    BY <2>2, <2>3
  <2> QED
    BY <2>1, <2>3, <2>4 DEF IInv, OutputGood, Items
\* An item with a key has the slot of its key.
<1>2. /\ item.id \in DOMAIN keys => k \in DOMAIN round.indexes /\ keys[item.id] = index
                                    /\ slots[index + 1] = item
      /\ known <=> k \in DOMAIN round.indexes
  <2>1. item.id.round = sequence /\ item.id.k = k /\ sequence \in Nat
    BY <1>1, StateFields
  <2>2. item.id \in DOMAIN keys =>
          /\ k \in DOMAIN round.indexes /\ round.indexes[k] = keys[item.id]
          /\ slots[keys[item.id] + 1] = item
    <3> SUFFICES ASSUME item.id \in DOMAIN keys
                 PROVE  /\ k \in DOMAIN round.indexes /\ round.indexes[k] = keys[item.id]
                        /\ slots[keys[item.id] + 1] = item
      OBVIOUS
    <3>1. ~(item.id.round < sequence)
      BY <2>1
    <3> QED
      BY <2>1, <3>1, StateFields DEF Keyed
  <2> QED
    BY <2>2 DEF SlotOf
<1>3. /\ pc' = IF last THEN "decide" ELSE "absorb"
      /\ round' = [round EXCEPT
           !.cursor = k + 1, !.indexes = IF skip THEN @ ELSE map]
      /\ skip \/ (known /\ item.kind = "work") => UNCHANGED <<slots, keys, wire>>
      /\ ~skip /\ known /\ item.kind # "work" =>
           slots' = PutAt(slots, index, item) /\ UNCHANGED <<keys, wire>>
      /\ ~skip /\ ~known =>
           /\ slots' = PutAt(slots, index, item)
           /\ keys' = IF item.kind = "message" THEN WithEntry(keys, item.id, index) ELSE keys
           /\ wire' = IF emitOutput THEN EmitItem(wire, item, index) ELSE wire
      /\ UNCHANGED <<mode, streamed, followUps, sequence, taskProtocolRetries, omissions, canceled>>
  <2> DEFINE at == IF item.id \in DOMAIN keys THEN keys[item.id] ELSE SlotOf(k)
  <2>1. at = index
    BY <1>2
  <2> HIDE DEF known, skip, last
  <2>2. /\ pc' = IF last THEN "decide" ELSE "absorb"
        /\ round' = [round EXCEPT
             !.cursor = @ + 1, !.indexes = IF skip THEN @ ELSE WithEntry(@, k, at)]
        /\ IF skip \/ (known /\ item.kind = "work") THEN UNCHANGED <<slots, keys, wire>>
           ELSE IF known THEN slots' = Put(item, at) /\ UNCHANGED <<keys, wire>>
           ELSE /\ Store(item, k)
                /\ wire' = IF emitOutput THEN EmitItem(wire, item, at) ELSE wire
        /\ UNCHANGED <<mode, streamed, followUps, sequence, taskProtocolRetries, omissions, canceled>>
    BY DEF AbsorbItem, known, skip, last
  <2> HIDE DEF at, index
  <2>3. Put(item, at) = PutAt(slots, index, item) /\ Put(item, SlotOf(k)) = PutAt(slots, index, item)
    BY <2>1 DEF Put, PutAt, index
  <2> QED
    BY <2>1, <2>2, <2>3 DEF Store, index
<1>4. /\ round'.hideNarrative = round.hideNarrative /\ round'.output = round.output
      /\ round'.open = round.open /\ round'.partial = round.partial /\ round'.over = round.over
      /\ round'.indexes = IF skip THEN round.indexes ELSE map
      /\ round'.cursor = k + 1 /\ round'.hidden = round.hidden
      /\ round' \in [ hideNarrative : BOOLEAN, output : {round.output}, open : BOOLEAN,
                      partial : BOOLEAN, over : BOOLEAN, indexes : {round'.indexes},
                      hidden : SUBSET (1..MaxItems), cursor : 1..(MaxItems + 1) ]
  <2>1. k + 1 \in 1..(MaxItems + 1)
    BY <1>1, ProjectedConstants
  <2> HIDE DEF skip, map, k
  <2> QED
    BY <1>3, <2>1 DEF IInv, TypeOK, Rounds
<1> HIDE DEF map, index, item, k
<1>5. ASSUME ~skip
      PROVE  /\ Given(PutAt(slots, index, item), map, round.output, k, index, item)
             /\ index \in 0..Len(slots) /\ index \in Nat
  <2>1. item.kind \notin InternalKinds /\ item \in {round.output[k], Blank}
        /\ Len(round.output) <= Len(round.output) /\ round.output \in Seq(Items)
        /\ item = round.output[k]
    BY <1>5, StateFields DEF item
  <2>2. index = SlotOf(k) /\ map = WithEntry(round.indexes, k, index)
    BY DEF index, map
  <2>3. Given(PutAt(slots, index, item), map, round.output, k, index, item)
    BY <1>1, <2>1, <2>2, SlotGiven
  <2>4. Len(slots) \in Nat
    BY StateFields
  <2> QED
    BY <2>3, <2>4 DEF Given
\* The item is skipped or a call with a slot, a message with a slot, or new.
<1> DEFINE Passed == skip \/ (known /\ item.kind = "work")
           Again == ~skip /\ known /\ item.kind # "work"
           New == ~skip /\ ~known
<1>6. Passed \/ Again \/ New
  OBVIOUS
<1>7. /\ k \in DOMAIN round.indexes => map = round.indexes
      /\ Passed \/ Again => round'.indexes = round.indexes /\ UNCHANGED <<keys, wire>>
      /\ Passed => UNCHANGED slots
      /\ Again \/ New => slots' = PutAt(slots, index, item)
      /\ New => /\ keys' = IF item.kind = "message" THEN WithEntry(keys, item.id, index) ELSE keys
                /\ wire' = IF emitOutput THEN EmitItem(wire, item, index) ELSE wire
                /\ round'.indexes = map /\ index = Len(slots)
  <2>1. k \in DOMAIN round.indexes => map = round.indexes
    <3>1. round.indexes \in [DOMAIN round.indexes -> Nat]
      BY StateFields
    <3>2. ASSUME k \in DOMAIN round.indexes PROVE map = round.indexes
      <4>1. index = round.indexes[k]
        BY <3>2 DEF index, SlotOf
      <4>2. map = [x \in DOMAIN round.indexes |-> round.indexes[x]]
        BY <3>1, <3>2, <4>1 DEF map, WithEntry
      <4> QED
        BY <3>1, <4>2
    <3> QED
      BY <3>2
  <2>2. k \notin DOMAIN round.indexes => index = Len(slots)
    BY DEF index, SlotOf
  <2> HIDE DEF skip
  <2> QED
    BY <1>2, <1>3, <1>4, <2>1, <2>2
<1>8. ASSUME Again \/ New
      PROVE  /\ Given(slots', map, round.output, k, index, item)
             /\ index < Len(slots') /\ Len(slots') \in Nat /\ item.kind \in {"message", "work"}
  <2>1. Given(slots', map, round.output, k, index, item)
    BY <1>5, <1>7, <1>8
  <2>2. item.kind \in {"message", "work"}
    BY <1>1, <1>8 DEF Kinds
  <2> QED
    BY <2>1, <2>2, StateFields DEF Given
<1>9. /\ slots' \in Seq(Items) /\ Len(slots') \in Nat /\ Len(slots) <= Len(slots')
      /\ Owned(slots', round'.indexes, round.output)
      /\ Keyed(slots', round'.indexes, round.output, keys')
      /\ round'.indexes \in [DOMAIN round'.indexes -> Nat]
      /\ DOMAIN round'.indexes \subseteq 1..Len(round.output)
      /\ \A j \in DOMAIN round'.indexes : round'.indexes[j] < Len(slots')
      /\ keys' \in [DOMAIN keys' -> Nat] /\ DOMAIN keys' \subseteq Ids
      /\ \A id \in DOMAIN keys' : keys'[id] < Len(slots')
  <2>0. \A id \in DOMAIN keys : keys[id] \in Nat /\ keys[id] < Len(slots)
    BY StateFields
  <2>1. CASE Passed
    <3>1. UNCHANGED <<slots, keys>> /\ round'.indexes = round.indexes
      BY <1>7, <2>1
    <3> QED
      BY <3>1, StateFields
  <2>2. CASE Again
    <3>1. UNCHANGED keys /\ round'.indexes = map
      BY <1>2, <1>7, <2>2
    <3>2. Given(slots', map, round.output, k, index, item) /\ Len(slots') \in Nat
      BY <1>8, <2>2
    <3> HIDE DEF Again, New, Passed, skip
    <3>3. \A id \in DOMAIN keys : keys[id] < Len(slots')
      BY <2>0, <3>2, StateFields DEF Given
    <3> QED
      BY <3>1, <3>2, <3>3, StateFields DEF Given
  <2>3. CASE New
    <3>1. round'.indexes = map
      BY <1>7, <2>3
    <3>2. /\ Given(slots', map, round.output, k, index, item) /\ index < Len(slots')
          /\ Len(slots') \in Nat /\ Len(slots) <= Len(slots') /\ index \in Nat
      BY <1>5, <1>8, <2>3 DEF Given
    <3>3. CASE item.kind = "message"
      <4>1. keys' = WithEntry(keys, item.id, index)
        BY <1>7, <2>3, <3>3
      <4>2. /\ keys' \in [DOMAIN keys' -> Nat] /\ DOMAIN keys' \subseteq Ids
            /\ \A id \in DOMAIN keys' : keys'[id] < Len(slots')
        BY <1>1, <3>2, <4>1, KeyGiven
      <4> QED
        BY <3>1, <3>2, <4>1, <4>2 DEF Given, item
    <3>4. CASE item.kind # "message"
      <4>1. keys' = keys
        BY <1>7, <2>3, <3>4
      <4>2. \A id \in DOMAIN keys' : keys'[id] < Len(slots')
        BY <2>0, <3>2, <4>1, StateFields
      <4> QED
        BY <3>1, <3>2, <4>1, <4>2, StateFields DEF Given
    <3> QED
      BY <3>3, <3>4
  <2> QED
    BY <1>6, <2>1, <2>2, <2>3
<1>10. /\ wire' \in Wires /\ wire'.output = wire.output /\ wire'.terminals = wire.terminals
       /\ ~New \/ ~emitOutput => wire' = wire
       /\ New /\ emitOutput =>
            wire'.finished = Append(wire.finished, [item |-> item, index |-> index])
  <2>1. wire \in Wires
    BY StateFields
  <2>2. CASE ~New \/ ~emitOutput
    BY <1>6, <1>7, <2>1, <2>2
  <2>3. CASE New /\ emitOutput
    <3>1. wire' = EmitItem(wire, item, index)
      BY <1>7, <2>3
    <3> QED
      BY <1>1, <1>5, <2>1, <2>3, <3>1, EmitItemEffect
  <2> QED
    BY <2>2, <2>3
<1>11. TypeOK'
  <2>1. round' \in Rounds'
    BY <1>4, StateFields DEF Rounds
  <2>2. /\ mode \in Modes /\ streamed \in BOOLEAN /\ followUps \in 0..MaxInternalToolRounds
        /\ pc' \in {"open", "stream", "absorb", "decide", "repair", "end"}
        /\ sequence \in Nat /\ taskProtocolRetries \in Nat /\ canceled \in BOOLEAN
        /\ omissions \in 0..MaxOmissions
    BY <1>3 DEF IInv, TypeOK
  <2> QED
    BY <1>3, <1>4, <1>9, <1>10, <2>1, <2>2 DEF TypeOK, Modes, Wires
<1>12. Control' /\ Counted'
  <2>1. ~last => k + 1 <= Len(round.output)
    BY <1>1, StateFields
  <2>2. pc' = IF last THEN "decide" ELSE "absorb"
    BY <1>3
  <2> HIDE DEF last
  <2>3. pc' \in {"decide", "absorb"} /\ (pc' = "absorb" => k + 1 <= Len(round.output))
    BY <2>1, <2>2
  <2> QED
    BY <1>1, <1>3, <1>4, <1>10, <2>3 DEF IInv, Control, Counted
<1>13. OutputGood'
  BY <1>3, <1>4 DEF IInv, OutputGood, Kinds
<1>14. SlotsGood'
  BY <1>3, <1>4, <1>9 DEF SlotsGood, Keyed
<1>15. WholeQuiet' /\ StructuredQuiet'
  BY <1>1, <1>3, <1>10 DEF IInv, WholeQuiet, StructuredQuiet, emitOutput
<1>16. FinishedStand'
  <2>1. CASE Passed
    <3>1. UNCHANGED <<slots, wire>>
      BY <1>7, <2>1
    <3> QED
      BY <1>1, <3>1 DEF IInv, FinishedStand
  <2>2. CASE Again \/ New
    <3>1. ASSUME NEW e \in 1..Len(wire.finished)
          PROVE  /\ wire.finished[e].index < Len(slots')
                 /\ slots'[wire.finished[e].index + 1] = wire.finished[e].item
                 /\ wire.finished[e].item.kind \in {"message", "work"}
      <4>1. slots' = PutAt(slots, index, round.output[k]) /\ index = SlotOf(k)
        BY <1>7, <2>2 DEF item, index
      <4> QED
        BY <1>1, <4>1, FinishedStill
    <3>2. index < Len(slots') /\ slots'[index + 1] = item /\ item.kind \in {"message", "work"}
      BY <1>8, <2>2 DEF Given
    <3>3. CASE ~New \/ ~emitOutput
      BY <1>10, <3>1, <3>3 DEF FinishedStand
    <3>4. CASE New /\ emitOutput
      <4>1. wire.finished \in Seq(Finished) /\ Len(wire.finished) \in Nat
        BY StateFields
      <4> DEFINE event == [item |-> item, index |-> index]
      <4>2. wire'.finished = Append(wire.finished, event)
        BY <1>10, <3>4
      <4>3. /\ event.index < Len(slots') /\ slots'[event.index + 1] = event.item
            /\ event.item.kind \in {"message", "work"}
        BY <3>2
      <4> HIDE DEF event
      <4> QED
        BY <3>1, <4>1, <4>2, <4>3 DEF FinishedStand
    <3> QED
      BY <3>3, <3>4
  <2> QED
    BY <1>6, <2>1, <2>2
\* When upstream sent every event, there is nothing left to store or to show.
<1>17. omissions = 0 => UNCHANGED <<slots, keys, wire>> /\ round'.indexes = round.indexes
  <2> SUFFICES ASSUME omissions = 0
               PROVE  UNCHANGED <<slots, keys, wire>> /\ round'.indexes = round.indexes
    OBVIOUS
  <2>1. /\ \A j \in DOMAIN round.indexes : slots[round.indexes[j] + 1] = round.output[j]
        /\ k \in round.hidden \cup DOMAIN round.indexes
    BY <1>1 DEF IInv, Tracked
  <2>2. ~New
    BY <1>2, <2>1
  <2>3. Again => slots' = slots
    <3> SUFFICES ASSUME Again PROVE slots' = slots
      OBVIOUS
    <3>1. k \in DOMAIN round.indexes
      BY <1>2
    <3>2. slots[index + 1] = item /\ index \in Nat /\ index < Len(slots) /\ Len(slots) \in Nat
      BY <2>1, <3>1, StateFields DEF index, item, SlotOf
    <3>3. slots \in Seq(Items) /\ index # Len(slots)
      BY <3>2, StateFields
    <3>4. [slots EXCEPT ![index + 1] = item] = slots
      BY <3>2, <3>3
    <3> QED
      BY <1>7, <3>3, <3>4 DEF PutAt
  <2> QED
    BY <1>6, <1>7, <2>2, <2>3
<1>18. Tracked'
  <2> SUFFICES ASSUME omissions = 0 PROVE Tracked'
    BY <1>3 DEF Tracked
  <2>1. ~round'.open /\ ~round'.partial
    BY <1>1, <1>4 DEF IInv, Tracked
  <2> QED
    BY <1>1, <1>3, <1>4, <1>17, <2>1 DEF IInv, Tracked
<1>19. InOrder'
  <2> SUFFICES ASSUME omissions = 0, emitOutput PROVE InOrder'
    BY <1>3 DEF InOrder, emitOutput
  <2> QED
    BY <1>1, <1>3, <1>4, <1>17 DEF IInv, InOrder, Pending
<1> QED
  BY <1>11, <1>12, <1>13, <1>14, <1>15, <1>16, <1>18, <1>19 DEF IInv

-----------------------------------------------------------------------------
(* The ends of a turn                                                      *)

Ending ==
  \/ Errors \/ Repair
  \/ RoundsExceeded \/ TaskProtocolViolation
  \/ EndTask \/ ReturnFinal \/ ReturnStructured \/ EndTaskWhole \/ ReturnWhole

\* It failed, or Codex is told nothing.
GivenUp ==
  /\ wire' \in Wires
  /\ wire'.announced = wire.announced /\ wire'.finished = wire.finished /\ wire'.output = wire.output
  /\ wire'.terminals \in {wire.terminals, Append(wire.terminals, "failed")}

\* The slots are the response.
SlotsReturned ==
  /\ pc = "decide" /\ streamed /\ mode # "structured"
  /\ Judged("work") \/ Judged("ended")
  /\ wire' = Completed(wire, slots)

\* The result is emitted beside what was shown and returned in its place.
ResultReturned ==
  /\ pc = "decide" /\ streamed /\ mode = "protocol" /\ Judged("ended")
  /\ ~ShownAlone(TaskResult(round.output))
  /\ \E text \in Texts \cup {NoText} :
       wire' = Completed(EmitItems(wire, <<ResultItem(text)>>), <<ResultItem(text)>>)

\* The response of a turn that was not streamed.
WholeReturned ==
  /\ ~streamed
  /\ Judged("work") \/ Judged("ended") \/ (pc = "repair" /\ ~round.over)
  /\ \E output \in Seq(Items) :
       /\ \A k \in 1..Len(output) : output[k].kind \notin EndKinds
       /\ mode = "structured" => SatisfiesSchema(output)
       /\ wire' = Completed(wire, output)

\* A validated answer is shown at once.
StructuredReturned ==
  /\ streamed /\ mode = "structured"
  /\ Judged("work") \/ (pc = "repair" /\ ~round.over)
  /\ \E output \in Seq(Items) :
       /\ SatisfiesSchema(output)
       /\ wire' = Completed(EmitItems(wire, output), output)

\* The text of a valid call of the end tool.
LEMMA ResultType ==
  ASSUME IInv, Verdict(round.output) = "ended"
  PROVE  mode = "protocol" /\ TaskResult(round.output) \in Texts \cup {NoText}
<1>1. mode = "protocol" /\ \E k \in Ends(round.output) : TRUE
  BY DEF Verdict
<1>2. PICK k \in Ends(round.output) : TaskResult(round.output) = round.output[k].text
  BY <1>1 DEF TaskResult
<1>3. round.output[k] \in Items
  BY <1>2, StateFields DEF Ends, Calls
<1> QED
  BY <1>1, <1>2, <1>3 DEF Items

LEMMA ResultItemType ==
  ASSUME NEW text \in Texts \cup {NoText}
  PROVE  /\ ResultItem(text) \in Items /\ ResultItem(text).kind = "message"
         /\ <<ResultItem(text)>> \in Seq(Items) /\ Len(<<ResultItem(text)>>) = 1
         /\ <<ResultItem(text)>>[1] = ResultItem(text)
<1>1. ResultItem(text) \in Items /\ ResultItem(text).kind = "message"
  BY ItemTypes DEF ResultItem, Item
<1> HIDE DEF ResultItem
<1> QED
  BY <1>1

LEMMA EndingEffect ==
  ASSUME IInv, Ending
  PROVE  /\ pc # "end" /\ End
         /\ GivenUp \/ SlotsReturned \/ ResultReturned \/ WholeReturned \/ StructuredReturned
<1>0. wire \in Wires /\ slots \in Seq(Items) /\ round.output \in Seq(Items)
  BY StateFields
<1>1. CASE Errors
  <2>1. PICK failure \in Failures : UpstreamError(failure)
    BY <1>1 DEF Errors
  <2> QED
    BY <1>0, <2>1, FailedEffect DEF UpstreamError, End, GivenUp
<1>2. ASSUME NEW failure \in Failures, RepairError(failure)
      PROVE  pc # "end" /\ End /\ GivenUp
  BY <1>0, <1>2, FailedEffect DEF RepairError, GivenUp
<1>3. ASSUME NEW text \in Texts, RepairAnswer(text)
      PROVE  pc # "end" /\ End /\ (GivenUp \/ WholeReturned \/ StructuredReturned)
  <2> DEFINE answer == <<Item([round |-> sequence + 1, k |-> 1], "message", text)>>
  <2>1. /\ pc = "repair" /\ ~round.over /\ End /\ mode = "structured"
        /\ wire' = IF ~SatisfiesSchema(answer) THEN projectedResponseFailure("repair")
                   ELSE IF streamed THEN Completed(EmitItems(wire, answer), answer)
                   ELSE Completed(wire, answer)
    BY <1>3 DEF RepairAnswer, IInv, Control
  <2>2. /\ answer \in Seq(Items)
        /\ \A k \in 1..Len(answer) : answer[k].kind \notin EndKinds
    <3> DEFINE item == Item([round |-> sequence + 1, k |-> 1], "message", text)
    <3>1. [round |-> sequence + 1, k |-> 1] \in Ids
      BY StateFields DEF Ids
    <3>2. item \in Items /\ item.kind = "message"
      BY <3>1, ItemTypes DEF Item
    <3> HIDE DEF item
    <3>3. /\ <<item>> \in Seq(Items) /\ Len(<<item>>) = 1 /\ <<item>>[1] = item
      BY <3>2
    <3> QED
      BY <3>2, <3>3 DEF item
  <2> HIDE DEF answer
  <2>3. CASE ~SatisfiesSchema(answer)
    BY <1>0, <2>1, <2>3, FailedEffect DEF GivenUp
  <2>4. CASE SatisfiesSchema(answer) /\ streamed
    BY <2>1, <2>2, <2>4 DEF StructuredReturned
  <2>5. CASE SatisfiesSchema(answer) /\ ~streamed
    BY <2>1, <2>2, <2>5 DEF WholeReturned
  <2> QED
    BY <2>1, <2>3, <2>4, <2>5
<1>4. CASE RoundsExceeded \/ TaskProtocolViolation
  BY <1>0, <1>4, FailedEffect DEF RoundsExceeded, TaskProtocolViolation, Judged, GivenUp
<1>5. CASE EndTask
  <2> DEFINE text == TaskResult(round.output)
  <2>1. /\ Judged("ended") /\ streamed /\ End /\ pc = "decide"
        /\ wire' = IF ShownAlone(text) THEN Completed(wire, slots)
                   ELSE Completed(EmitItems(wire, <<ResultItem(text)>>), <<ResultItem(text)>>)
    BY <1>5 DEF EndTask, Judged
  <2>2. mode = "protocol" /\ text \in Texts \cup {NoText}
    BY <2>1, ResultType DEF Judged
  <2> QED
    BY <2>1, <2>2 DEF SlotsReturned, ResultReturned
<1>6. CASE ReturnFinal
  BY <1>6 DEF ReturnFinal, Judged, SlotsReturned, emitOutput
<1>7. CASE ReturnStructured
  BY <1>0, <1>7 DEF ReturnStructured, Judged, StructuredReturned, emitOutput
<1>8. CASE EndTaskWhole
  <2> DEFINE text == TaskResult(round.output)
  <2>1. /\ Judged("ended") /\ ~streamed /\ End /\ pc = "decide"
        /\ wire' = Completed(wire, <<ResultItem(text)>>)
    BY <1>8 DEF EndTaskWhole, Judged
  <2>2. mode = "protocol" /\ text \in Texts \cup {NoText}
    BY <2>1, ResultType DEF Judged
  <2>3. /\ <<ResultItem(text)>> \in Seq(Items)
        /\ \A k \in 1..Len(<<ResultItem(text)>>) : <<ResultItem(text)>>[k].kind \notin EndKinds
    BY <2>2, ResultItemType
  <2> QED
    BY <2>1, <2>2, <2>3 DEF WholeReturned
<1>9. CASE ReturnWhole
  <2> DEFINE output == projectedWithoutTaskEndCalls(round.output)
  <2>1. /\ Judged("work") /\ ~streamed /\ End /\ pc = "decide"
        /\ mode = "structured" => SatisfiesSchema(round.output)
        /\ wire' = Completed(wire, output)
    BY <1>9 DEF ReturnWhole, Judged
  <2>2. output \in Seq(Items)
    BY <1>0, FilterEffect
  <2>3. mode # "protocol" => output = round.output
    BY DEF projectedWithoutTaskEndCalls
  <2>4. mode # "protocol" => \A k \in 1..Len(round.output) : round.output[k].kind \notin EndKinds
    BY DEF IInv, OutputGood, Kinds
  <2>5. \A k \in 1..Len(output) : output[k].kind \notin EndKinds
    BY <1>0, <2>3, <2>4, FilterEffect
  <2> HIDE DEF output
  <2> QED
    BY <2>1, <2>2, <2>3, <2>5 DEF WholeReturned
<1> QED
  BY <1>1, <1>2, <1>3, <1>4, <1>5, <1>6, <1>7, <1>8, <1>9 DEF Ending, Repair

LEMMA EndingKeeps ==
  ASSUME IInv, Ending
  PROVE  IInv'
<1>1. /\ pc # "end" /\ End
      /\ GivenUp \/ SlotsReturned \/ ResultReturned \/ WholeReturned \/ StructuredReturned
  BY EndingEffect
<1>2. wire \in Wires /\ slots \in Seq(Items)
  BY StateFields
<1>3. /\ wire' \in Wires
      /\ ~streamed => wire'.announced = wire.announced /\ wire'.finished = wire.finished
  <2>1. CASE GivenUp
    BY <2>1 DEF GivenUp
  <2>2. CASE SlotsReturned
    BY <1>2, <2>2, CompletedEffect DEF SlotsReturned
  <2>3. CASE ResultReturned
    <3>1. PICK text \in Texts \cup {NoText} :
            wire' = Completed(EmitItems(wire, <<ResultItem(text)>>), <<ResultItem(text)>>)
      BY <2>3 DEF ResultReturned
    <3>2. streamed /\ <<ResultItem(text)>> \in Seq(Items)
      BY <2>3, ResultItemType DEF ResultReturned
    <3> DEFINE v == EmitItems(wire, <<ResultItem(text)>>)
    <3>3. v \in Wires
      BY <1>2, <3>2, EmitItemsEffect
    <3> HIDE DEF v
    <3>4. Completed(v, <<ResultItem(text)>>) \in Wires
      BY <3>2, <3>3, CompletedEffect
    <3> QED
      BY <3>1, <3>2, <3>4 DEF v
  <2>4. CASE WholeReturned
    BY <1>2, <2>4, CompletedEffect DEF WholeReturned
  <2>5. CASE StructuredReturned
    BY <1>2, <2>5, EmitItemsEffect, CompletedEffect DEF StructuredReturned
  <2> QED
    BY <1>1, <2>1, <2>2, <2>3, <2>4, <2>5
<1> QED
  BY <1>1, <1>3, EndKeeps

-----------------------------------------------------------------------------
(* The invariant holds                                                     *)

LEMMA Products ==
  ASSUME NEW a \in Nat, NEW b \in Nat, NEW c \in Nat, a <= b
  PROVE  c * a \in Nat /\ c * (a + 1) = c * a + c /\ c * a <= c * b
<1>1. PICK d \in Nat : b = a + d
  <2>1. b - a \in Nat /\ b = a + (b - a)
    OBVIOUS
  <2> QED
    BY <2>1
<1>2. c * b = c * a + c * d /\ c * d \in Nat /\ c * a \in Nat
  BY <1>1
<1> QED
  BY <1>2

LEMMA InitIInv == Init => IInv
<1> SUFFICES ASSUME Init PROVE IInv
  OBVIOUS
<1>1. /\ mode \in Modes /\ streamed \in BOOLEAN /\ followUps = 0 /\ pc = "open"
      /\ round = NewRound(FALSE) /\ slots = <<>> /\ keys = <<>> /\ sequence = 0
      /\ taskProtocolRetries = 0 /\ omissions = 0 /\ canceled = FALSE
      /\ wire.announced = {} /\ wire.finished = <<>> /\ wire.output = <<>>
      /\ wire.terminals = <<>>
  BY DEF Init
<1>2. /\ round.hideNarrative = FALSE /\ round.output = <<>> /\ ~round.open /\ ~round.partial
      /\ ~round.over /\ round.indexes = <<>> /\ round.hidden = {} /\ round.cursor = 1
  BY <1>1 DEF NewRound
<1>3. /\ slots \in Seq(Items) /\ Len(slots) = 0 /\ Len(wire.finished) = 0
      /\ Len(round.output) = 0 /\ DOMAIN round.indexes = {} /\ DOMAIN keys = {}
      /\ round.indexes \in [DOMAIN round.indexes -> Nat] /\ keys \in [DOMAIN keys -> Nat]
  <2> DEFINE e == <<>>
  <2>1. e \in Seq(Nat) /\ Len(e) = 0 /\ e \in Seq(Items)
    OBVIOUS
  <2>2. e \in [1..Len(e) -> Nat] /\ 1..Len(e) = {}
    BY <2>1, LenProperties
  <2>3. round.indexes = e /\ keys = e /\ slots = e /\ wire.finished = e /\ round.output = e
    BY <1>1, <1>2
  <2> HIDE DEF e
  <2> QED
    BY <2>1, <2>2, <2>3
<1>12. round = NewRound(round.hideNarrative)
  BY <1>1, <1>2, Zenon
<1>13. wire.terminals = IF round.over THEN <<"failed">> ELSE <<>>
  BY <1>1, <1>2, Zenon
<1>4. TypeOK
  <2>1. wire \in Wires
    BY DEF Init, Wires
  <2>2. round \in Rounds
    BY <1>1, <1>2, ProjectedConstants DEF Rounds, NewRound
  <2> QED
    <3>1. /\ followUps \in 0..MaxInternalToolRounds /\ omissions \in 0..MaxOmissions
          /\ sequence \in Nat /\ taskProtocolRetries \in Nat
      BY <1>1, ProjectedConstants
    <3>2. canceled \in BOOLEAN
      BY <1>1, Zenon
    <3>3. mode \in Modes /\ streamed \in BOOLEAN /\ pc = "open"
      BY <1>1, Zenon
    <3> QED
      BY <1>3, <2>1, <2>2, <3>1, <3>2, <3>3 DEF TypeOK
<1>5. Control
  <2>1. /\ mode \in Modes /\ taskProtocolRetries = 0 /\ sequence = 0 /\ pc = "open"
        /\ ~round.hideNarrative /\ round.cursor = 1 /\ ~round.over /\ wire.output = <<>>
        /\ MaxTaskProtocolRetries \in Nat
    BY <1>1, <1>2, ProjectedConstants
  <2> QED
    BY <2>1, <1>12, <1>13 DEF Control
<1>6. Counted
  BY <1>1, ProjectedConstants DEF Counted
<1>7. OutputGood
  BY <1>2, <1>3, ProjectedConstants DEF OutputGood
<1>8. SlotsGood
  BY <1>3 DEF SlotsGood, Owned, Keyed
<1>9. WholeQuiet /\ FinishedStand /\ StructuredQuiet
  BY <1>1, <1>3 DEF WholeQuiet, FinishedStand, StructuredQuiet
<1>10. Tracked
  <2>1. ~round.partial /\ pc = "open"
    BY <1>1, <1>2
  <2> QED
    BY <2>1, <1>3 DEF Tracked
<1>11. InOrder
  <2>1. ~round.open
    BY <1>2
  <2> QED
    BY <2>1, <1>3 DEF InOrder, Pending
<1> QED
  BY <1>4, <1>5, <1>6, <1>7, <1>8, <1>9, <1>10, <1>11 DEF IInv

\* The next request, within the limits.
LEMMA AskingKeeps ==
  ASSUME IInv, FollowUp \/ TaskProtocolRetry \/ TaskProtocolRetryWhole
  PROVE  IInv'
<1>1. /\ sequence \in Nat /\ taskProtocolRetries \in 0..sequence
      /\ taskProtocolRetries <= MaxTaskProtocolRetries /\ followUps \in 0..MaxInternalToolRounds
      /\ MaxInternalToolRounds \in Nat /\ MaxTaskProtocolRetries \in Nat /\ streamed \in BOOLEAN
      /\ mode # "protocol" => taskProtocolRetries = 0
  BY ProjectedConstants DEF IInv, TypeOK, Control
<1>2. /\ MaxInternalToolRounds * taskProtocolRetries \in Nat
      /\ MaxInternalToolRounds * (taskProtocolRetries + 1) =
           MaxInternalToolRounds * taskProtocolRetries + MaxInternalToolRounds
  BY <1>1, Products
<1>3. CASE FollowUp
  <2>1. /\ pc = "decide" /\ Ask(FALSE) /\ sequence' = sequence + 1
        /\ taskProtocolRetries' = taskProtocolRetries /\ streamed' = streamed
        /\ streamed => sequence < MaxInternalToolRounds /\ followUps' = 0
        /\ ~streamed => followUps < MaxInternalToolRounds /\ followUps' = followUps + 1
    BY <1>3 DEF FollowUp, Ask, roundsUsed
  <2>2. Counted'
    BY <1>1, <1>2, <2>1 DEF IInv, Counted
  <2>3. /\ followUps' \in 0..MaxInternalToolRounds
        /\ taskProtocolRetries' \in Nat /\ taskProtocolRetries' <= MaxTaskProtocolRetries
        /\ taskProtocolRetries' <= sequence + 1
        /\ mode # "protocol" => taskProtocolRetries' = 0
        /\ ~(streamed /\ sequence + 1 = taskProtocolRetries')
    BY <1>1, <2>1
  <2>4. Asked(FALSE)
    BY <2>1, <2>2, <2>3, Zenon DEF Asked
  <2> QED
    BY <2>4, AskKeeps
<1>4. CASE TaskProtocolRetry
  <2>1. /\ pc = "decide" /\ Ask(TRUE) /\ sequence' = sequence + 1 /\ streamed /\ streamed' = streamed
        /\ taskProtocolRetries' = taskProtocolRetries + 1 /\ followUps' = 0
        /\ taskProtocolRetries < MaxTaskProtocolRetries /\ mode = "protocol"
    BY <1>4 DEF TaskProtocolRetry, Ask, Judged, Verdict
  <2>2. Counted'
    BY <1>1, <2>1 DEF IInv, Counted
  <2>3. /\ followUps' \in 0..MaxInternalToolRounds
        /\ taskProtocolRetries' \in Nat /\ taskProtocolRetries' <= MaxTaskProtocolRetries
        /\ taskProtocolRetries' <= sequence + 1 /\ mode = "protocol"
    BY <1>1, <2>1
  <2>4. Asked(TRUE)
    BY <2>1, <2>2, <2>3, Zenon DEF Asked
  <2> QED
    BY <2>4, AskKeeps
<1>5. CASE TaskProtocolRetryWhole
  <2>1. /\ pc = "decide" /\ Ask(FALSE) /\ sequence' = sequence + 1 /\ ~streamed /\ streamed' = streamed
        /\ taskProtocolRetries' = taskProtocolRetries + 1 /\ followUps' = 0
        /\ taskProtocolRetries < MaxTaskProtocolRetries /\ mode = "protocol"
    BY <1>5 DEF TaskProtocolRetryWhole, Ask, Judged, Verdict
  <2>2. Counted'
    BY <1>1, <1>2, <2>1 DEF IInv, Counted
  <2>3. /\ followUps' \in 0..MaxInternalToolRounds
        /\ taskProtocolRetries' \in Nat /\ taskProtocolRetries' <= MaxTaskProtocolRetries
        /\ taskProtocolRetries' <= sequence + 1
        /\ mode # "protocol" => taskProtocolRetries' = 0
        /\ ~(streamed /\ sequence + 1 = taskProtocolRetries')
    BY <1>1, <2>1
  <2>4. Asked(FALSE)
    BY <2>1, <2>2, <2>3, Zenon DEF Asked
  <2> QED
    BY <2>4, AskKeeps
<1> QED
  BY <1>3, <1>4, <1>5

\* What a step is.
LEMMA Steps ==
  ASSUME [Next]_vars
  PROVE  \/ UNCHANGED vars
         \/ Cancel \/ Open \/ AskRepair \/ ResponseCompleted \/ UpstreamFailed
         \/ \E kind \in Kinds : \E text \in TextsOf(kind), first \in FirstEvents(kind) :
              ItemOpens(kind, text, first)
         \/ DoneItem \/ AbsorbItem \/ WholeAnswer
         \/ FollowUp \/ TaskProtocolRetry \/ TaskProtocolRetryWhole
         \/ Ending
BY DEF Next, Decide, NextItem, Ending

LEMMA StepIInv == IInv /\ [Next]_vars => IInv'
<1> SUFFICES ASSUME IInv, [Next]_vars PROVE IInv'
  OBVIOUS
<1>1. CASE UNCHANGED vars
  <2>1. UNCHANGED <<mode, streamed, followUps, pc, round, slots, keys, sequence,
                    taskProtocolRetries, omissions, canceled, wire>>
    BY <1>1 DEF vars
  <2>2. TypeOK' /\ Control' /\ Counted'
    BY <2>1 DEF IInv, TypeOK, Rounds, Wires, Modes, Control, Counted
  <2>3. OutputGood' /\ SlotsGood'
    BY <2>1, SameItems DEF IInv
  <2>4. WholeQuiet' /\ FinishedStand' /\ StructuredQuiet'
    BY <2>1 DEF IInv, WholeQuiet, FinishedStand, StructuredQuiet
  <2>5. Tracked'
    BY <2>1 DEF IInv, Tracked
  <2>6. InOrder'
    BY <2>1 DEF IInv, InOrder, Pending, emitOutput
  <2> QED
    BY <2>2, <2>3, <2>4, <2>5, <2>6 DEF IInv
<1>2. CASE Cancel \/ Open \/ AskRepair \/ ResponseCompleted
  BY <1>2, QuietKeeps
<1>3. CASE \E kind \in Kinds : \E text \in TextsOf(kind), first \in FirstEvents(kind) :
             ItemOpens(kind, text, first)
  BY <1>3, OpensKeeps
<1> QED
  BY <1>1, <1>2, <1>3, Steps, UpstreamFailedKeeps, DoneKeeps, AbsorbKeeps, WholeAnswerKeeps,
     AskingKeeps, EndingKeeps

\* Every reachable state satisfies the inductive invariant.
THEOREM IInvHolds == Spec => []IInv
BY InitIInv, StepIInv, PTL DEF Spec

\* The variables stay in their types, whatever upstream sends and leaves out.
THEOREM TypeCorrect == Spec => []TypeOK
<1>1. IInv => TypeOK
  BY DEF IInv
<1> QED
  BY <1>1, IInvHolds, PTL

-----------------------------------------------------------------------------
(* What Codex has when the turn ends                                       *)

\* Only an ending step ends the turn.
LEMMA Enders ==
  ASSUME IInv, [Next]_vars, pc' = "end"
  PROVE  Ending \/ UNCHANGED vars
<1>1. ~(Cancel \/ Open \/ AskRepair \/ UpstreamFailed \/ WholeAnswer)
  BY DEF Cancel, Open, AskRepair, UpstreamFailed, WholeAnswer
<1>2. ~(ResponseCompleted \/ DoneItem \/ AbsorbItem)
  BY DEF ResponseCompleted, DoneItem, AbsorbItem
<1>3. ~(FollowUp \/ TaskProtocolRetry \/ TaskProtocolRetryWhole)
  BY DEF FollowUp, TaskProtocolRetry, TaskProtocolRetryWhole, Ask
<1>4. ASSUME NEW kind, NEW text, NEW first, ItemOpens(kind, text, first) PROVE FALSE
  BY <1>4 DEF ItemOpens
<1> QED
  BY <1>1, <1>2, <1>3, <1>4, Steps

\* Until then nothing has completed.
LEMMA NothingCompleted ==
  ASSUME IInv, pc # "end"
  PROVE  /\ ~HasCompleted /\ wire.output = <<>>
         /\ pc = "decide" \/ ~round.over => wire.terminals = <<>>
         /\ wire.terminals \in {<<>>, <<"failed">>}
         /\ wire.terminals # <<"completed">> /\ Append(wire.terminals, "failed") # <<"completed">>
<1>1. /\ wire.output = <<>>
      /\ round.over => wire.terminals = <<"failed">>
      /\ ~round.over => wire.terminals = <<>>
      /\ pc = "decide" => ~round.over
  BY DEF IInv, Control
<1>2. /\ <<>> # <<"completed">> /\ <<"failed">> # <<"completed">>
      /\ Append(<<>>, "failed") # <<"completed">>
      /\ Append(<<"failed">>, "failed") # <<"completed">>
  OBVIOUS
<1> QED
  BY <1>1, <1>2 DEF HasCompleted

\* The wire at the end, one case for each way to end.
LEMMA SlotsOnWire ==
  ASSUME IInv, SlotsReturned
  PROVE  /\ wire'.announced = wire.announced /\ wire'.finished = wire.finished
         /\ wire'.output = slots /\ wire'.terminals = <<"completed">>
<1>1. wire \in Wires /\ slots \in Seq(Items) /\ wire.terminals = <<>>
  BY StateFields, NothingCompleted DEF SlotsReturned
<1>2. Append(<<>>, "completed") = <<"completed">>
  OBVIOUS
<1> QED
  BY <1>1, <1>2, CompletedEffect DEF SlotsReturned

LEMMA ResultOnWire ==
  ASSUME IInv, ResultReturned
  PROVE  \E text \in Texts \cup {NoText} :
           /\ wire'.finished = wire.finished \o <<[item |-> ResultItem(text), index |-> 0]>>
           /\ wire'.output = <<ResultItem(text)>> /\ wire'.terminals = <<"completed">>
<1>1. PICK text \in Texts \cup {NoText} :
        wire' = Completed(EmitItems(wire, <<ResultItem(text)>>), <<ResultItem(text)>>)
  BY DEF ResultReturned
<1>2. wire \in Wires /\ wire.terminals = <<>>
  BY StateFields, NothingCompleted DEF ResultReturned
<1> DEFINE items == <<ResultItem(text)>>
           v == EmitItems(wire, items)
           event(k) == [item |-> items[k], index |-> k - 1]
<1>3. items \in Seq(Items) /\ Len(items) = 1 /\ items[1] = ResultItem(text)
  BY ResultItemType
<1> HIDE DEF items
<1>4. /\ v \in Wires /\ v.terminals = <<>>
      /\ v.finished = wire.finished \o [k \in 1..Len(items) |-> event(k)]
  BY <1>2, <1>3, EmitItemsEffect
<1>5. [k \in 1..Len(items) |-> event(k)] = <<[item |-> ResultItem(text), index |-> 0]>>
  <2>1. 1..Len(items) = {1} /\ event(1) = [item |-> ResultItem(text), index |-> 0]
    BY <1>3
  <2> HIDE DEF event
  <2> QED
    BY <2>1
<1> HIDE DEF v, event
<1>6. Append(<<>>, "completed") = <<"completed">>
  OBVIOUS
<1>7. /\ Completed(v, items).finished = v.finished /\ Completed(v, items).output = items
      /\ Completed(v, items).terminals = <<"completed">>
  BY <1>3, <1>4, <1>6, CompletedEffect
<1> QED
  BY <1>1, <1>4, <1>5, <1>7 DEF items, v

LEMMA WholeOnWire ==
  ASSUME IInv, pc # "end", WholeReturned
  PROVE  /\ wire'.announced = {} /\ wire'.finished = <<>> /\ wire'.terminals = <<"completed">>
         /\ wire'.output \in Seq(Items)
         /\ \A k \in 1..Len(wire'.output) : wire'.output[k].kind \notin EndKinds
         /\ mode = "structured" => SatisfiesSchema(wire'.output)
<1>1. PICK output \in Seq(Items) :
        /\ \A k \in 1..Len(output) : output[k].kind \notin EndKinds
        /\ mode = "structured" => SatisfiesSchema(output)
        /\ wire' = Completed(wire, output)
  BY DEF WholeReturned
<1>2. wire \in Wires /\ wire.terminals = <<>>
  BY StateFields, NothingCompleted DEF WholeReturned, Judged
<1>3. wire.announced = {} /\ wire.finished = <<>>
  BY DEF IInv, WholeQuiet, WholeReturned
<1>4. Append(<<>>, "completed") = <<"completed">>
  OBVIOUS
<1>5. /\ wire'.announced = {} /\ wire'.finished = <<>> /\ wire'.terminals = <<"completed">>
      /\ wire'.output = output
  BY <1>1, <1>2, <1>3, <1>4, CompletedEffect
<1> QED
  BY <1>1, <1>5

LEMMA StructuredOnWire ==
  ASSUME IInv, pc # "end", StructuredReturned
  PROVE  /\ wire'.finished =
              [k \in 1..Len(wire'.output) |-> [item |-> wire'.output[k], index |-> k - 1]]
         /\ wire'.output \in Seq(Items) /\ SatisfiesSchema(wire'.output)
         /\ wire'.terminals = <<"completed">>
<1>1. PICK output \in Seq(Items) :
        /\ SatisfiesSchema(output)
        /\ wire' = Completed(EmitItems(wire, output), output)
  BY DEF StructuredReturned
<1>2. wire \in Wires /\ wire.terminals = <<>> /\ wire.finished = <<>>
  BY StateFields, NothingCompleted DEF StructuredReturned, Judged, IInv, StructuredQuiet
<1> DEFINE v == EmitItems(wire, output)
           events == [k \in 1..Len(output) |-> [item |-> output[k], index |-> k - 1]]
<1>3. v \in Wires /\ v.terminals = <<>> /\ v.finished = wire.finished \o events
  BY <1>2, EmitItemsEffect
<1>4. events \in Seq(Finished)
  <2>1. \A k \in 1..Len(output) : [item |-> output[k], index |-> k - 1] \in Finished
    BY DEF Finished
  <2> QED
    BY <2>1
<1>5. <<>> \o events = events
  BY <1>4
<1> HIDE DEF v
<1>6. Append(<<>>, "completed") = <<"completed">>
  OBVIOUS
<1>7. /\ Completed(v, output).finished = events /\ Completed(v, output).output = output
      /\ Completed(v, output).terminals = <<"completed">>
  BY <1>2, <1>3, <1>5, <1>6, CompletedEffect
<1> QED
  BY <1>1, <1>7 DEF v

-----------------------------------------------------------------------------
(* What is shown and what is returned                                      *)

\* The two halves of StreamMatchesOutput: what was finished, what was announced.
FinishedStands ==
  streamed /\ HasCompleted /\ ~ResultReplaces =>
    /\ \A k \in 1..Len(wire.finished) :
         /\ wire.finished[k].index < Len(wire.output)
         /\ wire.output[wire.finished[k].index + 1] = wire.finished[k].item
    /\ omissions = 0 =>
         wire.finished = [k \in 1..Len(wire.output) |->
                            [item |-> wire.output[k], index |-> k - 1]]

AnnouncedStands ==
  streamed /\ HasCompleted /\ ~ResultReplaces =>
    \A place \in wire.announced :
      place.index < Len(wire.output) /\ wire.output[place.index + 1].id = place.id

LEMMA EndingMatches ==
  ASSUME IInv, Ending
  PROVE  FinishedStands'
<1>0. /\ pc # "end" /\ End
      /\ GivenUp \/ SlotsReturned \/ ResultReturned \/ WholeReturned \/ StructuredReturned
  BY EndingEffect
<1>1. CASE GivenUp
  BY <1>0, <1>1, NothingCompleted DEF GivenUp, FinishedStands, HasCompleted
<1>2. CASE SlotsReturned
  <2>1. wire'.finished = wire.finished /\ wire'.output = slots /\ omissions' = omissions
    BY <1>0, <1>2, SlotsOnWire DEF End
  <2>2. \A e \in 1..Len(wire.finished) :
          /\ wire.finished[e].index < Len(slots)
          /\ slots[wire.finished[e].index + 1] = wire.finished[e].item
    BY <1>0, FinishedNow
  <2>3. ASSUME omissions = 0
        PROVE  wire.finished = [k \in 1..Len(slots) |-> [item |-> slots[k], index |-> k - 1]]
    <3>1. /\ Len(slots) = Len(wire.finished)
          /\ \A e \in 1..Len(wire.finished) :
               wire.finished[e] = [item |-> slots[e], index |-> e - 1]
      <4>1. pc = "decide" /\ streamed /\ mode # "structured"
        BY <1>2 DEF SlotsReturned
      <4>2. ~round.open
        BY <2>3, <4>1 DEF IInv, Tracked
      <4> QED
        BY <2>3, <4>1, <4>2 DEF IInv, InOrder, Pending, emitOutput
    <3>2. wire.finished \in Seq(Finished)
      BY StateFields
    <3> DEFINE n == Len(wire.finished)
               at(k) == [item |-> slots[k], index |-> k - 1]
    <3>3. wire.finished = [k \in 1..n |-> wire.finished[k]]
      BY <3>2
    <3>4. \A k \in 1..n : wire.finished[k] = at(k)
      BY <3>1
    <3> HIDE DEF n, at
    <3>5. wire.finished = [k \in 1..n |-> at(k)]
      BY <3>3, <3>4
    <3> QED
      BY <3>1, <3>5 DEF n, at
  <2> QED
    BY <2>1, <2>2, <2>3 DEF FinishedStands
<1>3. CASE ResultReturned
  <2>1. /\ mode = "protocol" /\ Verdict(round.output) = "ended"
        /\ ~ShownAlone(TaskResult(round.output))
        /\ mode' = mode /\ round' = round /\ slots' = slots
    BY <1>0, <1>3 DEF ResultReturned, Judged, End
  <2>2. Verdict(round.output)' = Verdict(round.output)
    BY <2>1 DEF Verdict
  <2>3. ShownAlone(TaskResult(round.output))' = ShownAlone(TaskResult(round.output))
    BY <2>1 DEF ShownAlone
  <2> QED
    BY <2>1, <2>2, <2>3 DEF FinishedStands, ResultReplaces
<1>4. CASE WholeReturned
  BY <1>0, <1>4 DEF WholeReturned, End, FinishedStands
<1>5. CASE StructuredReturned
  <2> DEFINE n == Len(wire'.output)
             at(k) == [item |-> wire'.output[k], index |-> k - 1]
  <2>1. wire'.finished = [k \in 1..n |-> at(k)] /\ n \in Nat
    BY <1>0, <1>5, StructuredOnWire
  <2>2. \A k \in 1..n : at(k).index < n /\ wire'.output[at(k).index + 1] = at(k).item
    BY <2>1
  <2>3. Len(wire'.finished) = n /\ \A k \in 1..n : wire'.finished[k] = at(k)
    <3> HIDE DEF at, n
    <3> QED
      BY <2>1
  <2>4. \A k \in 1..Len(wire'.finished) :
          /\ wire'.finished[k].index < Len(wire'.output)
          /\ wire'.output[wire'.finished[k].index + 1] = wire'.finished[k].item
    <3> HIDE DEF at
    <3> QED
      BY <2>2, <2>3
  <2>5. wire'.finished = [k \in 1..Len(wire'.output) |->
                            [item |-> wire'.output[k], index |-> k - 1]]
    BY <2>1
  <2> DEFINE atIndex == \A k \in 1..Len(wire.finished) :
                          /\ wire.finished[k].index < Len(wire.output)
                          /\ wire.output[wire.finished[k].index + 1] = wire.finished[k].item
             whole == wire.finished = [k \in 1..Len(wire.output) |->
                                         [item |-> wire.output[k], index |-> k - 1]]
  <2>6. atIndex' /\ whole'
    BY <2>4, <2>5
  <2>7. (atIndex /\ whole => FinishedStands)'
    BY DEF FinishedStands
  <2> HIDE DEF n, at, atIndex, whole
  <2> QED
    BY <2>6, <2>7
<1> QED
  BY <1>0, <1>1, <1>2, <1>3, <1>4, <1>5

LEMMA EndingGuarded ==
  ASSUME IInv, Ending
  PROVE  StructuredGuarded'
<1>0. /\ pc # "end" /\ End /\ mode' = mode
      /\ GivenUp \/ SlotsReturned \/ ResultReturned \/ WholeReturned \/ StructuredReturned
  BY EndingEffect DEF End
<1>1. CASE GivenUp
  BY <1>0, <1>1, NothingCompleted DEF GivenUp, StructuredGuarded, IInv, StructuredQuiet
<1>2. CASE SlotsReturned \/ ResultReturned
  BY <1>0, <1>2 DEF SlotsReturned, ResultReturned, StructuredGuarded
<1>3. CASE WholeReturned
  BY <1>0, <1>3, WholeOnWire DEF StructuredGuarded, HasCompleted, SatisfiesSchema
<1>4. CASE StructuredReturned
  BY <1>0, <1>4, StructuredOnWire DEF StructuredGuarded, HasCompleted, SatisfiesSchema
<1> QED
  BY <1>0, <1>1, <1>2, <1>3, <1>4

LEMMA EndingHidden ==
  ASSUME IInv, Ending
  PROVE  InternalCallsHidden'
<1>0. /\ pc # "end" /\ End /\ mode' = mode /\ streamed' = streamed
      /\ GivenUp \/ SlotsReturned \/ ResultReturned \/ WholeReturned \/ StructuredReturned
  BY EndingEffect DEF End
<1>a. \A k \in 1..Len(wire.finished) : wire.finished[k].item.kind \notin InternalKinds
  BY <1>0, FinishedNow
<1>1. CASE GivenUp
  BY <1>0, <1>a, <1>1, NothingCompleted DEF GivenUp, InternalCallsHidden
<1>2. CASE SlotsReturned
  <2>1. \A k \in 1..Len(slots) : slots[k].kind \notin InternalKinds
    BY DEF IInv, SlotsGood, Owned
  <2> QED
    BY <1>0, <1>a, <1>2, <2>1, SlotsOnWire DEF InternalCallsHidden
<1>3. CASE ResultReturned
  <2>1. PICK text \in Texts \cup {NoText} :
          /\ wire'.finished = wire.finished \o <<[item |-> ResultItem(text), index |-> 0]>>
          /\ wire'.output = <<ResultItem(text)>>
    BY <1>3, ResultOnWire
  <2> DEFINE last == [item |-> ResultItem(text), index |-> 0]
  <2>2. ResultItem(text).kind = "message" /\ last \in Finished /\ last.item = ResultItem(text)
    BY ResultItemType DEF Finished
  <2> HIDE DEF last
  <2>3. wire.finished \in Seq(Finished) /\ wire'.finished = wire.finished \o <<last>>
    BY <2>1, StateFields DEF last
  <2>4. \A k \in 1..Len(wire'.finished) :
          wire'.finished[k] = last \/ \E i \in 1..Len(wire.finished) : wire'.finished[k] = wire.finished[i]
    BY <2>2, <2>3
  <2>5. \A k \in 1..Len(wire'.output) : wire'.output[k] = ResultItem(text)
    BY <2>1
  <2> QED
    BY <1>a, <2>2, <2>4, <2>5 DEF InternalCallsHidden
<1>4. CASE WholeReturned
  <2>1. ~streamed /\ Len(wire'.finished) = 0
        /\ \A k \in 1..Len(wire'.output) : wire'.output[k].kind \notin EndKinds
    BY <1>0, <1>4, WholeOnWire DEF WholeReturned
  <2> QED
    BY <1>0, <2>1 DEF InternalCallsHidden
<1>5. CASE StructuredReturned
  BY <1>0, <1>5 DEF StructuredReturned, InternalCallsHidden
<1> QED
  BY <1>0, <1>1, <1>2, <1>3, <1>4, <1>5

Shown == FinishedStands /\ StructuredGuarded /\ InternalCallsHidden

\* While the turn runs the three hold by what the invariant says of the wire.
LEMMA RunningShown == IInv /\ pc # "end" => Shown
<1> SUFFICES ASSUME IInv, pc # "end" PROVE Shown
  OBVIOUS
<1>1. ~HasCompleted /\ wire.output = <<>>
  BY NothingCompleted
<1>2. mode = "structured" => wire.announced = {} /\ wire.finished = <<>>
  BY DEF IInv, StructuredQuiet
<1>3. \A k \in 1..Len(wire.finished) : wire.finished[k].item.kind \notin InternalKinds
  BY FinishedNow
<1> QED
  BY <1>1, <1>2, <1>3 DEF Shown, FinishedStands, StructuredGuarded, InternalCallsHidden

LEMMA StillRunningShown == (IInv /\ pc # "end" => Shown)'
BY RunningShown, PTL

LEMMA StepShown == IInv /\ Shown /\ [Next]_vars => Shown'
<1> SUFFICES ASSUME IInv, Shown, [Next]_vars PROVE Shown'
  OBVIOUS
<1>1. IInv'
  BY StepIInv
<1>2. CASE pc' # "end"
  BY <1>1, <1>2, StillRunningShown
<1>3. CASE Ending
  BY <1>3, EndingMatches, EndingGuarded, EndingHidden DEF Shown
<1>4. CASE UNCHANGED vars
  <2>1. UNCHANGED <<mode, streamed, round, slots, omissions, wire>>
    BY <1>4 DEF vars
  <2>2. FinishedStands' = FinishedStands
    BY <2>1 DEF FinishedStands, HasCompleted, ResultReplaces, Verdict, ShownAlone
  <2>3. StructuredGuarded' = StructuredGuarded
    BY <2>1 DEF StructuredGuarded, HasCompleted
  <2>4. InternalCallsHidden' = InternalCallsHidden
    BY <2>1 DEF InternalCallsHidden
  <2> QED
    BY <2>2, <2>3, <2>4 DEF Shown
<1> QED
  BY <1>2, <1>3, <1>4, Enders

LEMMA ShownHolds == Spec => []Shown
<1>1. IInv /\ Init => Shown
  BY RunningShown DEF Init
<1> QED
  BY <1>1, InitIInv, StepIInv, StepShown, PTL DEF Spec

\* An answer that must satisfy a schema is not shown before it was validated.
THEOREM StructuredIsGuarded == Spec => []StructuredGuarded
<1>1. Shown => StructuredGuarded
  BY DEF Shown
<1> QED
  BY <1>1, ShownHolds, PTL

\* Calls of the tools that the bridge runs itself stay hidden from Codex, except
\* in structured outputs and for a web search beside work that is not streamed.
THEOREM InternalCallsAreHidden == Spec => []InternalCallsHidden
<1>1. Shown => InternalCallsHidden
  BY DEF Shown
<1> QED
  BY <1>1, ShownHolds, PTL

-----------------------------------------------------------------------------
(* What is announced and what is returned                                  *)

\* An item that was announced has its slot, and no reserved slot is announced.
Placed(items, places) ==
  \A place \in places :
    /\ place.index < Len(items) /\ items[place.index + 1].id = place.id
    /\ place.id # Blank.id
PlacesStand == pc # "end" => Placed(slots, wire.announced)

LEMMA AnnouncedEffect ==
  ASSUME NEW w \in Wires, NEW item \in Items, NEW index \in Nat
  PROVE  /\ Announce(w, item.id, index).announced = w.announced \cup {[id |-> item.id, index |-> index]}
         /\ EmitItem(w, item, index).announced = w.announced \cup {[id |-> item.id, index |-> index]}
         /\ Finish(w, item, index).announced = w.announced
<1>1. item.id \in Ids
  BY DEF Items
<1>2. Announce(w, item.id, index).announced = w.announced \cup {[id |-> item.id, index |-> index]}
  BY DEF Announce, Wires
<1>3. Announce(w, item.id, index) \in Wires
  BY <1>1, AnnounceEffect
<1> QED
  BY <1>2, <1>3, FinishEffect DEF EmitItem

\* What was announced still stands when an item of the round is given its slot.
LEMMA PlacesStill ==
  ASSUME IInv, PlacesStand, pc # "end", NEW k \in 1..Len(round.output),
         NEW index, index = SlotOf(k), NEW items, items = PutAt(slots, index, round.output[k])
  PROVE  /\ Placed(items, wire.announced) /\ index \in Nat /\ round.output[k] \in Items
         /\ Placed(items, wire.announced \cup {[id |-> round.output[k].id, index |-> index]})
<1>1. /\ slots \in Seq(Items) /\ Len(slots) \in Nat /\ round.output[k] \in Items
      /\ \A j \in DOMAIN round.indexes : round.indexes[j] \in Nat /\ round.indexes[j] < Len(slots)
  BY StateFields
<1>2. index \in 0..Len(slots)
  BY <1>1 DEF SlotOf
<1>3. /\ Len(items) = (IF index = Len(slots) THEN Len(slots) + 1 ELSE Len(slots))
      /\ items[index + 1] = round.output[k]
      /\ \A j \in 1..Len(slots) : j # index + 1 => items[j] = slots[j]
  BY <1>1, <1>2 DEF PutAt
<1>4. ASSUME NEW place \in wire.announced
      PROVE  /\ place.index < Len(items) /\ items[place.index + 1].id = place.id
             /\ place.id # Blank.id
  <2>1. /\ place.index \in Nat /\ place.index < Len(slots)
        /\ slots[place.index + 1].id = place.id /\ place.id # Blank.id
    <3>1. wire.announced \in SUBSET [id : Ids, index : Nat]
      BY StateFields, WireFields
    <3> QED
      BY <3>1 DEF PlacesStand, Placed
  <2>2. ASSUME place.index = index PROVE slots[index + 1] = round.output[k]
    <3>1. k \in DOMAIN round.indexes /\ round.indexes[k] = index
      BY <1>1, <2>1, <2>2 DEF SlotOf
    <3>2. slots[index + 1] \in {round.output[k], Blank}
      BY <3>1, StateFields DEF Owned
    <3> QED
      BY <2>1, <2>2, <3>2
  <2>3. place.index + 1 \in 1..Len(slots) /\ Len(slots) <= Len(items)
    BY <1>1, <1>3, <2>1
  <2>4. items[place.index + 1] = slots[place.index + 1]
    <3>1. CASE place.index = index
      BY <1>3, <2>2, <3>1
    <3>2. CASE place.index # index
      BY <1>1, <1>2, <1>3, <2>1, <2>3, <3>2
    <3> QED
      BY <3>1, <3>2
  <2> QED
    BY <1>1, <1>3, <2>1, <2>3, <2>4
<1>5. round.output[k].id # Blank.id
  <2>0. round.output[k].id = [round |-> sequence, k |-> k]
    BY DEF IInv, OutputGood
  <2>1. round.output[k].id.k = k /\ k # 0
    BY <2>0
  <2> QED
    BY <2>1 DEF Blank, Item
<1>6. index < Len(items)
  BY <1>1, <1>2, <1>3
<1> QED
  BY <1>1, <1>2, <1>3, <1>4, <1>5, <1>6 DEF Placed

LEMMA OpensPlaces ==
  ASSUME IInv, PlacesStand, NEW kind \in Kinds, NEW text \in TextsOf(kind),
         NEW first \in FirstEvents(kind), ItemOpens(kind, text, first)
  PROVE  PlacesStand'
<1> DEFINE k == Len(round.output) + 1
           item == Item([round |-> sequence, k |-> k], kind, text)
           here == [id |-> item.id, index |-> Len(slots)]
<1>1. /\ pc = "stream" /\ k <= MaxItems
      /\ \/ slots' = slots /\ wire' = wire
         \/ \E value \in {item, Blank} : slots' = Append(slots, value) /\ wire' = wire
         \/ slots' = Append(slots, item) /\ wire' = Announce(wire, item.id, Len(slots))
  BY DEF ItemOpens
<1>2. /\ slots \in Seq(Items) /\ Len(slots) \in Nat /\ wire \in Wires /\ item \in Items
      /\ Blank \in Items /\ item.id # Blank.id
  <2>1. k \in 1..MaxItems /\ sequence \in Nat /\ [round |-> sequence, k |-> k] \in Ids
    BY <1>1, ProjectedConstants, StateFields DEF Ids
  <2>2. item \in Items /\ Blank \in Items
    BY <2>1, ItemTypes
  <2>3. item.id.k = k /\ Blank.id.k = 0 /\ k # 0
    BY <2>1 DEF Item, Blank
  <2> QED
    BY <2>2, <2>3, StateFields
<1> HIDE DEF item, k
<1>3. \A value \in Items :
        /\ Len(Append(slots, value)) = Len(slots) + 1
        /\ Append(slots, value)[Len(slots) + 1] = value
        /\ \A j \in 1..Len(slots) : Append(slots, value)[j] = slots[j]
  BY <1>2
<1>4. Placed(slots, wire.announced) /\ wire.announced \in SUBSET [id : Ids, index : Nat]
  BY <1>1, StateFields, WireFields DEF PlacesStand
<1>5. \A value \in Items : Placed(Append(slots, value), wire.announced)
  BY <1>2, <1>3, <1>4 DEF Placed
<1>6. Placed(Append(slots, item), wire.announced \cup {here})
  <2>1. Placed(Append(slots, item), wire.announced)
    BY <1>2, <1>5
  <2>2. here.id = item.id /\ here.index = Len(slots)
    OBVIOUS
  <2>3. Len(slots) < Len(Append(slots, item)) /\ Append(slots, item)[Len(slots) + 1].id = item.id
    BY <1>2, <1>3
  <2> HIDE DEF here
  <2> QED
    BY <1>2, <2>1, <2>2, <2>3 DEF Placed
<1>7. Announce(wire, item.id, Len(slots)).announced = wire.announced \cup {here}
  BY <1>2, AnnouncedEffect
<1>8. Placed(slots', wire'.announced)
  BY <1>1, <1>2, <1>4, <1>5, <1>6, <1>7
<1> QED
  BY <1>8 DEF PlacesStand

LEMMA DonePlaces ==
  ASSUME IInv, PlacesStand, DoneItem
  PROVE  PlacesStand'
<1> DEFINE k == Len(round.output)
           item == round.output[k]
           index == SlotOf(k)
           items == PutAt(slots, index, item)
<1>1. /\ pc = "stream" /\ round.open
      /\ \/ slots' = slots /\ wire' = wire
         \/ slots' = items /\ wire' \in {wire, EmitItem(wire, item, index), Finish(wire, item, index)}
  BY DEF DoneItem, Store, Put, PutAt
<1>2. k \in 1..Len(round.output) /\ wire \in Wires
  BY <1>1, StateFields DEF IInv, OutputGood
<1> HIDE DEF k
<1>3. /\ Placed(items, wire.announced) /\ index \in Nat /\ item \in Items
      /\ Placed(items, wire.announced \cup {[id |-> item.id, index |-> index]})
  BY <1>1, <1>2, PlacesStill
<1> HIDE DEF item, index, items
<1>4. Placed(slots, wire.announced)
  BY <1>1 DEF PlacesStand
<1>5. /\ EmitItem(wire, item, index).announced = wire.announced \cup {[id |-> item.id, index |-> index]}
      /\ Finish(wire, item, index).announced = wire.announced
  BY <1>2, <1>3, AnnouncedEffect
<1>6. Placed(slots', wire'.announced)
  BY <1>1, <1>3, <1>4, <1>5
<1> QED
  BY <1>6 DEF PlacesStand

LEMMA AbsorbPlaces ==
  ASSUME IInv, PlacesStand, AbsorbItem
  PROVE  PlacesStand'
<1> DEFINE k == round.cursor
           item == round.output[k]
           index == SlotOf(k)
           items == PutAt(slots, index, item)
<1>1. pc = "absorb" /\ k \in 1..Len(round.output) /\ item.id.round = sequence /\ item.id.k = k
  <2>1. pc = "absorb" /\ k <= Len(round.output) /\ k \in 1..(MaxItems + 1)
    BY StateFields DEF AbsorbItem, IInv, Control
  <2>2. k \in 1..Len(round.output)
    BY <2>1, StateFields, ProjectedConstants
  <2>3. round.output[k].id = [round |-> sequence, k |-> k]
    BY <2>2 DEF IInv, OutputGood
  <2> QED
    BY <2>1, <2>2, <2>3
<1>2. item.id \in DOMAIN keys => keys[item.id] = index
  <2> SUFFICES ASSUME item.id \in DOMAIN keys PROVE keys[item.id] = index
    OBVIOUS
  <2>1. ~(item.id.round < sequence)
    BY <1>1, StateFields
  <2>2. k \in DOMAIN round.indexes /\ round.indexes[k] = keys[item.id]
    BY <1>1, <2>1, StateFields DEF Keyed
  <2> QED
    BY <2>2 DEF SlotOf
<1>3. \/ slots' = slots /\ wire' = wire
      \/ slots' = items /\ wire' \in {wire, EmitItem(wire, item, index)}
  <2> DEFINE at == IF item.id \in DOMAIN keys THEN keys[item.id] ELSE SlotOf(k)
  <2>1. \/ slots' = slots /\ wire' = wire
        \/ slots' = Put(item, at) /\ wire' = wire
        \/ slots' = Put(item, SlotOf(k)) /\ wire' \in {wire, EmitItem(wire, item, at)}
    BY DEF AbsorbItem, Store
  <2>2. at = index
    BY <1>2
  <2> HIDE DEF at
  <2> QED
    BY <2>1, <2>2 DEF Put, PutAt
<1> HIDE DEF k
<1>4. /\ Placed(items, wire.announced) /\ index \in Nat /\ item \in Items
      /\ Placed(items, wire.announced \cup {[id |-> item.id, index |-> index]})
  BY <1>1, PlacesStill
<1> HIDE DEF item, index, items
<1>5. wire \in Wires
  BY StateFields
<1>6. Placed(slots', wire'.announced)
  BY <1>1, <1>3, <1>4, <1>5, AnnouncedEffect DEF PlacesStand
<1> QED
  BY <1>6 DEF PlacesStand

\* A response that is shown at once is announced where it stands.
LEMMA StructuredPlaces ==
  ASSUME IInv, pc # "end", StructuredReturned
  PROVE  \A place \in wire'.announced :
           place.index < Len(wire'.output) /\ wire'.output[place.index + 1].id = place.id
<1>1. PICK output \in Seq(Items) : wire' = Completed(EmitItems(wire, output), output)
  BY DEF StructuredReturned
<1>2. wire \in Wires /\ wire.announced = {}
  BY StateFields DEF StructuredReturned, IInv, StructuredQuiet
<1> DEFINE place(k) == [id |-> output[k].id, index |-> k - 1]
           n == Len(output)
           places == {place(k) : k \in 1..n}
<1>3. EmitItems(wire, output) \in Wires
  BY <1>2, EmitItemsEffect
<1>4. EmitItems(wire, output).announced = places
  BY <1>2 DEF EmitItems, Wires
<1>5. wire'.announced = places /\ wire'.output = output
  <2> HIDE DEF places
  <2> QED
    BY <1>1, <1>3, <1>4, CompletedEffect
<1>6. n \in Nat
  OBVIOUS
<1>7. \A k \in 1..n : place(k).index < n /\ output[place(k).index + 1].id = place(k).id
  BY <1>6
<1> HIDE DEF place
<1> QED
  BY <1>5, <1>7

LEMMA EndingPlaces ==
  ASSUME IInv, PlacesStand, Ending
  PROVE  AnnouncedStands'
<1>0. /\ pc # "end" /\ End
      /\ GivenUp \/ SlotsReturned \/ ResultReturned \/ WholeReturned \/ StructuredReturned
  BY EndingEffect
<1>1. CASE GivenUp
  BY <1>0, <1>1, NothingCompleted DEF GivenUp, AnnouncedStands, HasCompleted
<1>2. CASE SlotsReturned
  BY <1>0, <1>2, SlotsOnWire DEF PlacesStand, Placed, AnnouncedStands
<1>3. CASE ResultReturned
  <2>1. /\ mode = "protocol" /\ Verdict(round.output) = "ended"
        /\ ~ShownAlone(TaskResult(round.output))
        /\ mode' = mode /\ round' = round /\ slots' = slots
    BY <1>0, <1>3 DEF ResultReturned, Judged, End
  <2>2. Verdict(round.output)' = Verdict(round.output)
    BY <2>1 DEF Verdict
  <2>3. ShownAlone(TaskResult(round.output))' = ShownAlone(TaskResult(round.output))
    BY <2>1 DEF ShownAlone
  <2> QED
    BY <2>1, <2>2, <2>3 DEF AnnouncedStands, ResultReplaces
<1>4. CASE WholeReturned
  BY <1>0, <1>4 DEF WholeReturned, End, AnnouncedStands
<1>5. CASE StructuredReturned
  BY <1>0, <1>5, StructuredPlaces DEF AnnouncedStands
<1> QED
  BY <1>0, <1>1, <1>2, <1>3, <1>4, <1>5

Announced == PlacesStand /\ AnnouncedStands

LEMMA RunningAnnounced == IInv /\ pc # "end" => AnnouncedStands
BY NothingCompleted DEF AnnouncedStands

LEMMA StillRunningAnnounced == (IInv /\ pc # "end" => AnnouncedStands)'
BY RunningAnnounced, PTL

LEMMA StepAnnounced == IInv /\ Announced /\ [Next]_vars => Announced'
<1> SUFFICES ASSUME IInv, Announced, [Next]_vars PROVE Announced'
  OBVIOUS
<1>1. CASE UNCHANGED vars
  <2>1. UNCHANGED <<mode, streamed, pc, round, slots, wire>>
    BY <1>1 DEF vars
  <2>2. AnnouncedStands' = AnnouncedStands
    BY <2>1 DEF AnnouncedStands, HasCompleted, ResultReplaces, Verdict, ShownAlone
  <2> QED
    BY <2>1, <2>2 DEF Announced, PlacesStand, Placed
<1>2. CASE Ending
  <2>1. pc' = "end"
    BY <1>2, EndingEffect DEF End
  <2> QED
    BY <1>2, <2>1, EndingPlaces DEF Announced, PlacesStand
<1>3. CASE ~Ending /\ ~UNCHANGED vars
  <2>1. pc' # "end"
    BY <1>3, Enders
  <2>2. AnnouncedStands'
    <3>1. IInv'
      BY StepIInv
    <3> QED
      BY <2>1, <3>1, StillRunningAnnounced
  <2>3. PlacesStand'
    <3>1. CASE \/ Cancel \/ Open \/ AskRepair \/ ResponseCompleted \/ WholeAnswer
               \/ FollowUp \/ TaskProtocolRetry \/ TaskProtocolRetryWhole \/ UpstreamFailed
      <4>1. pc # "end" /\ slots' = slots /\ wire' \in {wire, Terminate(wire, "failed")}
        <5>1. CASE Cancel \/ Open \/ AskRepair \/ ResponseCompleted \/ WholeAnswer
          BY <5>1 DEF Cancel, Open, AskRepair, ResponseCompleted, WholeAnswer, Judged
        <5>2. CASE FollowUp \/ TaskProtocolRetry \/ TaskProtocolRetryWhole
          BY <5>2 DEF FollowUp, TaskProtocolRetry, TaskProtocolRetryWhole, Ask, Judged
        <5>3. CASE UpstreamFailed
          BY <5>3 DEF UpstreamFailed
        <5> QED
          BY <3>1, <5>1, <5>2, <5>3
      <4>2. wire'.announced = wire.announced
        BY <4>1, StateFields, TerminateEffect
      <4> QED
        BY <4>1, <4>2 DEF Announced, PlacesStand, Placed
    <3>2. CASE DoneItem \/ AbsorbItem
      BY <3>2, DonePlaces, AbsorbPlaces DEF Announced
    <3>3. ASSUME NEW kind \in Kinds, NEW text \in TextsOf(kind), NEW first \in FirstEvents(kind),
                 ItemOpens(kind, text, first)
          PROVE  PlacesStand'
      BY <3>3, OpensPlaces DEF Announced
    <3> QED
      BY <1>3, <3>1, <3>2, <3>3, Steps
  <2> QED
    BY <2>2, <2>3 DEF Announced
<1> QED
  BY <1>1, <1>2, <1>3

LEMMA AnnouncedHolds == Spec => []Announced
<1>1. Init => Announced
  BY DEF Init, Announced, PlacesStand, Placed, AnnouncedStands, HasCompleted
<1> QED
  BY <1>1, IInvHolds, StepAnnounced, PTL DEF Spec

\* Whatever events upstream left out, what was announced to Codex and what it
\* was shown as finished stands in the completed response at the index it was
\* shown at, and when upstream left out none the response is exactly what was
\* finished (reserveItem, storeItem, absorbCompletedResponse), unless the task's
\* result is returned in its place.
THEOREM StreamMatches == Spec => []StreamMatchesOutput
<1>1. Shown /\ Announced => StreamMatchesOutput
  BY DEF Shown, Announced, FinishedStands, AnnouncedStands, StreamMatchesOutput
<1> QED
  BY <1>1, ShownHolds, AnnouncedHolds, PTL

-----------------------------------------------------------------------------
(* The turn implements its contract, streamed or not                       *)

ContractStep ==
  [IF streamed THEN Contract!ContractNext ELSE WholeContract!ContractNext
  ]_<<Phase, Answer, sequence, taskProtocolRetries>>

LEMMA RunningAnswer ==
  ASSUME pc # "end"
  PROVE  /\ Phase = "running"
         /\ pc \notin {"decide", "repair"} => Answer = "pending"
         /\ pc \in {"decide", "repair"} =>
              Answer = IF NeedsFollowUp(round.output) THEN "work" ELSE Verdict(round.output)
         /\ pc = "repair" /\ mode # "protocol" => Answer = "work"
BY DEF Phase, Answer, Verdict

\* A step within the turn that ends no response.
LEMMA QuietContract ==
  ASSUME pc # "end", pc' # "end",
         UNCHANGED <<sequence, taskProtocolRetries>>,
         \/ pc \notin {"decide", "repair"} /\ pc' \notin {"decide", "repair"}
         \/ /\ pc \in {"decide", "repair"} /\ pc' \in {"decide", "repair"}
            /\ mode' = mode /\ round'.output = round.output
  PROVE  ContractStep
<1>1. Phase = "running" /\ Phase' = "running"
  BY DEF Phase
<1>2. Answer' = Answer
  BY DEF Answer, Phase, Verdict
<1> QED
  BY <1>1, <1>2 DEF ContractStep

\* The upstream answer is complete.
LEMMA JudgeContract ==
  ASSUME pc \notin {"decide", "repair", "end"}, pc' = "decide",
         UNCHANGED <<streamed, sequence, taskProtocolRetries>>
  PROVE  ContractStep
<1>1. Phase = "running" /\ Phase' = "running" /\ Answer = "pending"
  BY DEF Phase, Answer
<1>2. Answer' \in {"violation", "work", "ended"}
  BY DEF Answer, Phase, Verdict
<1>3. UNCHANGED <<sequence - taskProtocolRetries, taskProtocolRetries>>
  OBVIOUS
<1>4. Contract!ContractNext
  BY <1>1, <1>2, <1>3 DEF Contract!ContractNext, Contract!Judge, Contract!Verdicts
<1>5. WholeContract!ContractNext
  BY <1>1, <1>2, <1>3 DEF WholeContract!ContractNext, WholeContract!Judge, WholeContract!Verdicts
<1> QED
  BY <1>4, <1>5 DEF ContractStep

\* The model is asked again, by a follow-up or a correction.
LEMMA FollowUpContract ==
  ASSUME IInv, FollowUp
  PROVE  ContractStep
<1>1. /\ sequence \in Nat /\ taskProtocolRetries \in Nat /\ followUps \in Nat
      /\ MaxInternalToolRounds \in Nat /\ MaxTaskProtocolRetries \in Nat
      /\ taskProtocolRetries <= MaxTaskProtocolRetries
  BY ProjectedConstants DEF IInv, TypeOK, Control
<1>2. /\ pc = "decide" /\ NeedsFollowUp(round.output) /\ pc' = "open" /\ sequence' = sequence + 1
      /\ taskProtocolRetries' = taskProtocolRetries
      /\ streamed => sequence < MaxInternalToolRounds
      /\ ~streamed => followUps < MaxInternalToolRounds
  BY DEF FollowUp, Ask, roundsUsed
<1>3. Phase = "running" /\ Answer = "work" /\ Phase' = "running" /\ Answer' = "pending"
  BY <1>2 DEF Phase, Answer
<1>4. sequence' - taskProtocolRetries' = (sequence - taskProtocolRetries) + 1
  BY <1>1, <1>2
<1>5. CASE streamed
  <2>1. sequence - taskProtocolRetries < MaxInternalToolRounds
    BY <1>1, <1>2, <1>5
  <2> QED
    BY <1>2, <1>3, <1>4, <1>5, <2>1 DEF ContractStep, Contract!ContractNext, Contract!FollowUp
<1>6. CASE ~streamed
  <2>1. sequence - taskProtocolRetries <= MaxInternalToolRounds * taskProtocolRetries + followUps
    BY <1>6 DEF IInv, Counted
  <2>2. /\ MaxInternalToolRounds * taskProtocolRetries \in Nat
        /\ MaxInternalToolRounds * MaxTaskProtocolRetries \in Nat
        /\ MaxInternalToolRounds * taskProtocolRetries <= MaxInternalToolRounds * MaxTaskProtocolRetries
        /\ MaxInternalToolRounds * (MaxTaskProtocolRetries + 1) =
             MaxInternalToolRounds * MaxTaskProtocolRetries + MaxInternalToolRounds
    BY <1>1, Products
  <2>3. sequence - taskProtocolRetries < MaxInternalToolRounds * (MaxTaskProtocolRetries + 1)
    BY <1>1, <1>2, <1>6, <2>1, <2>2
  <2> QED
    BY <1>2, <1>3, <1>4, <1>6, <2>3
    DEF ContractStep, WholeContract!ContractNext, WholeContract!FollowUp
<1> QED
  BY <1>5, <1>6

LEMMA CorrectContract ==
  ASSUME IInv, TaskProtocolRetry \/ TaskProtocolRetryWhole
  PROVE  ContractStep
<1>1. sequence \in Nat /\ taskProtocolRetries \in Nat
  BY DEF IInv, TypeOK
<1>2. /\ pc = "decide" /\ ~NeedsFollowUp(round.output) /\ Verdict(round.output) = "violation"
      /\ pc' = "open" /\ sequence' = sequence + 1
      /\ taskProtocolRetries' = taskProtocolRetries + 1
      /\ taskProtocolRetries < MaxTaskProtocolRetries
  BY DEF TaskProtocolRetry, TaskProtocolRetryWhole, Judged, Ask
<1>3. Phase = "running" /\ Answer = "violation" /\ Phase' = "running" /\ Answer' = "pending"
  BY <1>2 DEF Phase, Answer
<1>4. sequence' - taskProtocolRetries' = sequence - taskProtocolRetries
  BY <1>1, <1>2
<1>5. Contract!ContractNext
  BY <1>2, <1>3, <1>4 DEF Contract!ContractNext, Contract!Correct
<1>6. WholeContract!ContractNext
  BY <1>2, <1>3, <1>4 DEF WholeContract!ContractNext, WholeContract!Correct
<1> QED
  BY <1>5, <1>6 DEF ContractStep

\* The turn ends: completed on an answer that keeps the protocol, or given up.
LEMMA EndingContract ==
  ASSUME IInv, Ending
  PROVE  ContractStep
<1>0. /\ pc # "end" /\ End /\ pc' = "end"
      /\ UNCHANGED <<mode, streamed, round, sequence, taskProtocolRetries>>
      /\ GivenUp \/ SlotsReturned \/ ResultReturned \/ WholeReturned \/ StructuredReturned
  BY EndingEffect DEF End
<1>1. Phase = "running"
  BY <1>0, RunningAnswer
<1>2. UNCHANGED <<sequence - taskProtocolRetries, taskProtocolRetries>>
  BY <1>0
<1>3. CASE GivenUp
  <2>1. wire'.terminals = <<>> \/ wire'.terminals[Len(wire'.terminals)] = "failed"
    <3> DEFINE t == wire.terminals
    <3>1. t \in Seq({"completed", "failed"}) /\ (t = <<>> \/ t[Len(t)] = "failed")
      BY <1>0, StateFields, WireFields, NothingCompleted
    <3>2. wire'.terminals \in {t, Append(t, "failed")}
      BY <1>3 DEF GivenUp
    <3> HIDE DEF t
    <3>3. Append(t, "failed")[Len(Append(t, "failed"))] = "failed"
      BY <3>1
    <3> QED
      BY <3>1, <3>2, <3>3
  <2>2. Phase' \in {"failed", "dropped"}
    BY <1>0, <2>1 DEF Phase
  <2>3. Answer' = "pending"
    BY <1>0, <2>2 DEF Answer
  <2>4. Contract!ContractNext
    BY <1>1, <1>2, <2>2, <2>3 DEF Contract!ContractNext, Contract!Abandon
  <2>5. WholeContract!ContractNext
    BY <1>1, <1>2, <2>2, <2>3 DEF WholeContract!ContractNext, WholeContract!Abandon
  <2> QED
    BY <2>4, <2>5 DEF ContractStep
<1>4. CASE SlotsReturned \/ ResultReturned \/ WholeReturned \/ StructuredReturned
  <2>1. wire'.terminals = <<"completed">>
    BY <1>0, <1>4, SlotsOnWire, ResultOnWire, WholeOnWire, StructuredOnWire
  <2>2. Judged("work") \/ Judged("ended") \/ pc = "repair"
    BY <1>4 DEF SlotsReturned, ResultReturned, WholeReturned, StructuredReturned
  <2>3. pc \in {"decide", "repair"} /\ Answer \in {"work", "ended"}
    <3>1. pc = "repair" => mode # "protocol"
      BY DEF IInv, Control
    <3> QED
      BY <1>0, <2>2, <3>1, RunningAnswer DEF Judged
  <2>4. Phase' = "completed"
    BY <1>0, <2>1 DEF Phase
  <2>5. Answer' = Answer
    BY <1>0, <2>3, <2>4 DEF Answer, Verdict
  <2>6. Contract!ContractNext
    BY <1>1, <1>2, <2>3, <2>4, <2>5 DEF Contract!ContractNext, Contract!Complete
  <2>7. WholeContract!ContractNext
    BY <1>1, <1>2, <2>3, <2>4, <2>5 DEF WholeContract!ContractNext, WholeContract!Complete
  <2> QED
    BY <2>6, <2>7 DEF ContractStep
<1> QED
  BY <1>0, <1>3, <1>4

LEMMA StepContract == IInv /\ [Next]_vars => ContractStep
<1> SUFFICES ASSUME IInv, [Next]_vars PROVE ContractStep
  OBVIOUS
<1>1. CASE UNCHANGED vars
  <2>1. UNCHANGED <<mode, pc, round, sequence, taskProtocolRetries, wire>>
    BY <1>1 DEF vars
  <2>2. Phase' = Phase
    BY <2>1 DEF Phase
  <2>3. Answer' = Answer
    BY <2>1, <2>2 DEF Answer, Verdict
  <2> QED
    BY <2>1, <2>2, <2>3 DEF ContractStep
<1>2. CASE Cancel
  BY <1>2, QuietContract DEF Cancel
<1>3. CASE Open
  BY <1>3, QuietContract DEF Open
<1>4. CASE AskRepair
  BY <1>4, QuietContract DEF AskRepair, Judged
<1>5. CASE ResponseCompleted
  BY <1>5, QuietContract, JudgeContract DEF ResponseCompleted
<1>6. CASE UpstreamFailed
  <2>1. round'.output = round.output
    BY <1>6 DEF UpstreamFailed, IInv, TypeOK, Rounds
  <2> QED
    BY <1>6, <2>1, QuietContract DEF UpstreamFailed
<1>7. ASSUME NEW kind, NEW text, NEW first, ItemOpens(kind, text, first) PROVE ContractStep
  <2>1. pc = "stream" /\ UNCHANGED <<pc, sequence, taskProtocolRetries>>
    BY <1>7 DEF ItemOpens
  <2> QED
    BY <2>1, QuietContract
<1>8. CASE DoneItem
  <2>1. pc = "stream" /\ UNCHANGED <<pc, sequence, taskProtocolRetries>>
    BY <1>8 DEF DoneItem
  <2> QED
    BY <2>1, QuietContract
<1>9. CASE AbsorbItem
  <2>1. pc = "absorb" /\ pc' \in {"absorb", "decide"}
        /\ UNCHANGED <<streamed, sequence, taskProtocolRetries>>
    BY <1>9 DEF AbsorbItem
  <2> QED
    BY <2>1, QuietContract, JudgeContract
<1>10. CASE WholeAnswer
  BY <1>10, JudgeContract DEF WholeAnswer
<1> QED
  BY <1>1, <1>2, <1>3, <1>4, <1>5, <1>6, <1>7, <1>8, <1>9, <1>10, Steps,
     FollowUpContract, CorrectContract, EndingContract

\* Streamed or not, a turn is a TurnContract: corrections and follow-ups within
\* their limits, no completion on an answer that broke the protocol, one
\* conclusion (streamProjectedResponses, forwardProjectedResponses).
THEOREM KeepsTheContract == Spec => KeepsContract
<1>1. Init => Contract!ContractInit
  BY DEF Init, Contract!ContractInit, Phase, Answer
<1>2. IInv /\ [Next]_vars => ContractStep
  BY StepContract
<1> QED
  BY <1>1, <1>2, IInvHolds, PTL DEF Spec, KeepsContract, ContractStep

-----------------------------------------------------------------------------
(* The narrative of a hidden correction                                    *)

\* What one step may show during a correction.
NarrativeStep ==
  InCorrection /\ omissions' = 0 =>
    \A k \in (Len(wire.finished) + 1)..Len(wire'.finished) :
      wire'.finished[k].item.kind = "message" =>
        Judged("ended") /\ wire'.terminals = <<"completed">>

LEMMA NothingShown ==
  ASSUME IInv, wire'.finished = wire.finished
  PROVE  NarrativeStep
<1>1. Len(wire.finished) \in Nat
  BY StateFields
<1>2. (Len(wire.finished) + 1)..Len(wire'.finished) = {}
  BY <1>1
<1> QED
  BY <1>2 DEF NarrativeStep

\* One more item is shown, which is no message.
LEMMA CallShown ==
  ASSUME IInv, NEW item, NEW index,
         wire'.finished = Append(wire.finished, [item |-> item, index |-> index]),
         item \in Items, index \in Nat,
         InCorrection /\ omissions' = 0 => item.kind # "message"
  PROVE  NarrativeStep
<1> DEFINE event == [item |-> item, index |-> index]
<1>1. wire.finished \in Seq(Finished) /\ Len(wire.finished) \in Nat /\ event \in Finished
      /\ event.item = item
  BY StateFields DEF Finished
<1> HIDE DEF event
<1>2. wire'.finished = Append(wire.finished, event)
  BY DEF event
<1>3. \A k \in (Len(wire.finished) + 1)..Len(wire'.finished) : wire'.finished[k] = event
  BY <1>1, <1>2
<1> QED
  BY <1>1, <1>3 DEF NarrativeStep

\* A correction that is streamed hides its narrative.
LEMMA CorrectionHides ==
  ASSUME IInv, InCorrection
  PROVE  /\ mode = "protocol"
         /\ streamed => round.hideNarrative
<1>1. sequence \in Nat
  BY StateFields
<1> QED
  BY <1>1 DEF IInv, Control, InCorrection

LEMMA DoneNarrative ==
  ASSUME IInv, DoneItem
  PROVE  NarrativeStep
<1> DEFINE k == Len(round.output)
           item == round.output[k]
           index == SlotOf(k)
           hide == k \in round.hidden \/ item.kind \in InternalKinds
<1>1. /\ pc = "stream" /\ round.open /\ omissions' = omissions
      /\ hide \/ ~emitOutput => wire' = wire
      /\ ~hide /\ emitOutput /\ item.kind = "work" => wire' = EmitItem(wire, item, index)
      /\ ~hide /\ emitOutput /\ item.kind # "work" => wire' = Finish(wire, item, index)
  BY DEF DoneItem
<1>2. k \in 1..Len(round.output) /\ item \in Items /\ index \in Nat /\ wire \in Wires
  <2>1. k \in Nat /\ k > 0 /\ round.output \in Seq(Items) /\ Len(slots) \in Nat
    BY <1>1, StateFields DEF IInv, OutputGood
  <2>2. index \in Nat
    BY <2>1, StateFields DEF SlotOf
  <2> QED
    BY <2>1, <2>2, StateFields
<1>3. ASSUME ~hide, InCorrection, omissions' = 0
      PROVE  item.kind # "message"
  <2>1. streamed /\ round.hideNarrative
    BY <1>1, <1>3, CorrectionHides DEF IInv, Control
  <2> QED
    BY <1>1, <1>2, <1>3, <2>1 DEF IInv, Tracked
<1> HIDE DEF k, item, index
<1>4. CASE hide \/ ~emitOutput
  BY <1>1, <1>4, NothingShown
<1>5. CASE ~hide /\ emitOutput
  <2>1. wire'.finished = Append(wire.finished, [item |-> item, index |-> index])
    BY <1>1, <1>2, <1>5, EmitItemEffect, FinishEffect
  <2> QED
    BY <1>2, <1>3, <1>5, <2>1, CallShown
<1> QED
  BY <1>4, <1>5

LEMMA AbsorbNarrative ==
  ASSUME IInv, AbsorbItem
  PROVE  NarrativeStep
<1> DEFINE k == round.cursor
           item == round.output[k]
           known == item.id \in DOMAIN keys \/ k \in DOMAIN round.indexes
           skip == \/ k \in round.hidden \/ item.kind \in InternalKinds
                   \/ round.hideNarrative /\ item.kind = "message"
           index == IF item.id \in DOMAIN keys THEN keys[item.id] ELSE SlotOf(k)
<1>1. /\ pc = "absorb" /\ omissions' = omissions
      /\ skip \/ known \/ ~emitOutput => wire' = wire
      /\ ~skip /\ ~known /\ emitOutput => wire' = EmitItem(wire, item, index)
  BY DEF AbsorbItem
<1>2. k \in 1..Len(round.output) /\ item \in Items /\ wire \in Wires
  <2>1. k \in 1..(MaxItems + 1) /\ MaxItems \in Nat /\ k <= Len(round.output)
        /\ Len(round.output) \in Nat /\ round.output \in Seq(Items)
    BY <1>1, StateFields, ProjectedConstants DEF IInv, Control
  <2> QED
    BY <2>1, StateFields
<1>3. ~known => index \in Nat
  BY StateFields DEF SlotOf
<1>4. ASSUME ~skip, InCorrection
      PROVE  item.kind # "message"
  <2>1. streamed /\ round.hideNarrative
    BY <1>1, <1>4, CorrectionHides DEF IInv, Control
  <2> QED
    BY <1>4, <2>1
<1> HIDE DEF k, item, index, known, skip
<1>5. CASE skip \/ known \/ ~emitOutput
  BY <1>1, <1>5, NothingShown
<1>6. CASE ~skip /\ ~known /\ emitOutput
  <2>1. wire'.finished = Append(wire.finished, [item |-> item, index |-> index])
    BY <1>1, <1>2, <1>3, <1>6, EmitItemEffect
  <2> QED
    BY <1>2, <1>3, <1>4, <1>6, <2>1, CallShown
<1> QED
  BY <1>5, <1>6

LEMMA EndingNarrative ==
  ASSUME IInv, Ending
  PROVE  NarrativeStep
<1>0. /\ pc # "end"
      /\ GivenUp \/ SlotsReturned \/ ResultReturned \/ WholeReturned \/ StructuredReturned
  BY EndingEffect
<1>1. CASE GivenUp \/ SlotsReturned
  BY <1>1, NothingShown, SlotsOnWire DEF GivenUp
<1>2. CASE ResultReturned
  BY <1>2, ResultOnWire DEF ResultReturned, NarrativeStep
<1>3. CASE WholeReturned
  <2>1. wire.finished = <<>>
    BY <1>3 DEF WholeReturned, IInv, WholeQuiet
  <2> QED
    BY <1>0, <1>3, <2>1, WholeOnWire, NothingShown
<1>4. CASE StructuredReturned
  BY <1>4, CorrectionHides DEF StructuredReturned, NarrativeStep
<1> QED
  BY <1>0, <1>1, <1>2, <1>3, <1>4

LEMMA StepNarrative == IInv /\ [Next]_vars => NarrativeStep
<1> SUFFICES ASSUME IInv, [Next]_vars PROVE NarrativeStep
  OBVIOUS
<1>1. CASE \/ UNCHANGED vars \/ Cancel \/ Open \/ AskRepair \/ ResponseCompleted \/ WholeAnswer
           \/ FollowUp \/ TaskProtocolRetry \/ TaskProtocolRetryWhole
  <2>1. wire' = wire
    BY <1>1 DEF vars, Cancel, Open, AskRepair, ResponseCompleted, WholeAnswer, FollowUp,
                TaskProtocolRetry, TaskProtocolRetryWhole, Ask
  <2> QED
    BY <2>1, NothingShown
<1>2. CASE UpstreamFailed
  BY <1>2, StateFields, TerminateEffect, NothingShown DEF UpstreamFailed
<1>3. ASSUME NEW kind \in Kinds, NEW text \in TextsOf(kind), NEW first \in FirstEvents(kind),
             ItemOpens(kind, text, first)
      PROVE  NarrativeStep
  <2> DEFINE id == Item([round |-> sequence, k |-> Len(round.output) + 1], kind, text).id
  <2>1. wire' \in {wire, Announce(wire, id, Len(slots))}
    BY <1>3 DEF ItemOpens
  <2>2. id \in Ids /\ Len(slots) \in Nat /\ wire \in Wires
    BY StateFields DEF Item, Ids
  <2> HIDE DEF id
  <2>3. wire'.finished = wire.finished
    BY <2>1, <2>2, AnnounceEffect
  <2> QED
    BY <2>3, NothingShown
<1> QED
  BY <1>1, <1>2, <1>3, Steps, DoneNarrative, AbsorbNarrative, EndingNarrative

\* While upstream leaves out no events, what the model says in a correction is
\* not shown, only the result that ends the turn is (hideNarrative, handleEvent, absorbCompletedResponse).
THEOREM NarrativeIsHidden == Spec => NarrativeHidden
<1>1. IInv /\ [Next]_vars => NarrativeStep
  BY StepNarrative
<1> QED
  BY <1>1, IInvHolds, PTL DEF Spec, NarrativeHidden, NarrativeStep
=============================================================================
