----------------------------- MODULE ModelSlots -----------------------------
(***************************************************************************)
(* The compatibility slots of Codex that discovered upstream models get    *)
(* (internal/config/model_discovery_state.go, discoverModels in            *)
(* cmd/codex-bridge/main.go): at every start the assignments are loaded,   *)
(* the providers are asked for their models, and one provider after the    *)
(* other gets its models into cfg.Models, old assignments first.           *)
(*                                                                         *)
(* A model is its provider and upstream id; what else cfg.Models says of   *)
(* it is left out.  The lock of the state file is modelled in StateFile.   *)
(***************************************************************************)
EXTENDS Integers, Sequences, SequencesExt

CONSTANTS
  Providers,      \* the providers, in the order they are asked
  ModelIDs,       \* upstream ids, in the order of normalizedModelIDs
  Slots,          \* desktopModelSlots
  Preferred,      \* DesktopModelSlug: the slot an id asks for, or NoSlot
  HandWritten,    \* the [models.*] of the configuration: slot to model
  MaxStarts       \* bound: starts of the bridge

NoSlot == "none"
ProviderSet == ToSet(Providers)
IDs == ToSet(ModelIDs)
SlotSet == ToSet(Slots)
Models == [provider : ProviderSet, id : IDs]
Model(p, id) == [provider |-> p, id |-> id]
NoModel == [provider |-> NoSlot, id |-> NoSlot]

ASSUME ModelSlotsConstants ==
  /\ MaxStarts \in Nat
  /\ Preferred \in [IDs -> SlotSet \cup {NoSlot}]
  /\ HandWritten \in [SlotSet -> Models \cup {NoModel}]
  /\ Slots \in Seq(SlotSet) /\ IsInjective(Slots)
  /\ ModelIDs \in Seq(IDs) /\ IsInjective(ModelIDs)
  /\ Providers \in Seq(ProviderSet) /\ IsInjective(Providers)

VARIABLES
  mode,         \* cfg.ModelDiscovery.Mode, "merge" or "upstream"
  pc,           \* "down", "discover" or "serve"
  file,         \* model-slots.json: by provider and id, a slot or NoSlot
  loaded,       \* history: the file when the bridge started
  assignments,  \* cfg.discoveryAssignments
  models,       \* cfg.Models
  lists,        \* what the providers answered
  next,         \* position of the next provider in Providers
  starts

vars == <<mode, pc, file, loaded, assignments, models, lists, next, starts>>

Assignments == [ProviderSet -> [IDs -> SlotSet \cup {NoSlot}]]
NoAssignments == [p \in ProviderSet |-> [id \in IDs |-> NoSlot]]

\* An answer of /models: whether it came, and the ids it lists.
Answers == [ok : BOOLEAN, ids : SUBSET IDs]
NoAnswer == [ok |-> FALSE, ids |-> {}]

TypeOK ==
  /\ mode \in {"merge", "upstream"}
  /\ pc \in {"down", "discover", "serve"}
  /\ file \in Assignments /\ loaded \in Assignments /\ assignments \in Assignments
  /\ models \in [SlotSet -> Models \cup {NoModel}]
  /\ lists \in [ProviderSet -> Answers]
  /\ next \in 1..(Len(Providers) + 1)
  /\ starts \in 0..MaxStarts

-----------------------------------------------------------------------------
(* AddDiscoveredModelsReport                                               *)

\* Mutant: the assignments of the last start are forgotten.
RestoreNone(p, st, id) == st

\* The first loop: an id gets the slot it had, if no other model has it.
Restore(p, st, id) ==
  LET slug == assignments[p][id] IN
  IF slug = NoSlot \/ st.models[slug] \notin {NoModel, Model(p, id)} THEN st
  ELSE [st EXCEPT !.models[slug] = Model(p, id), !.given[id] = slug]

\* The scan for a free slot goes on where it stopped for the last id.
FreeSlots(st) == {j \in st.scanned + 1 .. Len(Slots) : st.models[Slots[j]] = NoModel}

\* The second loop: the preferred slot, unless a model of another id has it, or
\* else the next free one.  A slot that the same id of another provider has is
\* refused in the merge mode only.
Place(p, st, id) ==
  LET wanted == Preferred[id]
      usable == wanted # NoSlot /\ (st.models[wanted] = NoModel \/ st.models[wanted].id = id)
      free == FreeSlots(st)
      j == CHOOSE i \in free : \A k \in free : i <= k
      fill(slug) == [st EXCEPT !.models[slug] = Model(p, id), !.given[id] = slug]
  IN CASE st.given[id] # NoSlot -> st
       [] st.given[id] = NoSlot /\ usable ->
            IF mode = "upstream" \/ st.models[wanted] \in {NoModel, Model(p, id)}
            THEN fill(wanted) ELSE st
       [] st.given[id] = NoSlot /\ ~usable ->
            IF free = {} THEN [st EXCEPT !.scanned = Len(Slots)]
            ELSE [fill(Slots[j]) EXCEPT !.scanned = j]

\* The first loop over the ids that a provider lists.
Restored(p, ids) ==
  LET after[n \in 0..Len(ModelIDs)] ==
        IF n = 0 THEN [models |-> models, given |-> [id \in IDs |-> NoSlot], scanned |-> 0]
        ELSE IF ModelIDs[n] \in ids THEN Restore(p, after[n - 1], ModelIDs[n]) ELSE after[n - 1]
  IN after[Len(ModelIDs)]

\* The models and the assignments of a provider: the second loop after the first.
Discovered(p, ids) ==
  LET after[n \in 0..Len(ModelIDs)] ==
        IF n = 0 THEN Restored(p, ids)
        ELSE IF ModelIDs[n] \in ids THEN Place(p, after[n - 1], ModelIDs[n]) ELSE after[n - 1]
  IN after[Len(ModelIDs)]

-----------------------------------------------------------------------------
(* A start of the bridge                                                   *)

Init ==
  /\ mode \in {"merge", "upstream"}
  /\ pc = "down"
  /\ file = NoAssignments /\ loaded = NoAssignments /\ assignments = NoAssignments
  /\ models = HandWritten
  /\ lists = [p \in ProviderSet |-> NoAnswer]
  /\ next = 1
  /\ starts = 0

\* The configuration and the state are loaded, the providers have answered;
\* PrepareModelDiscovery drops the hand-written models in the upstream mode.
Start(answers) ==
  /\ pc = "down" /\ starts < MaxStarts
  /\ starts' = starts + 1
  /\ lists' = answers
  /\ loaded' = file /\ assignments' = file
  /\ next' = 1
  /\ IF \A p \in ProviderSet : ~answers[p].ok
     THEN pc' = "serve" /\ models' = HandWritten
     ELSE /\ pc' = "discover"
          /\ models' = IF mode = "upstream" THEN [slug \in SlotSet |-> NoModel]
                       ELSE HandWritten
  /\ UNCHANGED <<mode, file>>

\* The next provider's models are added; without any nothing changes.
Discover ==
  /\ pc = "discover" /\ next <= Len(Providers)
  /\ next' = next + 1
  /\ LET p == Providers[next]
         result == Discovered(p, lists[p].ids)
     IN IF ~lists[p].ok \/ lists[p].ids = {} THEN UNCHANGED <<models, assignments>>
        ELSE /\ models' = result.models
             /\ assignments' = [assignments EXCEPT ![p] = result.given]
  /\ UNCHANGED <<mode, pc, file, loaded, lists, starts>>

\* Mutant: the file is replaced by what the providers listed this time.
FinishReplacing(written) ==
  /\ pc = "discover" /\ next > Len(Providers)
  /\ pc' = "serve"
  /\ file' = IF written
             THEN [p \in {q \in ProviderSet : lists[q].ids # {}} |-> assignments[p]]
             ELSE file
  /\ UNCHANGED <<mode, loaded, assignments, models, lists, next, starts>>

\* WriteModelDiscoveryState, or its failure, which is only logged.
Finish(written) ==
  /\ pc = "discover" /\ next > Len(Providers)
  /\ pc' = "serve"
  /\ file' = IF written THEN assignments ELSE file
  /\ UNCHANGED <<mode, loaded, assignments, models, lists, next, starts>>

\* The bridge stops, at any point.
Stop ==
  /\ pc # "down"
  /\ pc' = "down"
  /\ UNCHANGED <<mode, file, loaded, assignments, models, lists, next, starts>>

PossibleAnswers == {NoAnswer} \cup {[ok |-> TRUE, ids |-> ids] : ids \in SUBSET IDs}

Next ==
  \/ \E answers \in [ProviderSet -> PossibleAnswers] : Start(answers)
  \/ Discover
  \/ \E written \in BOOLEAN : Finish(written)
  \/ Stop

Spec == Init /\ [][Next]_vars

-----------------------------------------------------------------------------
(* Properties                                                              *)

\* The providers that have been asked and have answered in this start.
Asked == {Providers[k] : k \in {j \in 1..(next - 1) : lists[Providers[j]].ids # {}}}

\* After a start in which no provider listed a new model, and with a file that
\* gives no slot twice, every model that is still listed has its old slot.
SlotsStable ==
  /\ pc = "serve" /\ Asked # {}
  /\ \A p \in ProviderSet : \A id \in lists[p].ids : loaded[p][id] # NoSlot
  /\ \A p, q \in ProviderSet, id, other \in IDs :
       loaded[p][id] # NoSlot /\ loaded[p][id] = loaded[q][other] => p = q /\ id = other
  => \A p \in Asked : \A id \in lists[p].ids : assignments[p][id] = loaded[p][id]
=============================================================================
