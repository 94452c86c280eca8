-------------------------- MODULE ModelSlotsProofs --------------------------
(* Theorems about ModelSlots, for every number of providers, models, slots  *)
(* and starts.                                                              *)
EXTENDS ModelSlots, DataLemmas

Occupants == Models \cup {NoModel}
States == [models : [SlotSet -> Occupants], given : [IDs -> SlotSet \cup {NoSlot}],
           scanned : 0..Len(Slots)]

-----------------------------------------------------------------------------
(* The inductive invariant                                                 *)

\* In the merge mode a model has a hand-written slot only if it is written there.
Fits(p, given) ==
  mode = "merge" =>
    \A id \in IDs : given[id] # NoSlot => HandWritten[given[id]] \in {NoModel, Model(p, id)}
AllFit(a) == \A p \in ProviderSet : Fits(p, a[p])

\* In the merge mode no slot of the configuration changes hands.
Kept(slots) ==
  mode = "merge" =>
    \A slug \in SlotSet : HandWritten[slug] # NoModel => slots[slug] = HandWritten[slug]
HandWrittenKept == Kept(models)

NothingNew == \A p \in ProviderSet : \A id \in lists[p].ids : loaded[p][id] # NoSlot
Distinct ==
  \A p, q \in ProviderSet, id, other \in IDs :
    loaded[p][id] # NoSlot /\ loaded[p][id] = loaded[q][other] => p = q /\ id = other

\* Who the model of a slot can be when every listed model has its own old slot.
Expected(slug, slots) ==
  \/ slots[slug] = NoModel
  \/ mode = "merge" /\ slots[slug] = HandWritten[slug]
  \/ \E q \in Asked : \E id \in lists[q].ids : slug = loaded[q][id] /\ slots[slug] = Model(q, id)

Stable ==
  pc \in {"discover", "serve"} /\ NothingNew /\ Distinct =>
    \A p \in Asked : \A id \in lists[p].ids : assignments[p][id] = loaded[p][id]
Origins ==
  pc = "discover" /\ NothingNew /\ Distinct =>
    /\ \A p \in ProviderSet \ Asked : assignments[p] = loaded[p]
    /\ \A slug \in SlotSet : Expected(slug, models)

IInv ==
  /\ TypeOK
  /\ AllFit(file) /\ AllFit(loaded) /\ AllFit(assignments) /\ HandWrittenKept
  /\ \A p \in ProviderSet : ~lists[p].ok => lists[p].ids = {}
  /\ Stable /\ Origins

-----------------------------------------------------------------------------
(* One id                                                                  *)

LEMMA Constants ==
  /\ MaxStarts \in Nat
  /\ Preferred \in [IDs -> SlotSet \cup {NoSlot}] /\ HandWritten \in [SlotSet -> Occupants]
  /\ Len(Slots) \in Nat /\ Len(ModelIDs) \in Nat /\ Len(Providers) \in Nat
  /\ \A i \in 1..Len(Slots) : Slots[i] \in SlotSet
  /\ IDs = {ModelIDs[i] : i \in 1..Len(ModelIDs)}
  /\ \A i \in 1..Len(Providers) : Providers[i] \in ProviderSet
  /\ \A i, j \in 1..Len(Providers) : Providers[i] = Providers[j] => i = j
<1>1. /\ Slots \in Seq(SlotSet) /\ ModelIDs \in Seq(IDs) /\ Providers \in Seq(ProviderSet)
      /\ IsInjective(Providers)
  BY ModelSlotsConstants
<1>2. /\ DOMAIN ModelIDs = 1..Len(ModelIDs) /\ DOMAIN Providers = 1..Len(Providers)
  BY <1>1
<1>3. IDs = {ModelIDs[i] : i \in 1..Len(ModelIDs)}
  BY <1>2 DEF IDs, ToSet
<1>4. /\ Len(Slots) \in Nat /\ Len(ModelIDs) \in Nat /\ Len(Providers) \in Nat
      /\ \A i \in 1..Len(Slots) : Slots[i] \in SlotSet
      /\ \A i \in 1..Len(Providers) : Providers[i] \in ProviderSet
  BY <1>1
<1>5. \A i, j \in 1..Len(Providers) : Providers[i] = Providers[j] => i = j
  BY <1>1, <1>2 DEF IsInjective
<1>6. /\ MaxStarts \in Nat
      /\ Preferred \in [IDs -> SlotSet \cup {NoSlot}] /\ HandWritten \in [SlotSet -> Occupants]
  BY ModelSlotsConstants DEF Occupants
<1> QED
  BY <1>3, <1>4, <1>5, <1>6

\* A loop's state is good for a provider when it fits and nothing written by
\* hand has been replaced.
Good(p, st) == st \in States /\ Fits(p, st.given) /\ Kept(st.models)

\* Giving a slot that nothing written by hand has.
LEMMA FillKeeps ==
  ASSUME NEW p \in ProviderSet, NEW st, Good(p, st), NEW id \in IDs, NEW slug \in SlotSet,
         mode = "merge" => st.models[slug] \in {NoModel, Model(p, id)}
  PROVE  Good(p, [st EXCEPT !.models[slug] = Model(p, id), !.given[id] = slug])
<1> DEFINE r == [st EXCEPT !.models[slug] = Model(p, id), !.given[id] = slug]
<1>1. /\ st \in States /\ st.models \in [SlotSet -> Occupants]
      /\ st.given \in [IDs -> SlotSet \cup {NoSlot}]
  BY DEF Good, States
<1>2. Model(p, id) \in Occupants
  BY DEF Model, Occupants, Models
<1>3. /\ r.models = [st.models EXCEPT ![slug] = Model(p, id)]
      /\ r.given = [st.given EXCEPT ![id] = slug]
      /\ r \in States
  BY <1>1, <1>2 DEF States
<1> HIDE DEF r
<1>4. mode = "merge" => HandWritten[slug] \in {NoModel, Model(p, id)}
  BY DEF Good, Kept
<1>5. Fits(p, r.given)
  <2> SUFFICES ASSUME mode = "merge", NEW other \in IDs, r.given[other] # NoSlot
               PROVE  HandWritten[r.given[other]] \in {NoModel, Model(p, other)}
    BY DEF Fits
  <2>1. CASE other = id
    BY <1>1, <1>3, <1>4, <2>1
  <2>2. CASE other # id
    BY <1>1, <1>3, <2>2 DEF Good, Fits
  <2> QED
    BY <2>1, <2>2
<1>6. Kept(r.models)
  BY <1>1, <1>3, <1>4 DEF Good, Kept
<1> QED
  BY <1>3, <1>5, <1>6 DEF Good, r

LEMMA RestoreKeeps ==
  ASSUME assignments \in Assignments, NEW p \in ProviderSet, NEW st, Good(p, st), NEW id \in IDs
  PROVE  Good(p, Restore(p, st, id))
<1> DEFINE slug == assignments[p][id]
<1>1. slug \in SlotSet \cup {NoSlot}
  BY DEF Assignments
<1>2. CASE slug = NoSlot \/ st.models[slug] \notin {NoModel, Model(p, id)}
  <2>1. Restore(p, st, id) = st
    BY <1>2 DEF Restore
  <2> QED
    BY <2>1
<1>3. CASE ~(slug = NoSlot \/ st.models[slug] \notin {NoModel, Model(p, id)})
  <2>1. Restore(p, st, id) = [st EXCEPT !.models[slug] = Model(p, id), !.given[id] = slug]
    BY <1>3 DEF Restore
  <2>2. slug \in SlotSet /\ st.models[slug] \in {NoModel, Model(p, id)}
    BY <1>1, <1>3
  <2> DEFINE r == [st EXCEPT !.models[slug] = Model(p, id), !.given[id] = slug]
  <2> HIDE DEF slug
  <2>3. Good(p, r)
    BY <2>2, FillKeeps
  <2> HIDE DEF r
  <2>4. Restore(p, st, id) = r
    BY <2>1 DEF r
  <2> QED
    BY <2>3, <2>4
<1> QED
  BY <1>2, <1>3

LEMMA PlaceKeeps ==
  ASSUME NEW p \in ProviderSet, NEW st, Good(p, st), NEW id \in IDs
  PROVE  /\ Good(p, Place(p, st, id))
         /\ st.given[id] # NoSlot => Place(p, st, id) = st
<1> DEFINE wanted == Preferred[id]
           usable == wanted # NoSlot /\ (st.models[wanted] = NoModel \/ st.models[wanted].id = id)
           free == FreeSlots(st)
           j == CHOOSE i \in free : \A k \in free : i <= k
           fill(slug) == [st EXCEPT !.models[slug] = Model(p, id), !.given[id] = slug]
           r == Place(p, st, id)
<1>1. /\ st \in States /\ st.models \in [SlotSet -> Occupants] /\ st.scanned \in 0..Len(Slots)
      /\ wanted \in SlotSet \cup {NoSlot}
  BY Constants DEF Good, States
<1>2. CASE st.given[id] # NoSlot
  <2>1. r = st
    BY <1>2 DEF Place
  <2> QED
    BY <2>1
<1>3. CASE st.given[id] = NoSlot /\ usable
  <2>1. r = IF mode = "upstream" \/ st.models[wanted] \in {NoModel, Model(p, id)}
            THEN fill(wanted) ELSE st
    BY <1>3 DEF Place
  <2>2. wanted \in SlotSet
    BY <1>1, <1>3
  <2> HIDE DEF wanted
  <2>3. CASE mode = "upstream" \/ st.models[wanted] \in {NoModel, Model(p, id)}
    <3>1. Good(p, fill(wanted))
      BY <2>2, <2>3, FillKeeps
    <3> QED
      BY <1>3, <2>1, <2>3, <3>1
  <2>4. CASE ~(mode = "upstream" \/ st.models[wanted] \in {NoModel, Model(p, id)})
    BY <1>3, <2>1, <2>4
  <2> QED
    BY <2>3, <2>4
<1>4. CASE st.given[id] = NoSlot /\ ~usable
  <2>1. r = IF free = {} THEN [st EXCEPT !.scanned = Len(Slots)]
            ELSE [fill(Slots[j]) EXCEPT !.scanned = j]
    BY <1>4 DEF Place
  <2>2. CASE free = {}
    <3>1. r = [st EXCEPT !.scanned = Len(Slots)]
      BY <2>1, <2>2
    <3>2. r \in States /\ r.models = st.models /\ r.given = st.given
      BY <1>1, <3>1, Constants DEF States
    <3> HIDE DEF r
    <3> QED
      BY <1>4, <3>2 DEF Good, r
  <2>3. CASE free # {}
    <3>1. j \in free
      <4>1. free \in SUBSET Nat
        BY <1>1, Constants DEF FreeSlots
      <4> HIDE DEF free
      <4>2. \E i \in free : \A k \in free : i <= k
        BY <2>3, <4>1, SmallestNat
      <4> QED
        BY <4>2
    <3>2. j \in 1..Len(Slots) /\ st.models[Slots[j]] = NoModel
      BY <1>1, <3>1, Constants DEF FreeSlots
    <3> HIDE DEF j
    <3> DEFINE slug == Slots[j]
               filled == fill(slug)
    <3>3. slug \in SlotSet /\ st.models[slug] = NoModel
      BY <3>2, Constants
    <3>4. r = [filled EXCEPT !.scanned = j]
      BY <2>1, <2>3
    <3> HIDE DEF slug
    <3>5. Good(p, filled)
      BY <3>3, FillKeeps
    <3> HIDE DEF filled
    <3>6. r \in States /\ r.models = filled.models /\ r.given = filled.given
      <4>1. filled \in States /\ j \in 0..Len(Slots)
        BY <3>2, <3>5, Constants DEF Good
      <4> HIDE DEF r
      <4>2. r = [filled EXCEPT !.scanned = j]
        BY <3>4
      <4> QED
        BY <4>1, <4>2 DEF States
    <3> HIDE DEF r
    <3>7. Good(p, r)
      BY <3>5, <3>6 DEF Good
    <3> QED
      BY <1>4, <3>7 DEF r
  <2> QED
    BY <2>2, <2>3
<1> QED
  BY <1>2, <1>3, <1>4

-----------------------------------------------------------------------------
(* The two loops over the ids of a provider                                *)

GoodStates(p) == {st \in States : Good(p, st)}

\* The states of the first loop.
IsRestoring(f, p, ids) ==
  /\ f \in [0..Len(ModelIDs) -> GoodStates(p)]
  /\ f[0] = [models |-> models, given |-> [id \in IDs |-> NoSlot], scanned |-> 0]
  /\ \A n \in 1..Len(ModelIDs) :
       f[n] = IF ModelIDs[n] \in ids THEN Restore(p, f[n - 1], ModelIDs[n]) ELSE f[n - 1]

LEMMA RestoringLoop ==
  ASSUME assignments \in Assignments, models \in [SlotSet -> Occupants], HandWrittenKept,
         NEW p \in ProviderSet, NEW ids
  PROVE  \E f : IsRestoring(f, p, ids) /\ Restored(p, ids) = f[Len(ModelIDs)]
<1> DEFINE N == Len(ModelIDs)
           S == GoodStates(p)
           first == [models |-> models, given |-> [id \in IDs |-> NoSlot], scanned |-> 0]
           next1(n, st) == IF ModelIDs[n] \in ids THEN Restore(p, st, ModelIDs[n]) ELSE st
           step == [a \in (1..N) \X S |-> next1(a[1], a[2])]
           Is(f) == f = [n \in 0..N |-> IF n = 0 THEN first ELSE next1(n, f[n - 1])]
           after == CHOOSE f : Is(f)
<1>1. N \in Nat /\ \A n \in 1..N : ModelIDs[n] \in IDs
  BY Constants
<1>2. first \in S
  <2>1. first \in States /\ first.models = models /\ \A id \in IDs : first.given[id] = NoSlot
    BY Constants DEF States
  <2> HIDE DEF first
  <2> QED
    BY <2>1 DEF GoodStates, Good, Fits, HandWrittenKept
<1>3. \A n \in 1..N : \A st \in S : next1(n, st) \in S
  <2>1. ASSUME NEW n \in 1..N, NEW st \in S PROVE next1(n, st) \in S
    <3> DEFINE id == ModelIDs[n]
    <3>1. id \in IDs /\ Good(p, st)
      BY <1>1 DEF GoodStates
    <3> HIDE DEF id
    <3>2. Good(p, Restore(p, st, id))
      BY <3>1, RestoreKeeps
    <3>3. next1(n, st) = IF id \in ids THEN Restore(p, st, id) ELSE st
      BY DEF id
    <3> HIDE DEF next1
    <3> QED
      BY <3>1, <3>2, <3>3 DEF GoodStates, Good
  <2> QED
    BY <2>1
<1> HIDE DEF next1, first, N, S
<1>4. step \in [(1..N) \X S -> S] /\ \A n \in 1..N, st \in S : step[<<n, st>>] = next1(n, st)
  BY <1>3
<1> HIDE DEF step
<1>5. PICK f : IsLoop(f, S, N, first, step)
  BY <1>1, <1>2, <1>4, LoopExists
<1>6. /\ f \in [0..N -> S] /\ f[0] = first
      /\ \A n \in 1..N : f[n] = next1(n, f[n - 1])
  <2>1. \A n \in 1..N : n - 1 \in 0..N
    BY <1>1
  <2> QED
    BY <1>4, <1>5, <2>1 DEF IsLoop
<1>7. Is(f)
  <2>1. \A n \in 0..N : n = 0 \/ n \in 1..N
    BY <1>1
  <2> QED
    BY <1>6, <2>1
<1>8. Is(after)
  BY <1>7
<1> HIDE DEF after
<1>9. /\ after[0] = first /\ \A n \in 1..N : after[n] = next1(n, after[n - 1])
  BY <1>1, <1>8
<1>10. after \in [0..N -> S]
  <2> DEFINE G == {n \in Nat : n <= N => after[n] \in S}
  <2>1. 0 \in G
    BY <1>2, <1>9
  <2>2. ASSUME NEW n \in Nat, n \in G PROVE n + 1 \in G
    <3> SUFFICES ASSUME n + 1 <= N PROVE after[n + 1] \in S
      OBVIOUS
    <3>1. n + 1 \in 1..N /\ (n + 1) - 1 = n /\ after[n] \in S
      BY <1>1, <2>2
    <3> QED
      BY <1>3, <1>9, <3>1
  <2> HIDE DEF G
  <2>3. Nat \subseteq G
    BY <2>1, <2>2, SetInduction
  <2>4. \A n \in 0..N : after[n] \in S
    BY <1>1, <2>3 DEF G
  <2> QED
    BY <1>8, <2>4
<1>11. Restored(p, ids) = after[N]
  BY DEF Restored, after, next1, first, N
<1>12. IsRestoring(after, p, ids)
  BY <1>9, <1>10 DEF IsRestoring, next1, first, N, S
<1> QED
  BY <1>11, <1>12 DEF N

\* The states of the second loop.
IsPlacing(f, p, ids) ==
  /\ f \in [0..Len(ModelIDs) -> GoodStates(p)]
  /\ f[0] = Restored(p, ids)
  /\ \A n \in 1..Len(ModelIDs) :
       f[n] = IF ModelIDs[n] \in ids THEN Place(p, f[n - 1], ModelIDs[n]) ELSE f[n - 1]

LEMMA PlacingLoop ==
  ASSUME NEW p \in ProviderSet, NEW ids, Good(p, Restored(p, ids))
  PROVE  \E f : IsPlacing(f, p, ids) /\ Discovered(p, ids) = f[Len(ModelIDs)]
<1> DEFINE N == Len(ModelIDs)
           S == GoodStates(p)
           first == Restored(p, ids)
           next1(n, st) == IF ModelIDs[n] \in ids THEN Place(p, st, ModelIDs[n]) ELSE st
           step == [a \in (1..N) \X S |-> next1(a[1], a[2])]
           Is(f) == f = [n \in 0..N |-> IF n = 0 THEN first ELSE next1(n, f[n - 1])]
           after == CHOOSE f : Is(f)
<1>1. N \in Nat /\ \A n \in 1..N : ModelIDs[n] \in IDs
  BY Constants
<1>2. first \in S
  BY DEF GoodStates, Good
<1>3. \A n \in 1..N : \A st \in S : next1(n, st) \in S
  <2>1. ASSUME NEW n \in 1..N, NEW st \in S PROVE next1(n, st) \in S
    <3> DEFINE id == ModelIDs[n]
    <3>1. id \in IDs /\ Good(p, st)
      BY <1>1 DEF GoodStates
    <3> HIDE DEF id
    <3>2. Good(p, Place(p, st, id))
      BY <3>1, PlaceKeeps
    <3>3. next1(n, st) = IF id \in ids THEN Place(p, st, id) ELSE st
      BY DEF id
    <3> HIDE DEF next1
    <3> QED
      BY <3>1, <3>2, <3>3 DEF GoodStates, Good
  <2> QED
    BY <2>1
<1> HIDE DEF next1, first, N, S
<1>4. step \in [(1..N) \X S -> S] /\ \A n \in 1..N, st \in S : step[<<n, st>>] = next1(n, st)
  BY <1>3
<1> HIDE DEF step
<1>5. PICK f : IsLoop(f, S, N, first, step)
  BY <1>1, <1>2, <1>4, LoopExists
<1>6. /\ f \in [0..N -> S] /\ f[0] = first
      /\ \A n \in 1..N : f[n] = next1(n, f[n - 1])
  <2>1. \A n \in 1..N : n - 1 \in 0..N
    BY <1>1
  <2> QED
    BY <1>4, <1>5, <2>1 DEF IsLoop
<1>7. Is(f)
  <2>1. \A n \in 0..N : n = 0 \/ n \in 1..N
    BY <1>1
  <2> QED
    BY <1>6, <2>1
<1>8. Is(after)
  BY <1>7
<1> HIDE DEF after
<1>9. /\ after[0] = first /\ \A n \in 1..N : after[n] = next1(n, after[n - 1])
  BY <1>1, <1>8
<1>10. after \in [0..N -> S]
  <2> DEFINE G == {n \in Nat : n <= N => after[n] \in S}
  <2>1. 0 \in G
    BY <1>2, <1>9
  <2>2. ASSUME NEW n \in Nat, n \in G PROVE n + 1 \in G
    <3> SUFFICES ASSUME n + 1 <= N PROVE after[n + 1] \in S
      OBVIOUS
    <3>1. n + 1 \in 1..N /\ (n + 1) - 1 = n /\ after[n] \in S
      BY <1>1, <2>2
    <3> QED
      BY <1>3, <1>9, <3>1
  <2> HIDE DEF G
  <2>3. Nat \subseteq G
    BY <2>1, <2>2, SetInduction
  <2>4. \A n \in 0..N : after[n] \in S
    BY <1>1, <2>3 DEF G
  <2> QED
    BY <1>8, <2>4
<1>11. Discovered(p, ids) = after[N]
  BY DEF Discovered, after, next1, first, N
<1>12. IsPlacing(after, p, ids)
  BY <1>9, <1>10 DEF IsPlacing, next1, first, N, S
<1> QED
  BY <1>11, <1>12 DEF N

\* Whatever a provider lists, its models fit and nothing written by hand goes.
LEMMA DiscoveredIsGood ==
  ASSUME assignments \in Assignments, models \in [SlotSet -> Occupants], HandWrittenKept,
         NEW p \in ProviderSet, NEW ids
  PROVE  Good(p, Discovered(p, ids)) /\ Good(p, Restored(p, ids))
<1>1. Len(ModelIDs) \in 0..Len(ModelIDs)
  BY Constants
<1>2. Good(p, Restored(p, ids))
  BY <1>1, RestoringLoop DEF IsRestoring, GoodStates
<1>3. Good(p, Discovered(p, ids))
  BY <1>1, <1>2, PlacingLoop DEF IsPlacing, GoodStates
<1> QED
  BY <1>2, <1>3

-----------------------------------------------------------------------------
(* A provider that lists nothing new                                       *)

\* Of the slots only the old ones of listed models have been given away.
OldGiven(p, ids, slots) ==
  \A slug \in SlotSet :
    \/ slots[slug] = models[slug]
    \/ \E id \in ids : slug = loaded[p][id] /\ slots[slug] = Model(p, id)

\* The assumptions about the provider whose turn it is.
ListsOld(p) ==
  /\ p \in ProviderSet /\ p \notin Asked /\ NothingNew /\ Distinct
  /\ loaded \in Assignments /\ assignments \in Assignments /\ assignments[p] = loaded[p]
  /\ lists \in [ProviderSet -> Answers] /\ models \in [SlotSet -> Occupants]
  /\ Fits(p, loaded[p]) /\ \A slug \in SlotSet : Expected(slug, models)

LEMMA AskedListed ==
  ASSUME NEW q \in Asked, next \in 1..(Len(Providers) + 1)
  PROVE  q \in ProviderSet
BY Constants DEF Asked

LEMMA RestoresOld ==
  ASSUME NEW p, ListsOld(p), next \in 1..(Len(Providers) + 1), NEW id \in lists[p].ids,
         NEW st, Good(p, st), OldGiven(p, lists[p].ids, st.models)
  PROVE  LET r == Restore(p, st, id)
         IN /\ OldGiven(p, lists[p].ids, r.models)
            /\ r.given = [st.given EXCEPT ![id] = loaded[p][id]]
<1> DEFINE slug == loaded[p][id]
           ids == lists[p].ids
           r == [st EXCEPT !.models[slug] = Model(p, id), !.given[id] = slug]
<1>1. /\ p \in ProviderSet /\ ids \subseteq IDs /\ slug \in SlotSet
      /\ assignments[p][id] = slug /\ slug # NoSlot
      /\ st \in States
  BY DEF ListsOld, NothingNew, Assignments, Answers, Good
<1>2. st.models[slug] \in {NoModel, Model(p, id)}
  <2>1. CASE \E other \in ids : slug = loaded[p][other] /\ st.models[slug] = Model(p, other)
    <3>1. PICK other \in ids : slug = loaded[p][other] /\ st.models[slug] = Model(p, other)
      BY <2>1
    <3>2. other = id
      BY <1>1, <3>1 DEF ListsOld, Distinct
    <3> QED
      BY <3>1, <3>2
  <2>2. CASE st.models[slug] = models[slug]
    <3>1. Expected(slug, models)
      BY <1>1 DEF ListsOld
    <3>2. CASE mode = "merge" /\ models[slug] = HandWritten[slug]
      <4>1. HandWritten[slug] \in {NoModel, Model(p, id)}
        BY <1>1, <3>2 DEF ListsOld, Fits
      <4> QED
        BY <2>2, <3>2, <4>1
    <3>3. CASE \E q \in Asked : \E other \in lists[q].ids :
                 slug = loaded[q][other] /\ models[slug] = Model(q, other)
      <4>1. PICK q \in Asked : \E other \in lists[q].ids : slug = loaded[q][other]
        BY <3>3
      <4>2. PICK other \in lists[q].ids : slug = loaded[q][other]
        BY <4>1
      <4>3. q \in ProviderSet /\ other \in IDs
        <5>1. q \in ProviderSet
          BY <4>1, AskedListed
        <5> QED
          BY <5>1 DEF ListsOld, Answers
      <4>4. q = p
        BY <1>1, <4>2, <4>3 DEF ListsOld, Distinct
      <4> QED
        BY <4>1, <4>4 DEF ListsOld
    <3> QED
      BY <2>2, <3>1, <3>2, <3>3 DEF Expected
  <2> QED
    BY <1>1, <2>1, <2>2 DEF OldGiven
<1>3. Restore(p, st, id) = r
  BY <1>1, <1>2 DEF Restore
<1>4. /\ r.models = [st.models EXCEPT ![slug] = Model(p, id)]
      /\ r.given = [st.given EXCEPT ![id] = slug]
  BY <1>1 DEF States
<1>5. st.models \in [SlotSet -> Occupants]
  BY <1>1 DEF States
<1> HIDE DEF r
<1>6. OldGiven(p, ids, r.models)
  <2> SUFFICES ASSUME NEW s \in SlotSet
               PROVE  \/ r.models[s] = models[s]
                      \/ \E i \in ids : s = loaded[p][i] /\ r.models[s] = Model(p, i)
    BY DEF OldGiven
  <2>1. CASE s = slug
    BY <1>4, <1>5, <2>1
  <2>2. CASE s # slug
    <3>1. r.models[s] = st.models[s]
      BY <1>4, <1>5, <2>2
    <3> QED
      BY <3>1 DEF OldGiven
  <2> QED
    BY <2>1, <2>2
<1> QED
  BY <1>3, <1>4, <1>6

LEMMA RestoredOld ==
  ASSUME NEW p, ListsOld(p), next \in 1..(Len(Providers) + 1), HandWrittenKept
  PROVE  /\ OldGiven(p, lists[p].ids, Restored(p, lists[p].ids).models)
         /\ \A id \in lists[p].ids : Restored(p, lists[p].ids).given[id] = loaded[p][id]
<1> DEFINE ids == lists[p].ids
           N == Len(ModelIDs)
<1>1. PICK f : IsRestoring(f, p, ids) /\ Restored(p, ids) = f[N]
  BY RestoringLoop DEF ListsOld
<1>2. /\ N \in Nat /\ ids \subseteq IDs /\ IDs = {ModelIDs[i] : i \in 1..N}
      /\ \A n \in 0..N : f[n] \in GoodStates(p)
  BY <1>1, Constants DEF ListsOld, Answers, IsRestoring
<1> HIDE DEF N
<1>3. ASSUME NEW n \in Nat
      PROVE  n <= N => /\ OldGiven(p, ids, f[n].models)
                       /\ \A i \in 1..n : ModelIDs[i] \in ids =>
                            f[n].given[ModelIDs[i]] = loaded[p][ModelIDs[i]]
  <2> DEFINE Old(m) == /\ OldGiven(p, ids, f[m].models)
                       /\ \A i \in 1..m : ModelIDs[i] \in ids =>
                            f[m].given[ModelIDs[i]] = loaded[p][ModelIDs[i]]
             G == {m \in Nat : m <= N => Old(m)}
  <2>1. 0 \in G
    <3>1. f[0].models = models
      BY <1>1 DEF IsRestoring
    <3> QED
      BY <3>1 DEF OldGiven
  <2>2. ASSUME NEW m \in Nat, m \in G PROVE m + 1 \in G
    <3> SUFFICES ASSUME m + 1 <= N PROVE Old(m + 1)
      OBVIOUS
    <3> DEFINE id == ModelIDs[m + 1]
               st == f[m]
               r == f[m + 1]
    <3>1. Old(m) /\ m + 1 \in 1..N /\ (m + 1) - 1 = m /\ st \in States /\ Good(p, st) /\ id \in IDs
      BY <1>2, <2>2 DEF GoodStates
    <3>2. r = IF id \in ids THEN Restore(p, st, id) ELSE st
      BY <1>1, <3>1 DEF IsRestoring, N
    <3>3. \A i \in 1..(m + 1) : i \in 1..m \/ i = m + 1
      OBVIOUS
    <3>4. st.given \in [IDs -> SlotSet \cup {NoSlot}]
      BY <3>1 DEF States
    <3>5. CASE id \in ids
      <4>1. OldGiven(p, ids, st.models)
        BY <3>1
      <4> HIDE DEF st, id
      <4>2. /\ OldGiven(p, ids, Restore(p, st, id).models)
            /\ Restore(p, st, id).given = [st.given EXCEPT ![id] = loaded[p][id]]
        BY <3>1, <3>5, <4>1, RestoresOld
      <4>3. r.given = [st.given EXCEPT ![id] = loaded[p][id]] /\ OldGiven(p, ids, r.models)
        BY <3>2, <3>5, <4>2
      <4>4. \A i \in 1..m : ModelIDs[i] \in ids => st.given[ModelIDs[i]] = loaded[p][ModelIDs[i]]
        BY <3>1 DEF st
      <4> HIDE DEF r
      <4>5. \A i \in 1..(m + 1) : ModelIDs[i] \in ids => r.given[ModelIDs[i]] = loaded[p][ModelIDs[i]]
        <5>1. \A other \in ids : r.given[other] = IF other = id THEN loaded[p][id] ELSE st.given[other]
          BY <1>2, <3>1, <3>4, <4>3
        <5> QED
          BY <3>3, <4>4, <5>1 DEF id
      <4> QED
        BY <4>3, <4>5 DEF r
    <3>6. CASE id \notin ids
      <4>1. r = st
        BY <3>2, <3>6
      <4> QED
        BY <3>1, <3>3, <3>6, <4>1
    <3> QED
      BY <3>5, <3>6
  <2> HIDE DEF G
  <2>3. Nat \subseteq G
    BY <2>1, <2>2, SetInduction
  <2> QED
    BY <2>3 DEF G
<1>4. /\ OldGiven(p, ids, f[N].models)
      /\ \A i \in 1..N : ModelIDs[i] \in ids => f[N].given[ModelIDs[i]] = loaded[p][ModelIDs[i]]
  BY <1>2, <1>3
<1> QED
  BY <1>1, <1>2, <1>4

\* The second loop has nothing left to place.
LEMMA DiscoveredOld ==
  ASSUME NEW p, ListsOld(p), next \in 1..(Len(Providers) + 1), HandWrittenKept
  PROVE  Discovered(p, lists[p].ids) = Restored(p, lists[p].ids)
<1> DEFINE ids == lists[p].ids
           N == Len(ModelIDs)
           done == Restored(p, ids)
<1>1. /\ p \in ProviderSet /\ Good(p, done)
  BY DiscoveredIsGood DEF ListsOld
<1>2. PICK f : IsPlacing(f, p, ids) /\ Discovered(p, ids) = f[N]
  BY <1>1, PlacingLoop
<1>3. N \in Nat /\ ids \subseteq IDs
  BY Constants DEF ListsOld, Answers
<1>4. \A id \in ids : done.given[id] # NoSlot
  BY RestoredOld DEF ListsOld, NothingNew
<1> HIDE DEF done, N, ids
<1>5. ASSUME NEW n \in Nat PROVE n <= N => f[n] = done
  <2> DEFINE G == {m \in Nat : m <= N => f[m] = done}
  <2>1. 0 \in G
    BY <1>2 DEF IsPlacing, done
  <2>2. ASSUME NEW m \in Nat, m \in G PROVE m + 1 \in G
    <3> SUFFICES ASSUME m + 1 <= N PROVE f[m + 1] = done
      OBVIOUS
    <3> DEFINE id == ModelIDs[m + 1]
    <3>1. m + 1 \in 1..N /\ (m + 1) - 1 = m /\ f[m] = done
      BY <1>3, <2>2
    <3>2. f[m + 1] = IF id \in ids THEN Place(p, done, id) ELSE done
      BY <1>2, <3>1 DEF IsPlacing, N
    <3> HIDE DEF id
    <3>3. id \in ids => Place(p, done, id) = done
      BY <1>1, <1>3, <1>4, PlaceKeeps
    <3> QED
      BY <3>2, <3>3
  <2> HIDE DEF G
  <2>3. Nat \subseteq G
    BY <2>1, <2>2, SetInduction
  <2> QED
    BY <2>3 DEF G
<1> QED
  BY <1>2, <1>3, <1>5 DEF done, ids

-----------------------------------------------------------------------------
(* The steps                                                               *)

LEMMA InitIInv == Init => IInv
<1> SUFFICES ASSUME Init PROVE IInv
  OBVIOUS
<1>1. /\ mode \in {"merge", "upstream"} /\ pc = "down"
      /\ file = NoAssignments /\ loaded = NoAssignments /\ assignments = NoAssignments
      /\ models = HandWritten /\ lists = [p \in ProviderSet |-> NoAnswer] /\ next = 1 /\ starts = 0
  BY DEF Init
<1>2. NoAssignments \in Assignments /\ \A p \in ProviderSet : Fits(p, NoAssignments[p])
  BY DEF NoAssignments, Assignments, Fits
<1>3. NoAnswer \in Answers /\ NoAnswer.ids = {}
  BY DEF NoAnswer, Answers
<1>4. TypeOK
  <2>1. 1 \in 1..(Len(Providers) + 1) /\ 0 \in 0..MaxStarts
    BY Constants
  <2>2. lists \in [ProviderSet -> Answers]
    BY <1>1, <1>3
  <2> QED
    BY <1>1, <1>2, <2>1, <2>2, Constants DEF TypeOK, Occupants
<1>5. HandWrittenKept
  BY <1>1 DEF HandWrittenKept, Kept
<1> QED
  BY <1>1, <1>2, <1>3, <1>4, <1>5 DEF IInv, AllFit, Stable, Origins

LEMMA StartKeeps ==
  ASSUME IInv, NEW answers \in [ProviderSet -> PossibleAnswers], Start(answers)
  PROVE  IInv'
<1>1. /\ TypeOK /\ AllFit(file)
      /\ starts < MaxStarts /\ starts' = starts + 1 /\ lists' = answers
      /\ loaded' = file /\ assignments' = file /\ next' = 1 /\ mode' = mode /\ file' = file
      /\ pc' \in {"serve", "discover"}
      /\ \/ models' = HandWritten
         \/ mode = "upstream" /\ models' = [slug \in SlotSet |-> NoModel]
      /\ pc' = "discover" /\ mode = "upstream" => models' = [slug \in SlotSet |-> NoModel]
  BY DEF Start, IInv
<1>2. \A p \in ProviderSet : answers[p] \in Answers /\ (~answers[p].ok => answers[p].ids = {})
  <2>1. \A a \in PossibleAnswers : a \in Answers /\ (~a.ok => a.ids = {})
    <3>1. NoAnswer \in Answers /\ NoAnswer.ids = {}
      BY DEF NoAnswer, Answers
    <3>2. \A ids \in SUBSET IDs : [ok |-> TRUE, ids |-> ids] \in Answers
      BY DEF Answers
    <3>3. \A a \in PossibleAnswers : a = NoAnswer \/ \E ids \in SUBSET IDs : a = [ok |-> TRUE, ids |-> ids]
      BY DEF PossibleAnswers
    <3> QED
      BY <3>1, <3>2, <3>3
  <2> QED
    BY <2>1
<1>3. TypeOK'
  <2>1. 1 \in 1..(Len(Providers) + 1) /\ starts' \in 0..MaxStarts
    BY <1>1, Constants DEF TypeOK
  <2>2. lists' \in [ProviderSet -> Answers]
    BY <1>1, <1>2
  <2>3. models' \in [SlotSet -> Models \cup {NoModel}]
    BY <1>1, Constants DEF Occupants
  <2> QED
    BY <1>1, <2>1, <2>2, <2>3 DEF TypeOK
<1>4. Asked' = {}
  BY <1>1 DEF Asked
<1>5. HandWrittenKept'
  BY <1>1 DEF HandWrittenKept, Kept
<1>6. AllFit(file)' /\ AllFit(loaded)' /\ AllFit(assignments)'
  BY <1>1 DEF AllFit, Fits
<1>7. Stable' /\ Origins'
  <2>1. Stable'
    BY <1>4 DEF Stable
  <2>2. ASSUME pc' = "discover", NEW slug \in SlotSet PROVE Expected(slug, models)'
    <3>1. models'[slug] = NoModel \/ (mode' = "merge" /\ models'[slug] = HandWritten[slug])
      BY <1>1, <2>2 DEF TypeOK
    <3> QED
      BY <3>1 DEF Expected
  <2>3. Origins'
    BY <1>1, <2>2 DEF Origins
  <2> QED
    BY <2>1, <2>3
<1>8. \A p \in ProviderSet : ~lists'[p].ok => lists'[p].ids = {}
  BY <1>1, <1>2
<1> QED
  BY <1>3, <1>5, <1>6, <1>7, <1>8 DEF IInv

\* Providers are asked once each.
LEMMA AskedNext ==
  ASSUME TypeOK, Discover
  PROVE  /\ Providers[next] \in ProviderSet /\ Providers[next] \notin Asked
         /\ Asked' = IF lists[Providers[next]].ids = {} THEN Asked
                     ELSE Asked \cup {Providers[next]}
<1>1. /\ next \in 1..Len(Providers) /\ next' = next + 1 /\ lists' = lists
  BY Constants DEF TypeOK, Discover
<1>2. /\ \A j \in 1..(next - 1) : j \in 1..Len(Providers) /\ j # next
      /\ 1..(next' - 1) = 1..(next - 1) \cup {next}
  BY <1>1, Constants
<1>3. Providers[next] \in ProviderSet /\ Providers[next] \notin Asked
  BY <1>1, <1>2, Constants DEF Asked
<1>4. Asked' = {Providers[k] : k \in {j \in 1..(next - 1) \cup {next} : lists[Providers[j]].ids # {}}}
  BY <1>1, <1>2 DEF Asked
<1> QED
  BY <1>3, <1>4 DEF Asked

LEMMA DiscoverKeeps ==
  ASSUME IInv, Discover
  PROVE  IInv'
<1> DEFINE p == Providers[next]
           ids == lists[p].ids
           r == Discovered(p, ids)
<1>1. /\ TypeOK /\ pc = "discover" /\ next' = next + 1 /\ next \in 1..Len(Providers)
      /\ UNCHANGED <<mode, pc, file, loaded, lists, starts>>
      /\ IF ~lists[p].ok \/ ids = {} THEN UNCHANGED <<models, assignments>>
         ELSE models' = r.models /\ assignments' = [assignments EXCEPT ![p] = r.given]
  BY Constants DEF IInv, Discover, TypeOK
<1>2. /\ p \in ProviderSet /\ p \notin Asked
      /\ Asked' = IF ids = {} THEN Asked ELSE Asked \cup {p}
  BY <1>1, AskedNext
<1>3. /\ file \in Assignments /\ loaded \in Assignments /\ assignments \in Assignments
      /\ models \in [SlotSet -> Occupants] /\ lists \in [ProviderSet -> Answers]
      /\ AllFit(file) /\ AllFit(loaded) /\ AllFit(assignments) /\ HandWrittenKept
      /\ ~lists[p].ok => ids = {}
      /\ Stable /\ Origins /\ next \in 1..(Len(Providers) + 1)
  BY <1>1, <1>2 DEF IInv, TypeOK, Occupants
<1>4. next' \in 1..(Len(Providers) + 1)
  BY <1>1, Constants
<1>5. CASE ids = {}
  <2>1. UNCHANGED <<models, assignments>> /\ Asked' = Asked
    BY <1>1, <1>2, <1>5
  <2>2. TypeOK'
    BY <1>1, <1>4, <2>1 DEF TypeOK
  <2>3. HandWrittenKept' /\ AllFit(file)' /\ AllFit(loaded)' /\ AllFit(assignments)'
    BY <1>1, <1>3, <2>1 DEF HandWrittenKept, Kept, AllFit, Fits
  <2>4. NothingNew' = NothingNew /\ Distinct' = Distinct
    BY <1>1 DEF NothingNew, Distinct
  <2>5. Stable'
    BY <1>1, <1>3, <2>1, <2>4 DEF Stable
  <2>6. \A slug \in SlotSet : Expected(slug, models)' = Expected(slug, models)
    BY <1>1, <2>1 DEF Expected
  <2>7. Origins'
    BY <1>1, <1>3, <2>1, <2>4, <2>6 DEF Origins
  <2> QED
    BY <1>1, <2>2, <2>3, <2>5, <2>7 DEF IInv
<1>6. CASE ids # {}
  <2>1. /\ models' = r.models /\ assignments' = [assignments EXCEPT ![p] = r.given]
        /\ Asked' = Asked \cup {p}
    BY <1>1, <1>2, <1>3, <1>6
  <2>2. Good(p, r)
    BY <1>2, <1>3, DiscoveredIsGood
  <2>3. /\ r.models \in [SlotSet -> Occupants] /\ r.given \in [IDs -> SlotSet \cup {NoSlot}]
        /\ Fits(p, r.given) /\ Kept(r.models)
    BY <2>2 DEF Good, States
  <2>4. ASSUME NothingNew, Distinct
        PROVE  /\ OldGiven(p, ids, r.models) /\ \A id \in ids : r.given[id] = loaded[p][id]
               /\ \A q \in ProviderSet \ Asked : assignments[q] = loaded[q]
               /\ \A slug \in SlotSet : Expected(slug, models)
    <3>1. /\ \A q \in ProviderSet \ Asked : assignments[q] = loaded[q]
          /\ \A slug \in SlotSet : Expected(slug, models)
      BY <1>1, <1>3, <2>4 DEF Origins
    <3>2. ListsOld(p)
      BY <1>2, <1>3, <2>4, <3>1 DEF ListsOld, AllFit
    <3> QED
      BY <1>3, <3>1, <3>2, RestoredOld, DiscoveredOld
  <2> HIDE DEF r, p
  <2>5. /\ assignments'[p] = r.given /\ \A q \in ProviderSet : q # p => assignments'[q] = assignments[q]
    BY <1>2, <1>3, <2>1 DEF Assignments
  <2>6. TypeOK'
    <3>1. assignments' \in Assignments
      BY <1>3, <2>1, <2>3 DEF Assignments
    <3> QED
      BY <1>1, <1>4, <2>1, <2>3, <3>1 DEF TypeOK, Occupants
  <2>7. HandWrittenKept'
    BY <1>1, <2>1, <2>3 DEF HandWrittenKept, Kept
  <2>8. AllFit(file)' /\ AllFit(loaded)' /\ AllFit(assignments)'
    <3>1. AllFit(file)' /\ AllFit(loaded)'
      BY <1>1, <1>3 DEF AllFit, Fits
    <3>2. \A q \in ProviderSet : Fits(q, assignments'[q])
      BY <1>3, <2>3, <2>5 DEF AllFit
    <3> QED
      BY <1>1, <3>1, <3>2 DEF AllFit, Fits
  <2>9. (NothingNew' <=> NothingNew) /\ (Distinct' <=> Distinct)
    BY <1>1 DEF NothingNew, Distinct
  <2>10. Stable'
    <3> SUFFICES ASSUME NothingNew, Distinct, NEW q \in Asked', NEW id \in lists[q].ids
                 PROVE  assignments'[q][id] = loaded[q][id]
      BY <1>1, <2>9 DEF Stable
    <3>1. CASE q = p
      BY <2>4, <2>5, <3>1
    <3>2. CASE q # p
      <4>1. q \in Asked /\ q \in ProviderSet
        BY <1>3, <2>1, <3>2, AskedListed
      <4>2. assignments[q][id] = loaded[q][id]
        BY <1>1, <1>3, <4>1 DEF Stable
      <4> QED
        BY <2>5, <3>2, <4>1, <4>2
    <3> QED
      BY <3>1, <3>2
  <2>11. Origins'
    <3> SUFFICES ASSUME NothingNew, Distinct
                 PROVE  /\ \A q \in ProviderSet \ Asked' : assignments'[q] = loaded[q]
                        /\ \A slug \in SlotSet : Expected(slug, models)'
      BY <1>1, <2>9 DEF Origins
    <3>1. \A q \in ProviderSet \ Asked' : assignments'[q] = loaded[q]
      BY <2>1, <2>4, <2>5
    <3>2. ASSUME NEW slug \in SlotSet PROVE Expected(slug, models)'
      <4>1. CASE models'[slug] = models[slug]
        <5>1. Expected(slug, models)
          BY <2>4
        <5>2. CASE models[slug] = NoModel \/ (mode = "merge" /\ models[slug] = HandWritten[slug])
          BY <1>1, <4>1, <5>2 DEF Expected
        <5>3. CASE \E q \in Asked : \E id \in lists[q].ids :
                     slug = loaded[q][id] /\ models[slug] = Model(q, id)
          <6>1. \E q \in Asked' : \E id \in lists'[q].ids :
                  slug = loaded'[q][id] /\ models'[slug] = Model(q, id)
            BY <1>1, <2>1, <4>1, <5>3
          <6> QED
            BY <6>1 DEF Expected, Model
        <5> QED
          BY <5>1, <5>2, <5>3 DEF Expected
      <4>2. CASE \E id \in ids : slug = loaded[p][id] /\ models'[slug] = Model(p, id)
        <5>1. \E q \in Asked' : \E id \in lists'[q].ids :
                slug = loaded'[q][id] /\ models'[slug] = Model(q, id)
          BY <1>1, <2>1, <4>2
        <5> QED
          BY <5>1 DEF Expected, Model
      <4> QED
        BY <2>1, <2>4, <4>1, <4>2 DEF OldGiven
    <3> QED
      BY <3>1, <3>2
  <2>12. \A q \in ProviderSet : ~lists'[q].ok => lists'[q].ids = {}
    BY <1>1 DEF IInv
  <2> QED
    BY <2>6, <2>7, <2>8, <2>10, <2>11, <2>12 DEF IInv
<1> QED
  BY <1>5, <1>6

\* Saving, stopping and doing nothing leave the models and the loaded file.
LEMMA RestKeeps ==
  ASSUME IInv, UNCHANGED <<mode, loaded, assignments, models, lists, next, starts>>,
         file' \in {file, assignments}, pc' \in {"down", "serve"} \/ pc' = pc,
         pc' = "serve" => pc \in {"discover", "serve"}
  PROVE  IInv'
<1>1. TypeOK'
  BY DEF IInv, TypeOK
<1>2. HandWrittenKept'
  BY DEF IInv, HandWrittenKept, Kept
<1>3. AllFit(file)' /\ AllFit(loaded)' /\ AllFit(assignments)'
  BY DEF IInv, AllFit, Fits
<1>4. Asked' = Asked /\ (NothingNew' <=> NothingNew) /\ (Distinct' <=> Distinct)
  BY DEF Asked, NothingNew, Distinct
<1>5. Stable'
  BY <1>4 DEF IInv, Stable
<1>6. \A slug \in SlotSet : Expected(slug, models)' <=> Expected(slug, models)
  BY <1>4 DEF Expected
<1>7. Origins'
  BY <1>4, <1>6 DEF IInv, Origins
<1> QED
  BY <1>1, <1>2, <1>3, <1>5, <1>7 DEF IInv

LEMMA StepIInv == IInv /\ [Next]_vars => IInv'
<1> SUFFICES ASSUME IInv, [Next]_vars PROVE IInv'
  OBVIOUS
<1>1. ASSUME NEW written \in BOOLEAN, Finish(written) PROVE IInv'
  BY <1>1, RestKeeps DEF Finish
<1>2. CASE Stop
  BY <1>2, RestKeeps DEF Stop
<1>3. CASE UNCHANGED vars
  BY <1>3, RestKeeps DEF vars
<1> QED
  BY <1>1, <1>2, <1>3, StartKeeps, DiscoverKeeps DEF Next

LEMMA IInvHolds == Spec => []IInv
BY InitIInv, StepIInv, PTL DEF Spec

\* Models, slots and assignments stay well formed, whatever the providers list.
THEOREM TypeCorrect == Spec => []TypeOK
<1>1. IInv => TypeOK
  BY DEF IInv
<1> QED
  BY <1>1, IInvHolds, PTL

\* AddDiscoveredModelsReport restores the old slots before it places anything,
\* so a start that finds no new model, with a file that gives no slot twice,
\* leaves every listed one where it was, for any number of providers and whatever
\* slots the models would prefer.
THEOREM SlotsAreStable == Spec => []SlotsStable
<1>1. IInv => SlotsStable
  BY DEF IInv, Stable, SlotsStable, NothingNew, Distinct
<1> QED
  BY <1>1, IInvHolds, PTL

\* In the merge mode discovery never gives the slot of a hand-written model away.
THEOREM HandWrittenModelsStay == Spec => []HandWrittenKept
<1>1. IInv => HandWrittenKept
  BY DEF IInv
<1> QED
  BY <1>1, IInvHolds, PTL

=============================================================================
