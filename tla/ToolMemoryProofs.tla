-------------------------- MODULE ToolMemoryProofs --------------------------
(* Theorems about ToolMemory, for every number of sessions, calls, entries  *)
(* and requests.                                                            *)
EXTENDS ToolMemory, SequenceTheorems, DataLemmas

-----------------------------------------------------------------------------
(* The inductive invariant, session by session                             *)

\* The output that a request of the session is recording is that of c.
Recording(s, c) == phase[s] = "record" /\ history[s][replayed[s] + 1].call = c

\* Calls have ids of their own, and a request reads a history of outputs.
HistoryGood(s) ==
  /\ \A i, j \in 1..Len(history[s]) : history[s][i].call = history[s][j].call => i = j
  /\ phase[s] = "record" => replayed[s] < Len(history[s])
  /\ phase[s] \in {"replay", "record"} =>
       \A i \in 1..Len(history[s]) : history[s][i].outcome # "pending"

\* An entry in seen stands for one observation, made or about to be made.
SeenGood(s) ==
  \A c \in Calls :
    /\ observed[<<s, c>>] \in {0, 1}
    /\ observed[<<s, c>>] = 1 =>
         /\ <<s, c>> \in ToSet(seen)
         /\ \E i \in 1..Len(history[s]) :
              history[s][i].call = c /\ history[s][i].outcome # "pending"
    /\ <<s, c>> \in ToSet(seen) => observed[<<s, c>>] = 1 \/ Recording(s, c)
    /\ Recording(s, c) =>
         observed[<<s, c>>] = 0 /\ (<<s, c>> \in ToSet(seen) \/ s \in forgotten)

\* The proxies of a history are remembered until they are dropped, and the
\* request has shown those it has read.
LogicalGood(s) ==
  /\ \A i \in 1..Len(history[s]) : history[s][i].call \in Proxies =>
       <<s, history[s][i].call>> \in ToSet(logical) \cup lost
  /\ phase[s] # "idle" =>
       \A i \in 1..Len(history[s]) :
         /\ i <= replayed[s] \/ (phase[s] = "record" /\ i = replayed[s] + 1)
         /\ history[s][i].call \in Proxies
         => history[s][i].call \in shown[s] \/ <<s, history[s][i].call>> \in lost

\* The failing outputs of a signature since the last output with progress.
Failing(h, obs, s, sig) ==
  {i \in 1..Len(h) :
     /\ obs[<<s, h[i].call>>] > 0 /\ ObservedAs[h[i].call] = sig /\ h[i].outcome = "failure"
     /\ \A j \in i..Len(h) : obs[<<s, h[j].call>>] > 0 => h[j].outcome # "progress"}

\* Outputs are observed in the order of the history, and counted.
CountGood(s) ==
  s \notin forgotten \cup SessionsOf(lost) =>
    /\ \A i, j \in 1..Len(history[s]) : i < j /\ Observed(s, j) => Observed(s, i)
    /\ phase[s] \in {"replay", "record"} => \A i \in 1..replayed[s] : Observed(s, i)
    /\ \A sig \in Signatures :
         failures[s][sig] = Cardinality(Failing(history[s], observed, s, sig))

SessionGood(s) == HistoryGood(s) /\ SeenGood(s) /\ LogicalGood(s) /\ CountGood(s)

IInv == TypeOK /\ \A s \in Sessions : SessionGood(s)

-----------------------------------------------------------------------------
(* Maps whose entries know when they were used last                        *)

\* A recency list over T, without repetitions.
Recency(q, T) == q \in Seq(T) /\ IsInjective(q)

LEMMA Entries ==
  ASSUME NEW T, NEW q \in Seq(T)
  PROVE  /\ Len(q) \in Nat /\ DOMAIN q = 1..Len(q)
         /\ ToSet(q) = {q[i] : i \in 1..Len(q)} /\ ToSet(q) \subseteq T
BY DEF ToSet

LEMMA NoEntries ==
  ASSUME NEW T
  PROVE  Recency(<<>>, T) /\ ToSet(<<>>) = {} /\ Len(<<>>) = 0
BY DEF Recency, ToSet, IsInjective

\* A new entry is the last one.
LEMMA AppendEntry ==
  ASSUME NEW T, NEW q, Recency(q, T), NEW x \in T, x \notin ToSet(q)
  PROVE  /\ Recency(Append(q, x), T)
         /\ ToSet(Append(q, x)) = ToSet(q) \cup {x}
         /\ Len(Append(q, x)) = Len(q) + 1 /\ Append(q, x)[Len(q) + 1] = x
<1> DEFINE r == Append(q, x)
<1>1. /\ q \in Seq(T) /\ Len(q) \in Nat /\ r \in Seq(T) /\ Len(r) = Len(q) + 1
      /\ r[Len(q) + 1] = x /\ \A i \in 1..Len(q) : r[i] = q[i]
  BY DEF Recency
<1> HIDE DEF r
<1>2. ToSet(q) = {q[i] : i \in 1..Len(q)} /\ ToSet(r) = {r[i] : i \in 1..Len(r)}
  BY <1>1, Entries
<1>3. \A i \in 1..Len(r) : i \in 1..Len(q) \/ i = Len(q) + 1
  BY <1>1
<1>4. ToSet(r) = ToSet(q) \cup {x}
  <2>1. \A i \in 1..Len(q) : i \in 1..Len(r)
    BY <1>1
  <2>2. Len(q) + 1 \in 1..Len(r)
    BY <1>1
  <2> QED
    BY <1>1, <1>2, <1>3, <2>1, <2>2
<1>5. IsInjective(r)
  <2>1. \A i, j \in 1..Len(q) : q[i] = q[j] => i = j
    BY <1>1, Entries DEF Recency, IsInjective
  <2>2. \A i \in 1..Len(q) : q[i] # x
    BY <1>2
  <2>3. \A i, j \in 1..Len(r) : r[i] = r[j] => i = j
    BY <1>1, <1>3, <2>1, <2>2
  <2> QED
    BY <1>1, <2>3, Entries DEF IsInjective
<1> QED
  BY <1>1, <1>4, <1>5 DEF Recency, r

\* Deleting leaves the other entries.
LEMMA WithoutEntries ==
  ASSUME NEW T, NEW q, Recency(q, T), NEW S
  PROVE  /\ Recency(Without(q, S), T)
         /\ ToSet(Without(q, S)) = ToSet(q) \ S
         /\ Len(Without(q, S)) <= Len(q)
         /\ \A x \in ToSet(q) : x \in S => Len(Without(q, S)) < Len(q)
<1> DEFINE N == Len(q)
           next(n, s) == IF q[n] \in S THEN s ELSE Append(s, q[n])
           step == [p \in (1..N) \X Seq(T) |-> next(p[1], p[2])]
           IsKept(f) == f = [n \in 0..N |-> IF n = 0 THEN <<>> ELSE next(n, f[n - 1])]
           kept == CHOOSE f : IsKept(f)
           First(n) == {q[i] : i \in 1..n}
           Good(n, s) == /\ Recency(s, T) /\ ToSet(s) = First(n) \ S /\ Len(s) <= n
                         /\ \A x \in First(n) : x \in S => Len(s) < n
<1>1. /\ q \in Seq(T) /\ N \in Nat /\ \A n \in 1..N : q[n] \in T
      /\ \A i, j \in 1..N : q[i] = q[j] => i = j
  BY Entries DEF Recency, IsInjective
<1>2. \A n \in 1..N : \A s \in Seq(T) : next(n, s) \in Seq(T)
  BY <1>1
<1>3. ASSUME NEW n \in Nat, n + 1 \in 1..N, NEW s, Good(n, s) PROVE Good(n + 1, next(n + 1, s))
  <2>1. Recency(s, T) /\ ToSet(s) = First(n) \ S /\ Len(s) <= n /\ Len(s) \in Nat
    BY <1>3, Entries DEF Recency
  <2>2. \A i \in 1..(n + 1) : i \in 1..n \/ i = n + 1
    OBVIOUS
  <2>3. First(n + 1) = First(n) \cup {q[n + 1]}
    <3>1. \A i \in 1..n : i \in 1..(n + 1)
      OBVIOUS
    <3>2. n + 1 \in 1..(n + 1)
      OBVIOUS
    <3> QED
      BY <2>2, <3>1, <3>2
  <2>4. q[n + 1] \notin First(n)
    <3>1. \A i \in 1..n : i \in 1..N /\ i # n + 1
      BY <1>1, <1>3
    <3> QED
      BY <1>1, <1>3, <3>1
  <2>5. q[n + 1] \in T
    BY <1>1, <1>3
  <2> HIDE DEF First
  <2>6. CASE q[n + 1] \in S
    <3>1. next(n + 1, s) = s
      BY <2>6
    <3> QED
      BY <2>1, <2>3, <2>6, <3>1
  <2>7. CASE q[n + 1] \notin S
    <3>1. next(n + 1, s) = Append(s, q[n + 1])
      BY <2>7
    <3> HIDE DEF next
    <3> DEFINE r == next(n + 1, s)
    <3>2. /\ Recency(r, T) /\ ToSet(r) = ToSet(s) \cup {q[n + 1]} /\ Len(r) = Len(s) + 1
      <4>1. q[n + 1] \notin ToSet(s)
        BY <2>1, <2>4
      <4> DEFINE e == q[n + 1]
      <4>2. Recency(s, T) /\ e \in T /\ e \notin ToSet(s) /\ r = Append(s, e)
        BY <2>1, <2>5, <3>1, <4>1
      <4> HIDE DEF e, r
      <4>3. Recency(r, T) /\ ToSet(r) = ToSet(s) \cup {e} /\ Len(r) = Len(s) + 1
        BY <4>2, AppendEntry
      <4> QED
        BY <4>3 DEF e
    <3> HIDE DEF r
    <3>3. \A x \in First(n + 1) : x \in S => x \in First(n)
      BY <2>3, <2>7
    <3>4. ToSet(r) = First(n + 1) \ S
      BY <2>1, <2>3, <2>7, <3>2
    <3>5. Len(r) <= n + 1 /\ \A x \in First(n + 1) : x \in S => Len(r) < n + 1
      BY <1>3, <2>1, <3>2, <3>3
    <3> QED
      BY <3>2, <3>4, <3>5 DEF r
  <2> QED
    BY <2>6, <2>7
<1> HIDE DEF N, next
<1>4. step \in [(1..N) \X Seq(T) -> Seq(T)]
  BY <1>2
<1>5. /\ \A n \in 1..N, s \in Seq(T) : step[<<n, s>>] = next(n, s)
  OBVIOUS
<1> HIDE DEF step
<1>6. PICK f \in [0..N -> Seq(T)] :
        f[0] = <<>> /\ \A n \in 1..N : f[n] = step[<<n, f[n - 1]>>]
  <2> DEFINE empty == <<>>
  <2>0. empty \in Seq(T)
    OBVIOUS
  <2> HIDE DEF empty
  <2>1. \E f : IsLoop(f, Seq(T), N, empty, step)
    BY <1>1, <1>4, <2>0, LoopExists
  <2> QED
    BY <2>1 DEF empty, IsLoop
<1>7. IsKept(f)
  <2>1. ASSUME NEW n \in 0..N PROVE f[n] = IF n = 0 THEN <<>> ELSE next(n, f[n - 1])
    <3>1. n # 0 => n \in 1..N /\ f[n - 1] \in Seq(T)
      BY <1>1
    <3> QED
      BY <1>5, <1>6, <3>1
  <2> QED
    BY <2>1
<1>8. IsKept(kept)
  BY <1>7
<1> HIDE DEF kept
<1>9. Good(0, <<>>)
  <2>1. First(0) = {}
    OBVIOUS
  <2> HIDE DEF First
  <2> QED
    BY <2>1, NoEntries
<1> HIDE DEF Good
<1>10. ASSUME NEW n \in Nat PROVE n <= N => Good(n, kept[n])
  <2> DEFINE G == {m \in Nat : m <= N => Good(m, kept[m])}
  <2>1. 0 \in G
    BY <1>1, <1>8, <1>9
  <2>2. ASSUME NEW m \in Nat, m \in G PROVE m + 1 \in G
    <3> SUFFICES ASSUME m + 1 <= N PROVE Good(m + 1, kept[m + 1])
      OBVIOUS
    <3>1. Good(m, kept[m]) /\ m + 1 \in 1..N /\ (m + 1) - 1 = m /\ m + 1 # 0
      BY <1>1, <2>2
    <3>2. kept[m + 1] = next(m + 1, kept[m])
      BY <1>1, <1>8, <3>1
    <3> QED
      BY <1>3, <3>1, <3>2
  <2> HIDE DEF G
  <2>3. Nat \subseteq G
    BY <2>1, <2>2, SetInduction
  <2> QED
    BY <2>3 DEF G
<1>11. Good(N, kept[N])
  BY <1>1, <1>10
<1>12. Without(q, S) = kept[N]
  BY DEF Without, kept, N, next
<1>13. First(N) = ToSet(q)
  BY <1>1, Entries DEF N
<1> QED
  BY <1>11, <1>12, <1>13 DEF Good, N

LEMMA TouchEntries ==
  ASSUME NEW T, NEW q, Recency(q, T), NEW x \in T
  PROVE  /\ Recency(Touch(q, x), T)
         /\ ToSet(Touch(q, x)) = ToSet(q) \cup {x}
         /\ Len(Touch(q, x)) \in Nat \ {0}
         /\ Touch(q, x)[Len(Touch(q, x))] = x
         /\ x \in ToSet(q) => Len(Touch(q, x)) <= Len(q)
<1> DEFINE r == Without(q, {x})
           u == Touch(q, x)
<1>1. /\ Recency(r, T) /\ ToSet(r) = ToSet(q) \ {x} /\ Len(q) \in Nat /\ Len(r) \in Nat
      /\ x \in ToSet(q) => Len(r) < Len(q)
  BY WithoutEntries, Entries DEF Recency
<1> HIDE DEF r
<1>2. /\ Recency(Append(r, x), T) /\ ToSet(Append(r, x)) = ToSet(r) \cup {x}
      /\ Len(Append(r, x)) = Len(r) + 1 /\ Append(r, x)[Len(r) + 1] = x
  BY <1>1, AppendEntry
<1>3. u = Append(r, x)
  BY DEF Touch, r
<1> HIDE DEF u
<1>4. Len(u) = Len(r) + 1 /\ u[Len(u)] = x
  BY <1>2, <1>3
<1> QED
  BY <1>1, <1>2, <1>3, <1>4 DEF u

\* Of too many entries the newest stay.
LEMMA NewestEntries ==
  ASSUME NEW T, NEW q, Recency(q, T), NEW n \in Nat \ {0}
  PROVE  /\ Recency(Newest(q, n), T)
         /\ ToSet(Newest(q, n)) \subseteq ToSet(q)
         /\ Len(Newest(q, n)) <= n
         /\ Len(q) # 0 => q[Len(q)] \in ToSet(Newest(q, n))
<1> DEFINE N == Len(q)
           m == N - n + 1
           r == SubSeq(q, m, N)
<1>1. /\ q \in Seq(T) /\ N \in Nat /\ \A i \in 1..N : q[i] \in T
      /\ \A i, j \in 1..N : q[i] = q[j] => i = j
      /\ ToSet(q) = {q[i] : i \in 1..N}
  BY Entries DEF Recency, IsInjective
<1>2. CASE N <= n
  <2>1. Newest(q, n) = q
    BY <1>2 DEF Newest
  <2> QED
    BY <1>1, <1>2, <2>1
<1>3. CASE ~(N <= n)
  <2>1. Newest(q, n) = r
    BY <1>3 DEF Newest
  <2>2. m \in Int /\ N - m + 1 = n /\ m <= N /\ m \in 1..N /\ \A i \in m..N : q[i] \in T
    BY <1>1, <1>3
  <2> HIDE DEF m, N
  <2>3. /\ r \in Seq(T) /\ Len(r) = n /\ \A i \in 1..n : r[i] = q[m + i - 1]
    BY <1>1, <2>2, SubSeqProperties
  <2> HIDE DEF r
  <2>4. \A i \in 1..n : m + i - 1 \in 1..N
    BY <1>1, <2>2
  <2>5. ToSet(r) = {r[i] : i \in 1..n} /\ DOMAIN r = 1..n
    BY <2>3, Entries
  <2>6. ToSet(r) \subseteq ToSet(q)
    BY <1>1, <2>3, <2>4, <2>5
  <2>7. IsInjective(r)
    <3>1. ASSUME NEW i \in 1..n, NEW j \in 1..n, r[i] = r[j] PROVE i = j
      <4>1. m + i - 1 = m + j - 1
        BY <1>1, <2>3, <2>4, <3>1
      <4> QED
        BY <2>2, <4>1
    <3> QED
      BY <2>5, <3>1 DEF IsInjective
  <2>8. q[N] \in ToSet(r)
    <3>1. n \in 1..n /\ m + n - 1 = N
      BY <1>1, <2>2
    <3> QED
      BY <2>3, <2>5, <3>1
  <2> QED
    BY <2>1, <2>3, <2>6, <2>7, <2>8 DEF Recency, N
<1> QED
  BY <1>2, <1>3

-----------------------------------------------------------------------------
(* Types                                                                   *)

\* The types of the constants.
LEMMA ConstantTypes ==
  /\ SignatureOf \in [Calls -> Signatures] /\ ObservedAs \in [Calls -> Signatures]
  /\ Executed \in Signatures /\ Proxies \subseteq Calls
  /\ MaxEntries \in Nat \ {0} /\ MaxSessions \in Nat \ {0} /\ MaxRequests \in Nat
BY ToolMemoryConstants

\* The lists stay lists.
ListsOK ==
  /\ Recency(seen, Keys) /\ Len(seen) <= MaxEntries
  /\ Recency(logical, Keys) /\ Len(logical) <= MaxEntries
  /\ Recency(sessions, Sessions) /\ old \subseteq ToSet(sessions)

\* The rest of the types.
FieldsOK ==
  /\ history \in [Sessions -> Seq(HistoryItems)]
  /\ phase \in [Sessions -> {"idle", "replay", "record", "answer"}]
  /\ replayed \in [Sessions -> Nat] /\ \A s \in Sessions : replayed[s] <= Len(history[s])
  /\ shown \in [Sessions -> SUBSET Calls]
  /\ failures \in [Sessions -> [Signatures -> Nat]]
  /\ planned \in [Sessions -> SUBSET Signatures]
  /\ requests \in 0..MaxRequests
  /\ observed \in [Keys -> Nat]
  /\ lost \subseteq Keys /\ forgotten \subseteq Sessions

LEMMA Types == TypeOK <=> ListsOK /\ FieldsOK
BY DEF TypeOK, ListsOK, FieldsOK, Recency

\* The calls of a history are calls.
LEMMA HistoryTypes ==
  ASSUME FieldsOK, NEW s \in Sessions
  PROVE  /\ history[s] \in Seq(HistoryItems) /\ Len(history[s]) \in Nat
         /\ DOMAIN history[s] = 1..Len(history[s])
         /\ \A i \in 1..Len(history[s]) :
              /\ history[s][i] \in HistoryItems /\ history[s][i].call \in Calls
              /\ <<s, history[s][i].call>> \in Keys
         /\ replayed[s] \in Nat /\ replayed[s] <= Len(history[s])
         /\ phase[s] \in {"idle", "replay", "record", "answer"}
         /\ shown[s] \in SUBSET Calls
<1>1. history[s] \in Seq(HistoryItems)
  BY DEF FieldsOK
<1>2. ASSUME NEW i \in 1..Len(history[s])
      PROVE  history[s][i] \in HistoryItems /\ history[s][i].call \in Calls
  <2>1. history[s][i] \in HistoryItems
    BY <1>1
  <2> QED
    BY <2>1 DEF HistoryItems
<1> QED
  BY <1>1, <1>2 DEF FieldsOK, Keys

LEMMA SessionsOfKeys ==
  ASSUME NEW K \in SUBSET Keys
  PROVE  SessionsOf(K) \subseteq Sessions /\ \A k \in K : k[1] \in SessionsOf(K)
BY DEF SessionsOf, Keys

\* Marking an output keeps its key and may drop others.
LEMMA MarkEffect ==
  ASSUME ListsOK, NEW key \in Keys, Mark(key)
  PROVE  /\ Recency(seen', Keys) /\ Len(seen') <= MaxEntries
         /\ key \in ToSet(seen') /\ ToSet(seen') \subseteq ToSet(seen) \cup {key}
         /\ ToSet(seen) \subseteq Keys
         /\ forgotten' = forgotten \cup SessionsOf(Dropped(seen, seen'))
<1> DEFINE u == Touch(seen, key)
           r == Newest(u, MaxEntries)
<1>1. /\ Recency(u, Keys) /\ ToSet(u) = ToSet(seen) \cup {key}
      /\ Len(u) \in Nat \ {0} /\ u[Len(u)] = key
  BY TouchEntries DEF ListsOK
<1>2. seen' = r /\ forgotten' = forgotten \cup SessionsOf(Dropped(seen, r))
  BY DEF Mark, SetSeen
<1> HIDE DEF u
<1>3. /\ Recency(r, Keys) /\ ToSet(r) \subseteq ToSet(u) /\ Len(r) <= MaxEntries
      /\ u[Len(u)] \in ToSet(r)
  BY <1>1, ConstantTypes, NewestEntries
<1> HIDE DEF r
<1>4. ToSet(seen) \subseteq Keys
  BY Entries DEF ListsOK, Recency
<1> QED
  BY <1>1, <1>2, <1>3, <1>4

-----------------------------------------------------------------------------
(* What the other sessions do to a session                                 *)

LEMMA FailingSame ==
  ASSUME NEW h, NEW s, NEW sig, NEW o1, NEW o2,
         \A i \in 1..Len(h) : o2[<<s, h[i].call>>] = o1[<<s, h[i].call>>]
  PROVE  Failing(h, o2, s, sig) = Failing(h, o1, s, sig)
BY DEF Failing

\* A step leaves session x alone, except that its entries may be dropped.
Frame(x) ==
  /\ history'[x] = history[x] /\ phase'[x] = phase[x]
  /\ replayed'[x] = replayed[x] /\ shown'[x] = shown[x]
  /\ \A c \in Calls :
       \/ /\ observed'[<<x, c>>] = observed[<<x, c>>]
          /\ <<x, c>> \in ToSet(seen') <=> <<x, c>> \in ToSet(seen)
       \/ observed'[<<x, c>>] = 0 /\ <<x, c>> \notin ToSet(seen') /\ x \in forgotten'
  /\ \A c \in Calls :
       <<x, c>> \in ToSet(logical) \cup lost => <<x, c>> \in ToSet(logical') \cup lost'
  /\ lost \subseteq lost' /\ forgotten \subseteq forgotten'
  /\ x \in forgotten' \/ failures'[x] = failures[x]

LEMMA FrameKeeps ==
  ASSUME NEW x \in Sessions, FieldsOK, SessionGood(x), Frame(x)
  PROVE  SessionGood(x)'
<1>1. /\ history'[x] = history[x] /\ phase'[x] = phase[x]
      /\ replayed'[x] = replayed[x] /\ shown'[x] = shown[x]
      /\ lost \subseteq lost' /\ forgotten \subseteq forgotten'
  BY DEF Frame
<1>2. \A i \in 1..Len(history[x]) : history[x][i].call \in Calls
  BY HistoryTypes
<1>3. HistoryGood(x)'
  BY <1>1 DEF SessionGood, HistoryGood
<1>4. SeenGood(x)'
  <2> SUFFICES ASSUME NEW c \in Calls
               PROVE  /\ observed'[<<x, c>>] \in {0, 1}
                      /\ observed'[<<x, c>>] = 1 =>
                           /\ <<x, c>> \in ToSet(seen')
                           /\ \E i \in 1..Len(history'[x]) :
                                history'[x][i].call = c /\ history'[x][i].outcome # "pending"
                      /\ <<x, c>> \in ToSet(seen') => observed'[<<x, c>>] = 1 \/ Recording(x, c)'
                      /\ Recording(x, c)' =>
                           observed'[<<x, c>>] = 0 /\ (<<x, c>> \in ToSet(seen') \/ x \in forgotten')
    BY DEF SeenGood
  <2>1. Recording(x, c)' <=> Recording(x, c)
    BY <1>1 DEF Recording
  <2>2. \/ /\ observed'[<<x, c>>] = observed[<<x, c>>]
           /\ <<x, c>> \in ToSet(seen') <=> <<x, c>> \in ToSet(seen)
        \/ observed'[<<x, c>>] = 0 /\ <<x, c>> \notin ToSet(seen') /\ x \in forgotten'
    BY DEF Frame
  <2> QED
    BY <1>1, <2>1, <2>2 DEF SessionGood, SeenGood
<1>5. LogicalGood(x)'
  <2>1. \A c \in Calls :
          <<x, c>> \in ToSet(logical) \cup lost => <<x, c>> \in ToSet(logical') \cup lost'
    BY DEF Frame
  <2> QED
    BY <1>1, <1>2, <2>1 DEF SessionGood, LogicalGood
<1>6. CountGood(x)'
  <2> SUFFICES ASSUME x \notin forgotten', x \notin SessionsOf(lost')
               PROVE  CountGood(x)'
    BY DEF CountGood
  <2>1. x \notin forgotten \cup SessionsOf(lost)
    BY <1>1 DEF SessionsOf
  <2>2. \A i \in 1..Len(history[x]) :
          observed'[<<x, history[x][i].call>>] = observed[<<x, history[x][i].call>>]
    BY <1>2 DEF Frame
  <2>3. \A sig \in Signatures :
          Failing(history[x], observed', x, sig) = Failing(history[x], observed, x, sig)
    BY <2>2, FailingSame
  <2>4. failures'[x] = failures[x]
    BY DEF Frame
  <2>5. \A i \in 1..Len(history[x]) : Observed(x, i)' <=> Observed(x, i)
    BY <1>1, <2>2 DEF Observed
  <2>6. \A i \in 1..replayed[x] : i \in 1..Len(history[x])
    BY HistoryTypes
  <2> QED
    BY <1>1, <2>1, <2>3, <2>4, <2>5, <2>6 DEF SessionGood, CountGood
<1> QED
  BY <1>3, <1>4, <1>5, <1>6 DEF SessionGood

-----------------------------------------------------------------------------
(* The steps of Codex                                                      *)

LEMMA RunToolHistory ==
  ASSUME FieldsOK, NEW s \in Sessions, NEW i \in 1..Len(history[s]), NEW outcome \in Outcomes,
         history' = [history EXCEPT ![s][i].outcome = outcome]
  PROVE  /\ history' \in [Sessions -> Seq(HistoryItems)]
         /\ \A x \in Sessions : x # s => history'[x] = history[x]
         /\ Len(history'[s]) = Len(history[s])
         /\ \A j \in 1..Len(history[s]) :
              /\ history'[s][j].call = history[s][j].call
              /\ j # i => history'[s][j] = history[s][j]
         /\ history'[s][i].outcome = outcome
<1> DEFINE item == [history[s][i] EXCEPT !.outcome = outcome]
           h == [history[s] EXCEPT ![i] = item]
<1>1. history[s] \in Seq(HistoryItems) /\ history[s][i] \in HistoryItems
  BY HistoryTypes
<1>2. item \in HistoryItems /\ item.call = history[s][i].call /\ item.outcome = outcome
  BY <1>1 DEF HistoryItems
<1>3. history' = [history EXCEPT ![s] = h]
  OBVIOUS
<1> HIDE DEF item
<1>4. /\ h \in Seq(HistoryItems) /\ Len(h) = Len(history[s]) /\ h[i] = item
      /\ \A j \in 1..Len(history[s]) : j # i => h[j] = history[s][j]
  BY <1>1, <1>2
<1> HIDE DEF h
<1>5. history \in [Sessions -> Seq(HistoryItems)]
  BY DEF FieldsOK
<1> QED
  BY <1>2, <1>3, <1>4, <1>5

LEMMA RunToolKeeps ==
  ASSUME IInv, NEW s \in Sessions, NEW i \in DOMAIN history[s], NEW outcome \in Outcomes,
         RunTool(s, i, outcome)
  PROVE  IInv'
<1>1. ListsOK /\ FieldsOK /\ \A x \in Sessions : SessionGood(x)
  BY Types DEF IInv
<1>2. /\ i \in 1..Len(history[s]) /\ phase[s] = "idle" /\ history[s][i].outcome = "pending"
      /\ history' = [history EXCEPT ![s][i].outcome = outcome]
      /\ UNCHANGED <<requests, request, seen, logical, ledger, ghosts>>
  BY <1>1, HistoryTypes DEF RunTool
<1>3. /\ UNCHANGED <<requests, phase, replayed, shown, planned, seen, logical>>
      /\ UNCHANGED <<sessions, old, failures, observed, lost, forgotten>>
  BY <1>2 DEF request, ledger, ghosts
<1>4. /\ history' \in [Sessions -> Seq(HistoryItems)]
      /\ \A x \in Sessions : x # s => history'[x] = history[x]
      /\ Len(history'[s]) = Len(history[s])
      /\ \A j \in 1..Len(history[s]) :
           /\ history'[s][j].call = history[s][j].call
           /\ j # i => history'[s][j] = history[s][j]
      /\ history'[s][i].outcome = outcome
  BY <1>1, <1>2, RunToolHistory
<1>5. TypeOK'
  <2>1. ListsOK'
    BY <1>1, <1>3 DEF ListsOK
  <2>2. FieldsOK'
    BY <1>1, <1>3, <1>4 DEF FieldsOK
  <2> QED
    BY <2>1, <2>2, Types, PTL
<1>6. ASSUME NEW x \in Sessions, x # s PROVE SessionGood(x)'
  BY <1>1, <1>3, <1>4, <1>6, FrameKeeps DEF Frame
<1>7. SessionGood(s)'
  <2>1. /\ HistoryGood(s) /\ SeenGood(s) /\ LogicalGood(s) /\ CountGood(s)
        /\ phase'[s] = "idle" /\ outcome # "pending"
    BY <1>1, <1>2, <1>3 DEF SessionGood, Outcomes
  <2>2. HistoryGood(s)'
    BY <1>4, <2>1 DEF HistoryGood
  <2>3. \A c \in Calls : ~Recording(s, c) /\ ~Recording(s, c)'
    BY <1>2, <1>3 DEF Recording
  <2>4. SeenGood(s)'
    <3>1. \A c \in Calls :
            (\E j \in 1..Len(history[s]) : history[s][j].call = c /\ history[s][j].outcome # "pending")
              => \E j \in 1..Len(history'[s]) : history'[s][j].call = c /\ history'[s][j].outcome # "pending"
      BY <1>2, <1>4
    <3> QED
      BY <1>3, <2>1, <2>3, <3>1 DEF SeenGood
  <2>5. LogicalGood(s)'
    BY <1>3, <1>4, <2>1 DEF LogicalGood
  <2>6. ~Observed(s, i)
    <3>1. history[s][i].call \in Calls
      BY <1>1, <1>2, HistoryTypes
    <3>2. observed[<<s, history[s][i].call>>] # 1
      BY <1>2, <2>1, <3>1 DEF SeenGood, HistoryGood
    <3>3. observed[<<s, history[s][i].call>>] \in {0, 1}
      BY <2>1, <3>1 DEF SeenGood
    <3> QED
      BY <3>2, <3>3 DEF Observed
  <2>7. \A sig \in Signatures :
          Failing(history'[s], observed', s, sig) = Failing(history[s], observed, s, sig)
    <3>1. \A j \in 1..Len(history[s]) :
            observed[<<s, history[s][j].call>>] > 0 => history'[s][j] = history[s][j]
      BY <1>4, <2>6 DEF Observed
    <3>2. Len(history[s]) \in Nat
      BY <1>1, HistoryTypes
    <3>3. \A j \in 1..Len(history[s]) : \A k \in j..Len(history[s]) : k \in 1..Len(history[s])
      BY <3>2
    <3> QED
      BY <1>3, <1>4, <3>1, <3>3 DEF Failing
  <2>8. CountGood(s)'
    BY <1>3, <1>4, <2>1, <2>7 DEF CountGood, Observed
  <2> QED
    BY <2>2, <2>4, <2>5, <2>8 DEF SessionGood
<1> QED
  BY <1>5, <1>6, <1>7 DEF IInv

-----------------------------------------------------------------------------
(* The steps of a request                                                  *)

LEMMA RememberKeeps ==
  ASSUME IInv, NEW s \in Sessions, Remember(s)
  PROVE  IInv'
<1> DEFINE touched == Touch(sessions, s)
           current == Without(touched, old \ {s})
           kept == Newest(current, MaxSessions)
           gone == Dropped(sessions, kept)
<1>1. ListsOK /\ FieldsOK /\ \A x \in Sessions : SessionGood(x)
  BY Types DEF IInv
<1>2. /\ phase[s] = "idle" /\ requests < MaxRequests
      /\ \A i \in DOMAIN history[s] : history[s][i].outcome # "pending"
      /\ requests' = requests + 1
      /\ phase' = [phase EXCEPT ![s] = "replay"] /\ replayed' = [replayed EXCEPT ![s] = 0]
      /\ shown' = [shown EXCEPT ![s] = {}] /\ planned' = [planned EXCEPT ![s] = {}]
      /\ sessions' = kept /\ old' = {}
      /\ failures' = [x \in Sessions |-> IF x \in gone THEN NoFailures ELSE failures[x]]
      /\ forgotten' = forgotten \cup gone
      /\ UNCHANGED <<history, seen, logical, observed, lost>>
  BY DEF Remember
<1>3. Recency(kept, Sessions)
  <2>1. Recency(touched, Sessions)
    BY <1>1, TouchEntries DEF ListsOK
  <2> HIDE DEF touched
  <2>2. Recency(current, Sessions)
    BY <2>1, WithoutEntries
  <2> HIDE DEF current
  <2> QED
    BY <2>2, ConstantTypes, NewestEntries
<1>4. gone \subseteq Sessions
  BY <1>1, Entries DEF ListsOK, Recency, Dropped
<1> HIDE DEF kept, gone
<1>5. TypeOK'
  <2>1. ListsOK'
    BY <1>1, <1>2, <1>3 DEF ListsOK
  <2>2. FieldsOK'
    <3>1. failures' \in [Sessions -> [Signatures -> Nat]]
      BY <1>1, <1>2 DEF FieldsOK, NoFailures
    <3>2. requests' \in 0..MaxRequests
      BY <1>1, <1>2, ConstantTypes DEF FieldsOK
    <3>3. phase' \in [Sessions -> {"idle", "replay", "record", "answer"}]
      BY <1>1, <1>2 DEF FieldsOK
    <3>4. \A x \in Sessions : Len(history[x]) \in Nat
      BY <1>1, HistoryTypes
    <3>5. replayed' \in [Sessions -> Nat] /\ \A x \in Sessions : replayed'[x] <= Len(history'[x])
      BY <1>1, <1>2, <3>4 DEF FieldsOK
    <3>6. shown' \in [Sessions -> SUBSET Calls] /\ planned' \in [Sessions -> SUBSET Signatures]
      BY <1>1, <1>2 DEF FieldsOK
    <3> QED
      BY <1>1, <1>2, <1>4, <3>1, <3>2, <3>3, <3>5, <3>6 DEF FieldsOK
  <2> QED
    BY <2>1, <2>2, Types, PTL
<1>6. ASSUME NEW x \in Sessions, x # s PROVE SessionGood(x)'
  <2>1. /\ phase'[x] = phase[x] /\ replayed'[x] = replayed[x] /\ shown'[x] = shown[x]
        /\ x \in forgotten' \/ failures'[x] = failures[x]
    BY <1>1, <1>2, <1>6 DEF FieldsOK
  <2> QED
    BY <1>1, <1>2, <2>1, FrameKeeps DEF Frame
<1>7. SessionGood(s)'
  <2>1. /\ HistoryGood(s) /\ SeenGood(s) /\ LogicalGood(s) /\ CountGood(s)
        /\ phase'[s] = "replay" /\ replayed'[s] = 0 /\ history' = history
        /\ s \in forgotten' \/ failures'[s] = failures[s]
    BY <1>1, <1>2 DEF SessionGood, FieldsOK
  <2>2. DOMAIN history[s] = 1..Len(history[s]) /\ Len(history[s]) \in Nat
    BY <1>1, HistoryTypes
  <2>3. HistoryGood(s)'
    BY <1>2, <2>1, <2>2 DEF HistoryGood
  <2>4. SeenGood(s)'
    BY <1>2, <2>1 DEF SeenGood, Recording
  <2>5. LogicalGood(s)'
    BY <1>2, <2>1, <2>2 DEF LogicalGood
  <2>6. CountGood(s)'
    BY <1>2, <2>1 DEF CountGood, Observed
  <2> QED
    BY <2>3, <2>4, <2>5, <2>6 DEF SessionGood
<1> QED
  BY <1>5, <1>6, <1>7 DEF IInv

LEMMA ReplayItemKeeps ==
  ASSUME IInv, NEW s \in Sessions, ReplayItem(s)
  PROVE  IInv'
<1> DEFINE m == replayed[s] + 1
           c == history[s][m].call
           key == <<s, c>>
           known == c \in Proxies /\ key \in ToSet(logical)
<1>1. ListsOK /\ FieldsOK /\ \A x \in Sessions : SessionGood(x)
  BY Types DEF IInv
<1>2. /\ phase[s] = "replay" /\ replayed[s] < Len(history[s])
      /\ logical' = IF known THEN Touch(logical, key) ELSE logical
      /\ shown' = IF known THEN [shown EXCEPT ![s] = @ \cup {c}] ELSE shown
      /\ Mark(key)
      /\ observed' = [k \in Keys |-> IF k \in Dropped(seen, seen') THEN 0 ELSE observed[k]]
      /\ IF key \in ToSet(seen)
         THEN replayed' = [replayed EXCEPT ![s] = m] /\ UNCHANGED phase
         ELSE phase' = [phase EXCEPT ![s] = "record"] /\ UNCHANGED replayed
      /\ UNCHANGED <<history, requests, planned, sessions, old, failures, lost>>
  BY DEF ReplayItem, Key, codex, ledger
<1>3. /\ m \in 1..Len(history[s]) /\ c \in Calls /\ key \in Keys /\ m \in Nat
      /\ replayed[s] \in Nat /\ Len(history[s]) \in Nat
      /\ \A i \in 1..Len(history[s]) : history[s][i].call \in Calls
  <2>1. /\ replayed[s] \in Nat /\ Len(history[s]) \in Nat
        /\ \A i \in 1..Len(history[s]) : history[s][i].call \in Calls
    BY <1>1, HistoryTypes
  <2>2. m \in 1..Len(history[s]) /\ m \in Nat
    BY <1>2, <2>1
  <2> HIDE DEF m
  <2>3. c \in Calls
    BY <2>1, <2>2
  <2> QED
    BY <2>1, <2>2, <2>3 DEF Keys
<1> HIDE DEF m, c
<1>4. /\ Recency(seen', Keys) /\ Len(seen') <= MaxEntries
      /\ key \in ToSet(seen') /\ ToSet(seen') \subseteq ToSet(seen) \cup {key}
      /\ ToSet(seen) \subseteq Keys
      /\ forgotten' = forgotten \cup SessionsOf(Dropped(seen, seen'))
  BY <1>1, <1>2, <1>3, MarkEffect
<1>5. /\ Recency(logical', Keys) /\ Len(logical') <= MaxEntries
      /\ ToSet(logical') = ToSet(logical)
  <2>1. Recency(logical, Keys) /\ Len(logical) \in Nat /\ Len(logical) <= MaxEntries
    BY <1>1, Entries DEF ListsOK, Recency
  <2>2. CASE known
    <3> DEFINE u == Touch(logical, key)
    <3>1. logical' = u
      BY <1>2, <2>2
    <3>2. key \in ToSet(logical) /\ key \in Keys
      BY <1>3, <2>2
    <3> HIDE DEF key, known
    <3>3. /\ Recency(u, Keys) /\ ToSet(u) = ToSet(logical) \cup {key}
          /\ Len(u) \in Nat /\ Len(u) <= Len(logical)
      BY <2>1, <3>2, TouchEntries
    <3> HIDE DEF u
    <3>4. Len(u) <= MaxEntries
      BY <2>1, <3>3, ConstantTypes
    <3> QED
      BY <3>1, <3>2, <3>3, <3>4
  <2>3. CASE ~known
    BY <1>2, <2>1, <2>3
  <2> QED
    BY <2>2, <2>3
<1>6. Dropped(seen, seen') \subseteq Keys
  BY <1>4 DEF Dropped
<1>7. /\ SessionsOf(Dropped(seen, seen')) \subseteq Sessions
      /\ \A k \in Dropped(seen, seen') : k[1] \in forgotten'
  BY <1>4, <1>6, SessionsOfKeys
<1>8. TypeOK'
  <2>1. ListsOK'
    BY <1>1, <1>2, <1>4, <1>5 DEF ListsOK
  <2>2. FieldsOK'
    <3>1. observed' \in [Keys -> Nat]
      BY <1>1, <1>2 DEF FieldsOK
    <3>2. phase' \in [Sessions -> {"idle", "replay", "record", "answer"}]
      BY <1>1, <1>2 DEF FieldsOK
    <3>3. replayed' \in [Sessions -> Nat] /\ \A x \in Sessions : replayed'[x] <= Len(history'[x])
      <4>1. replayed \in [Sessions -> Nat] /\ \A x \in Sessions : replayed[x] <= Len(history[x])
        BY <1>1 DEF FieldsOK
      <4>2. m <= Len(history[s])
        BY <1>3
      <4>3. replayed' = replayed \/ replayed' = [replayed EXCEPT ![s] = m]
        BY <1>2
      <4> QED
        BY <1>2, <1>3, <4>1, <4>2, <4>3
    <3>4. shown' \in [Sessions -> SUBSET Calls]
      BY <1>1, <1>2, <1>3 DEF FieldsOK
    <3> QED
      BY <1>1, <1>2, <1>4, <1>7, <3>1, <3>2, <3>3, <3>4 DEF FieldsOK
  <2> QED
    BY <2>1, <2>2, Types, PTL
<1>9. ASSUME NEW x \in Sessions, NEW d \in Calls, <<x, d>> # key
      PROVE  \/ /\ observed'[<<x, d>>] = observed[<<x, d>>]
                /\ <<x, d>> \in ToSet(seen') <=> <<x, d>> \in ToSet(seen)
             \/ observed'[<<x, d>>] = 0 /\ <<x, d>> \notin ToSet(seen') /\ x \in forgotten'
  <2> DEFINE k == <<x, d>>
  <2>1. k \in Keys /\ k[1] = x /\ k # key
    BY <1>9 DEF Keys
  <2> HIDE DEF k
  <2>2. observed'[k] = IF k \in Dropped(seen, seen') THEN 0 ELSE observed[k]
    BY <1>2, <2>1
  <2>3. k \in ToSet(seen') => k \in ToSet(seen)
    BY <1>4, <2>1
  <2>4. \/ observed'[k] = observed[k] /\ (k \in ToSet(seen') <=> k \in ToSet(seen))
        \/ observed'[k] = 0 /\ k \notin ToSet(seen') /\ x \in forgotten'
    BY <1>7, <2>1, <2>2, <2>3 DEF Dropped
  <2> QED
    BY <2>4 DEF k
<1>10. ASSUME NEW x \in Sessions, x # s PROVE SessionGood(x)'
  <2>1. phase'[x] = phase[x] /\ replayed'[x] = replayed[x] /\ shown'[x] = shown[x]
    BY <1>1, <1>2, <1>10 DEF FieldsOK
  <2>2. \A d \in Calls : <<x, d>> # key
    BY <1>10
  <2> QED
    BY <1>1, <1>2, <1>4, <1>5, <1>9, <2>1, <2>2, FrameKeeps DEF Frame
<1>11. SessionGood(s)'
  <2>1. HistoryGood(s) /\ SeenGood(s) /\ LogicalGood(s) /\ CountGood(s) /\ history' = history
    BY <1>1, <1>2 DEF SessionGood
  <2>2. CASE key \in ToSet(seen)
    <3>1. phase'[s] = "replay" /\ replayed'[s] = m
      BY <1>1, <1>2, <2>2 DEF FieldsOK
    <3>2. observed[key] = 1 /\ observed'[key] = 1
      <4>1. observed[key] = 1
        BY <1>2, <1>3, <2>1, <2>2 DEF SeenGood, Recording
      <4>2. key \notin Dropped(seen, seen')
        BY <1>4 DEF Dropped
      <4> QED
        BY <1>2, <1>3, <4>1, <4>2
    <3> QED
      <4>1. HistoryGood(s)'
        BY <1>2, <2>1, <3>1 DEF HistoryGood
      <4>2. SeenGood(s)'
        <5>1. \A d \in Calls : ~Recording(s, d) /\ ~Recording(s, d)'
          BY <1>2, <3>1 DEF Recording
        <5>2. \A d \in Calls : d = c \/ <<s, d>> # key
          OBVIOUS
        <5> QED
          BY <1>4, <1>9, <2>1, <2>2, <3>2, <5>1, <5>2 DEF SeenGood
      <4>3. LogicalGood(s)'
        <5>1. \A i \in 1..Len(history[s]) : i <= m => i <= replayed[s] \/ i = m
          BY <1>3 DEF m
        <5>2. \A i \in 1..Len(history[s]) : i <= replayed[s] /\ history[s][i].call \in Proxies =>
                history[s][i].call \in shown[s] \/ <<s, history[s][i].call>> \in lost
          BY <1>2, <2>1 DEF LogicalGood
        <5>3. history[s][m].call \in Proxies =>
                history[s][m].call \in shown'[s] \/ <<s, history[s][m].call>> \in lost
          <6>1. shown \in [Sessions -> SUBSET Calls]
            BY <1>1 DEF FieldsOK
          <6>2. c \in Proxies => key \in ToSet(logical) \cup lost
            BY <1>3, <2>1 DEF LogicalGood, c
          <6> QED
            BY <1>2, <6>1, <6>2 DEF c
        <5>4. shown[s] \subseteq shown'[s]
          BY <1>1, <1>2 DEF FieldsOK
        <5> QED
          BY <1>2, <1>5, <2>1, <3>1, <5>1, <5>2, <5>3, <5>4 DEF LogicalGood
      <4>4. CountGood(s)'
        <5> SUFFICES ASSUME s \notin forgotten', s \notin SessionsOf(lost)
                     PROVE  CountGood(s)'
          BY <1>2 DEF CountGood
        <5>1. \A i \in 1..Len(history[s]) :
                observed'[<<s, history[s][i].call>>] = observed[<<s, history[s][i].call>>]
          <6>1. \A d \in Calls : <<s, d>> # key => observed'[<<s, d>>] = observed[<<s, d>>]
            BY <1>9
          <6> QED
            BY <1>3, <3>2, <6>1
        <5>2. \A sig \in Signatures :
                Failing(history[s], observed', s, sig) = Failing(history[s], observed, s, sig)
          BY <5>1, FailingSame
        <5>3. \A i \in 1..Len(history[s]) : Observed(s, i)' <=> Observed(s, i)
          BY <2>1, <5>1 DEF Observed
        <5>4. Observed(s, m)
          BY <3>2 DEF Observed, c
        <5>5. s \notin forgotten
          BY <1>4
        <5>6. \A i \in 1..m : i \in 1..Len(history[s]) /\ (i \in 1..replayed[s] \/ i = m)
          BY <1>3 DEF m
        <5> QED
          BY <1>2, <2>1, <3>1, <5>2, <5>3, <5>4, <5>5, <5>6 DEF CountGood
      <4> QED
        BY <4>1, <4>2, <4>3, <4>4 DEF SessionGood
  <2>3. CASE key \notin ToSet(seen)
    <3>1. phase'[s] = "record" /\ replayed'[s] = replayed[s]
      BY <1>1, <1>2, <2>3 DEF FieldsOK
    <3>2. observed[key] = 0 /\ observed'[key] = 0
      <4>1. observed[key] = 0
        BY <1>3, <2>1, <2>3 DEF SeenGood
      <4> QED
        BY <1>2, <1>3, <4>1
    <3>3. \A d \in Calls : ~Recording(s, d) /\ (Recording(s, d)' <=> d = c)
      BY <1>2, <2>1, <3>1 DEF Recording, c, m
    <3> QED
      <4>1. HistoryGood(s)'
        BY <1>2, <2>1, <3>1 DEF HistoryGood
      <4>2. SeenGood(s)'
        <5>1. \A d \in Calls : d = c \/ <<s, d>> # key
          OBVIOUS
        <5> QED
          BY <1>4, <1>9, <2>1, <2>3, <3>2, <3>3, <5>1 DEF SeenGood
      <4>3. LogicalGood(s)'
        <5>2. \A i \in 1..Len(history[s]) : i <= replayed[s] /\ history[s][i].call \in Proxies =>
                history[s][i].call \in shown[s] \/ <<s, history[s][i].call>> \in lost
          BY <1>2, <2>1 DEF LogicalGood
        <5>3. history[s][m].call \in Proxies =>
                history[s][m].call \in shown'[s] \/ <<s, history[s][m].call>> \in lost
          <6>1. shown \in [Sessions -> SUBSET Calls]
            BY <1>1 DEF FieldsOK
          <6>2. c \in Proxies => key \in ToSet(logical) \cup lost
            BY <1>3, <2>1 DEF LogicalGood, c
          <6> QED
            BY <1>2, <6>1, <6>2 DEF c
        <5>4. shown[s] \subseteq shown'[s]
          BY <1>1, <1>2 DEF FieldsOK
        <5> QED
          BY <1>2, <1>5, <2>1, <3>1, <5>2, <5>3, <5>4 DEF LogicalGood, m
      <4>4. CountGood(s)'
        <5> SUFFICES ASSUME s \notin forgotten', s \notin SessionsOf(lost)
                     PROVE  CountGood(s)'
          BY <1>2 DEF CountGood
        <5>1. \A i \in 1..Len(history[s]) :
                observed'[<<s, history[s][i].call>>] = observed[<<s, history[s][i].call>>]
          <6>1. \A d \in Calls : <<s, d>> # key => observed'[<<s, d>>] = observed[<<s, d>>]
            BY <1>9
          <6> QED
            BY <1>3, <3>2, <6>1
        <5>2. \A sig \in Signatures :
                Failing(history[s], observed', s, sig) = Failing(history[s], observed, s, sig)
          BY <5>1, FailingSame
        <5>3. \A i \in 1..Len(history[s]) : Observed(s, i)' <=> Observed(s, i)
          BY <2>1, <5>1 DEF Observed
        <5>5. s \notin forgotten
          BY <1>4
        <5>6. \A i \in 1..replayed[s] : i \in 1..Len(history[s])
          BY <1>3, <1>2
        <5> QED
          BY <1>2, <2>1, <3>1, <5>2, <5>3, <5>5, <5>6 DEF CountGood
      <4> QED
        BY <4>1, <4>2, <4>3, <4>4 DEF SessionGood
  <2> QED
    BY <2>2, <2>3
<1> QED
  BY <1>8, <1>10, <1>11 DEF IInv

\* An output that makes progress ends all failures, an acknowledged one leaves
\* them, and one that failed is one more failure of its signature.
LEMMA FailingObserved ==
  ASSUME NEW h, NEW s, NEW sig, NEW o1, NEW o2, NEW m \in 1..Len(h), Len(h) \in Nat,
         \A i \in 1..Len(h) : o1[<<s, h[i].call>>] > 0 => i < m,
         \A i \in 1..Len(h) : o2[<<s, h[i].call>>] > 0 <=> o1[<<s, h[i].call>>] > 0 \/ i = m
  PROVE  /\ h[m].outcome = "progress" => Failing(h, o2, s, sig) = {}
         /\ h[m].outcome # "progress" /\ ~(h[m].outcome = "failure" /\ ObservedAs[h[m].call] = sig)
              => Failing(h, o2, s, sig) = Failing(h, o1, s, sig)
         /\ h[m].outcome = "failure" /\ ObservedAs[h[m].call] = sig
              => Failing(h, o2, s, sig) = Failing(h, o1, s, sig) \cup {m}
         /\ m \notin Failing(h, o1, s, sig) /\ IsFiniteSet(Failing(h, o1, s, sig))
<1> DEFINE was(i) == o1[<<s, h[i].call>>] > 0
           is(i) == o2[<<s, h[i].call>>] > 0
           Counted(obs(_), i) == /\ obs(i) /\ ObservedAs[h[i].call] = sig /\ h[i].outcome = "failure"
                                 /\ \A j \in i..Len(h) : obs(j) => h[j].outcome # "progress"
<1>1. /\ Failing(h, o1, s, sig) = {i \in 1..Len(h) : Counted(was, i)}
      /\ Failing(h, o2, s, sig) = {i \in 1..Len(h) : Counted(is, i)}
  BY DEF Failing
<1>2. /\ \A i \in 1..Len(h) : was(i) => i < m
      /\ \A i \in 1..Len(h) : is(i) <=> was(i) \/ i = m
  OBVIOUS
<1>3. \A i \in 1..Len(h) : \A j \in i..Len(h) : j \in 1..Len(h)
  OBVIOUS
<1>4. \A i \in 1..Len(h) : i < m => m \in i..Len(h)
  OBVIOUS
<1>5. m \in m..Len(h) /\ \A j \in m..Len(h) : j < m => FALSE
  OBVIOUS
<1> HIDE DEF was, is
<1>6. h[m].outcome = "progress" => \A i \in 1..Len(h) : ~Counted(is, i)
  BY <1>2, <1>4, <1>5
<1>7. h[m].outcome # "progress" => \A i \in 1..Len(h) : i # m => (Counted(is, i) <=> Counted(was, i))
  BY <1>2, <1>3
<1>8. ~Counted(was, m)
  BY <1>2
<1>9. h[m].outcome = "failure" /\ ObservedAs[h[m].call] = sig => Counted(is, m)
  BY <1>2, <1>3, <1>5
<1>10. ~(h[m].outcome = "failure" /\ ObservedAs[h[m].call] = sig) => ~Counted(is, m)
  OBVIOUS
<1>11. IsFiniteSet(Failing(h, o1, s, sig))
  <2>1. Failing(h, o1, s, sig) \subseteq 1..Len(h)
    BY <1>1
  <2>2. IsFiniteSet(1..Len(h))
    BY FS_Interval
  <2> QED
    BY <2>1, <2>2, FS_Subset
<1> HIDE DEF Counted
<1> QED
  BY <1>1, <1>6, <1>7, <1>8, <1>9, <1>10, <1>11

LEMMA RecordKeeps ==
  ASSUME IInv, NEW s \in Sessions, Record(s)
  PROVE  IInv'
<1> DEFINE m == replayed[s] + 1
           c == history[s][m].call
           key == <<s, c>>
           sig == IF c \in Proxies \ shown[s] THEN Executed ELSE ObservedAs[c]
           outcome == history[s][m].outcome
<1>1. ListsOK /\ FieldsOK /\ \A x \in Sessions : SessionGood(x)
  BY Types DEF IInv
<1>2. /\ phase[s] = "record"
      /\ failures' = [failures EXCEPT ![s] = Attempt(failures[s], sig, outcome)]
      /\ observed' = IF key \in ToSet(seen)
                     THEN [observed EXCEPT ![key] = observed[key] + 1] ELSE observed
      /\ sessions' = Touch(sessions, s) /\ old' = old \ {s}
      /\ phase' = [phase EXCEPT ![s] = "replay"] /\ replayed' = [replayed EXCEPT ![s] = m]
      /\ UNCHANGED <<history, requests, shown, planned, seen, logical, lost, forgotten>>
  BY DEF Record, Key, codex
<1>3. HistoryGood(s) /\ SeenGood(s) /\ LogicalGood(s) /\ CountGood(s)
  BY <1>1 DEF SessionGood
<1>4. /\ replayed[s] \in Nat /\ Len(history[s]) \in Nat
      /\ \A i \in 1..Len(history[s]) :
           history[s][i] \in HistoryItems /\ history[s][i].call \in Calls
  BY <1>1, HistoryTypes
<1>5. m \in 1..Len(history[s]) /\ m \in Nat
  BY <1>2, <1>3, <1>4 DEF HistoryGood
<1>6. /\ c \in Calls /\ key \in Keys /\ sig \in Signatures /\ outcome \in Outcomes
      /\ Recording(s, c) /\ \A d \in Calls : Recording(s, d) => d = c
  <2>1. c \in Calls /\ outcome # "pending" /\ history[s][m] \in HistoryItems
    BY <1>2, <1>3, <1>4, <1>5 DEF HistoryGood
  <2>2. outcome \in Outcomes
    BY <2>1 DEF HistoryItems
  <2>3. sig \in Signatures
    BY <2>1, ConstantTypes
  <2> QED
    BY <1>2, <2>1, <2>2, <2>3 DEF Keys, Recording
<1>7. observed[key] = 0 /\ (key \in ToSet(seen) \/ s \in forgotten)
  BY <1>3, <1>6 DEF SeenGood
<1> DEFINE attempt == Attempt(failures[s], sig, outcome)
<1> HIDE DEF m, c, sig, outcome
<1>8. observed'[key] = IF key \in ToSet(seen) THEN 1 ELSE 0
  BY <1>1, <1>2, <1>6, <1>7 DEF FieldsOK
<1>9. \A x \in Sessions, d \in Calls : <<x, d>> # key => observed'[<<x, d>>] = observed[<<x, d>>]
  BY <1>1, <1>2 DEF FieldsOK, Keys
<1>10. TypeOK'
  <2>1. ListsOK'
    <3>1. Recency(Touch(sessions, s), Sessions) /\ ToSet(Touch(sessions, s)) = ToSet(sessions) \cup {s}
      BY <1>1, TouchEntries DEF ListsOK
    <3> QED
      BY <1>1, <1>2, <3>1 DEF ListsOK
  <2>2. FieldsOK'
    <3>1. observed' \in [Keys -> Nat]
      BY <1>1, <1>2, <1>6 DEF FieldsOK
    <3>2. phase' \in [Sessions -> {"idle", "replay", "record", "answer"}]
      BY <1>1, <1>2 DEF FieldsOK
    <3>3. replayed' \in [Sessions -> Nat] /\ \A x \in Sessions : replayed'[x] <= Len(history'[x])
      <4>1. replayed \in [Sessions -> Nat] /\ \A x \in Sessions : replayed[x] <= Len(history[x])
        BY <1>1 DEF FieldsOK
      <4>2. m <= Len(history[s])
        BY <1>5
      <4> QED
        BY <1>2, <1>5, <4>1, <4>2
    <3>4. attempt \in [Signatures -> Nat]
      <4>1. failures[s] \in [Signatures -> Nat]
        BY <1>1 DEF FieldsOK
      <4>2. CASE outcome = "progress"
        BY <4>2 DEF Attempt, NoFailures
      <4>3. CASE outcome = "ack"
        BY <4>1, <4>3 DEF Attempt
      <4>4. CASE outcome = "failure"
        BY <1>6, <4>1, <4>4 DEF Attempt
      <4> QED
        BY <1>6, <4>2, <4>3, <4>4 DEF Outcomes
    <3> HIDE DEF attempt
    <3>5. failures' \in [Sessions -> [Signatures -> Nat]]
      <4>1. failures' = [failures EXCEPT ![s] = attempt]
        BY <1>2 DEF attempt
      <4> QED
        BY <1>1, <3>4, <4>1 DEF FieldsOK
    <3> QED
      BY <1>1, <1>2, <3>1, <3>2, <3>3, <3>5 DEF FieldsOK
  <2> QED
    BY <2>1, <2>2, Types, PTL
<1>11. ASSUME NEW x \in Sessions, x # s PROVE SessionGood(x)'
  <2>1. /\ phase'[x] = phase[x] /\ replayed'[x] = replayed[x] /\ failures'[x] = failures[x]
    BY <1>1, <1>2, <1>11 DEF FieldsOK
  <2>2. \A d \in Calls : observed'[<<x, d>>] = observed[<<x, d>>]
    BY <1>9, <1>11
  <2> QED
    BY <1>1, <1>2, <2>1, <2>2, FrameKeeps DEF Frame
<1>12. SessionGood(s)'
  <2>1. /\ phase'[s] = "replay" /\ replayed'[s] = m
        /\ history' = history /\ shown' = shown /\ seen' = seen
    BY <1>1, <1>2 DEF FieldsOK
  <2>2. HistoryGood(s)'
    BY <1>2, <1>3, <2>1 DEF HistoryGood
  <2>3. SeenGood(s)'
    <3>1. \A d \in Calls : ~Recording(s, d)' /\ (d # c => ~Recording(s, d))
      BY <1>6, <2>1 DEF Recording
    <3>2. \A d \in Calls : d = c \/ <<s, d>> # key
      OBVIOUS
    <3>3. \E i \in 1..Len(history[s]) :
            history[s][i].call = c /\ history[s][i].outcome # "pending"
      BY <1>5, <1>6 DEF c, outcome, Outcomes
    <3> QED
      BY <1>3, <1>8, <1>9, <2>1, <3>1, <3>2, <3>3 DEF SeenGood
  <2>4. LogicalGood(s)'
    <3>1. \A i \in 1..Len(history[s]) : i <= m => i <= replayed[s] \/ i = replayed[s] + 1
      BY <1>4 DEF m
    <3> QED
      BY <1>2, <1>3, <2>1, <3>1 DEF LogicalGood
  <2>5. CountGood(s)'
    <3> SUFFICES ASSUME s \notin forgotten, s \notin SessionsOf(lost)
                 PROVE  CountGood(s)'
      BY <1>2 DEF CountGood
    <3>1. /\ \A i, j \in 1..Len(history[s]) : i < j /\ Observed(s, j) => Observed(s, i)
          /\ \A i \in 1..replayed[s] : Observed(s, i)
          /\ \A sg \in Signatures :
               failures[s][sg] = Cardinality(Failing(history[s], observed, s, sg))
      BY <1>2, <1>3 DEF CountGood
    <3>2. observed'[key] = 1 /\ ~Observed(s, m)
      BY <1>7, <1>8 DEF Observed, c
    <3>3. \A i \in 1..Len(history[s]) : Observed(s, i) => i < m
      BY <1>4, <1>5, <3>1, <3>2
    <3>4. \A i \in 1..Len(history[s]) : Observed(s, i)' <=> Observed(s, i) \/ i = m
      <4>1. \A i \in 1..Len(history[s]) : history[s][i].call = c => i = m
        BY <1>3, <1>5 DEF HistoryGood, c
      <4>2. \A i \in 1..Len(history[s]) : i # m =>
              observed'[<<s, history[s][i].call>>] = observed[<<s, history[s][i].call>>]
        BY <1>4, <1>9, <4>1
      <4>3. observed'[<<s, history[s][m].call>>] > 0
        BY <3>2 DEF c
      <4> QED
        BY <2>1, <4>2, <4>3 DEF Observed
    <3>5. \A i \in 1..Len(history[s]) : i <= m => Observed(s, i)'
      <4>1. \A i \in 1..Len(history[s]) : i <= m => i \in 1..replayed[s] \/ i = m
        BY <1>4 DEF m
      <4> QED
        BY <3>1, <3>4, <4>1
    <3>6. sig = ObservedAs[c]
      <4>1. c \in Proxies => c \in shown[s] \/ key \in lost
        BY <1>2, <1>3, <1>5 DEF LogicalGood, c, m
      <4>2. key \notin lost
        BY DEF SessionsOf
      <4> QED
        BY <4>1, <4>2 DEF sig
    <3>7. ASSUME NEW sg \in Signatures
          PROVE  failures'[s][sg] = Cardinality(Failing(history[s], observed', s, sg))
      <4> DEFINE F1 == Failing(history[s], observed, s, sg)
                 F2 == Failing(history[s], observed', s, sg)
      <4>1. /\ outcome = "progress" => F2 = {}
            /\ outcome # "progress" /\ ~(outcome = "failure" /\ ObservedAs[c] = sg) => F2 = F1
            /\ outcome = "failure" /\ ObservedAs[c] = sg => F2 = F1 \cup {m}
            /\ m \notin F1 /\ IsFiniteSet(F1)
        <5>1. /\ \A i \in 1..Len(history[s]) : observed[<<s, history[s][i].call>>] > 0 => i < m
              /\ \A i \in 1..Len(history[s]) :
                   observed'[<<s, history[s][i].call>>] > 0
                     <=> observed[<<s, history[s][i].call>>] > 0 \/ i = m
          BY <2>1, <3>3, <3>4 DEF Observed
        <5> QED
          BY <1>4, <1>5, <5>1, FailingObserved DEF c, outcome
      <4>2. failures[s][sg] = Cardinality(F1)
        BY <3>1
      <4>3. failures' = [failures EXCEPT ![s] = Attempt(failures[s], ObservedAs[c], outcome)]
        BY <1>2, <3>6
      <4>4. failures'[s] = Attempt(failures[s], ObservedAs[c], outcome) /\ failures[s] \in [Signatures -> Nat]
        BY <1>1, <4>3 DEF FieldsOK
      <4> HIDE DEF F1, F2
      <4>5. CASE outcome = "progress"
        <5>1. failures'[s] = NoFailures
          BY <4>4, <4>5 DEF Attempt
        <5> QED
          BY <4>1, <4>5, <5>1, FS_EmptySet DEF NoFailures, F2
      <4>6. CASE outcome = "ack"
        <5>1. failures'[s] = failures[s]
          BY <4>4, <4>6 DEF Attempt
        <5> QED
          BY <4>1, <4>2, <4>6, <5>1 DEF F2
      <4>7. CASE outcome = "failure"
        <5>1. failures'[s] = [failures[s] EXCEPT ![ObservedAs[c]] = @ + 1]
          BY <4>4, <4>7 DEF Attempt
        <5>2. CASE ObservedAs[c] = sg
          <6>1. failures'[s][sg] = failures[s][sg] + 1
            BY <4>4, <5>1, <5>2
          <6>2. Cardinality(F2) = Cardinality(F1) + 1
            BY <4>1, <4>7, <5>2, FS_AddElement
          <6> QED
            BY <4>2, <6>1, <6>2 DEF F2
        <5>3. CASE ObservedAs[c] # sg
          <6>1. failures'[s][sg] = failures[s][sg]
            BY <4>4, <5>1, <5>3
          <6> QED
            BY <4>1, <4>2, <4>7, <5>3, <6>1 DEF F2
        <5> QED
          BY <5>2, <5>3
      <4> QED
        BY <1>6, <4>5, <4>6, <4>7 DEF Outcomes
    <3>8. \A i \in 1..m : i \in 1..Len(history[s]) /\ i <= m
      BY <1>4, <1>5
    <3>9. \A i, j \in 1..Len(history[s]) : i < j /\ Observed(s, j)' => Observed(s, i)'
      BY <1>4, <1>5, <3>1, <3>4, <3>5
    <3> QED
      BY <2>1, <3>5, <3>7, <3>8, <3>9 DEF CountGood
  <2> QED
    BY <2>2, <2>3, <2>4, <2>5 DEF SessionGood
<1> QED
  BY <1>10, <1>11, <1>12 DEF IInv

LEMMA AskKeeps ==
  ASSUME IInv, NEW s \in Sessions, Ask(s)
  PROVE  IInv'
<1>1. ListsOK /\ FieldsOK /\ \A x \in Sessions : SessionGood(x)
  BY Types DEF IInv
<1>2. /\ phase[s] = "replay" /\ phase' = [phase EXCEPT ![s] = "answer"]
      /\ UNCHANGED <<history, requests, replayed, shown, planned, seen, logical, sessions, old,
                     failures, observed, lost, forgotten>>
  BY DEF Ask, codex, ledger, ghosts
<1>3. TypeOK'
  <2>1. ListsOK'
    BY <1>1, <1>2 DEF ListsOK
  <2>2. FieldsOK'
    BY <1>1, <1>2 DEF FieldsOK
  <2> QED
    BY <2>1, <2>2, Types, PTL
<1>4. ASSUME NEW x \in Sessions, x # s PROVE SessionGood(x)'
  <2>1. phase'[x] = phase[x]
    BY <1>1, <1>2, <1>4 DEF FieldsOK
  <2> QED
    BY <1>1, <1>2, <2>1, FrameKeeps DEF Frame
<1>5. SessionGood(s)'
  <2>1. /\ HistoryGood(s) /\ SeenGood(s) /\ LogicalGood(s) /\ CountGood(s)
        /\ phase'[s] = "answer"
    BY <1>1, <1>2 DEF SessionGood, FieldsOK
  <2>2. HistoryGood(s)'
    BY <1>2, <2>1 DEF HistoryGood
  <2>3. SeenGood(s)'
    BY <1>2, <2>1 DEF SeenGood, Recording
  <2>4. LogicalGood(s)'
    BY <1>2, <2>1 DEF LogicalGood
  <2>5. CountGood(s)'
    BY <1>2, <2>1 DEF CountGood, Observed
  <2> QED
    BY <2>2, <2>3, <2>4, <2>5 DEF SessionGood
<1> QED
  BY <1>3, <1>4, <1>5 DEF IInv

LEMMA ForgetKeeps ==
  ASSUME IInv, NEW s \in Sessions, Forget(s)
  PROVE  IInv'
<1>1. ListsOK /\ FieldsOK /\ \A x \in Sessions : SessionGood(x)
  BY Types DEF IInv
<1>2. /\ phase[s] = "answer" /\ phase' = [phase EXCEPT ![s] = "idle"]
      /\ planned' = [planned EXCEPT ![s] = {}]
      /\ UNCHANGED <<history, requests, replayed, shown, seen, logical, sessions, old,
                     failures, observed, lost, forgotten>>
  BY DEF Forget, codex, ledger, ghosts
<1>3. TypeOK'
  <2>1. ListsOK'
    BY <1>1, <1>2 DEF ListsOK
  <2>2. FieldsOK'
    BY <1>1, <1>2 DEF FieldsOK
  <2> QED
    BY <2>1, <2>2, Types, PTL
<1>4. ASSUME NEW x \in Sessions, x # s PROVE SessionGood(x)'
  <2>1. phase'[x] = phase[x]
    BY <1>1, <1>2, <1>4 DEF FieldsOK
  <2> QED
    BY <1>1, <1>2, <2>1, FrameKeeps DEF Frame
<1>5. SessionGood(s)'
  <2>1. /\ HistoryGood(s) /\ SeenGood(s) /\ LogicalGood(s) /\ CountGood(s)
        /\ phase'[s] = "idle"
    BY <1>1, <1>2 DEF SessionGood, FieldsOK
  <2>2. HistoryGood(s)'
    BY <1>2, <2>1 DEF HistoryGood
  <2>3. SeenGood(s)'
    BY <1>2, <2>1 DEF SeenGood, Recording
  <2>4. LogicalGood(s)'
    BY <1>2, <2>1 DEF LogicalGood
  <2>5. CountGood(s)'
    BY <1>2, <2>1 DEF CountGood, Observed
  <2> QED
    BY <2>2, <2>3, <2>4, <2>5 DEF SessionGood
<1> QED
  BY <1>3, <1>4, <1>5 DEF IInv

\* A call of a proxy is remembered, whatever else is dropped for it.
LEMMA RemembersEntries ==
  ASSUME ListsOK, NEW s \in Sessions, NEW c \in Calls
  PROVE  /\ Recency(Remembers(s, c), Keys) /\ Len(Remembers(s, c)) <= MaxEntries
         /\ c \in Proxies => <<s, c>> \in ToSet(Remembers(s, c))
<1> DEFINE key == <<s, c>>
           u == Touch(logical, key)
           r == Newest(u, MaxEntries)
<1>1. key \in Keys
  BY DEF Keys
<1> HIDE DEF key
<1>2. /\ Recency(u, Keys) /\ Len(u) \in Nat \ {0} /\ u[Len(u)] = key
  BY <1>1, TouchEntries DEF ListsOK
<1> HIDE DEF u
<1>3. Recency(r, Keys) /\ Len(r) <= MaxEntries /\ key \in ToSet(r)
  BY <1>2, ConstantTypes, NewestEntries
<1>4. Remembers(s, c) = IF c \in Proxies THEN r ELSE logical
  BY DEF Remembers, Key, r, u, key
<1> HIDE DEF r
<1> QED
  BY <1>3, <1>4 DEF ListsOK, key

\* A call whose output has not been observed does not count.
LEMMA FailingAppended ==
  ASSUME NEW h, NEW g, NEW s, NEW sig, NEW obs, Len(h) \in Nat, Len(g) = Len(h) + 1,
         \A i \in 1..Len(h) : g[i] = h[i], ~(obs[<<s, g[Len(h) + 1].call>>] > 0)
  PROVE  Failing(g, obs, s, sig) = Failing(h, obs, s, sig)
<1> DEFINE was(i) == obs[<<s, h[i].call>>] > 0
           is(i) == obs[<<s, g[i].call>>] > 0
<1>1. /\ \A i \in 1..Len(h) : i \in 1..Len(g) /\ g[i] = h[i] /\ (is(i) <=> was(i))
      /\ \A i \in 1..Len(g) : is(i) => i \in 1..Len(h)
  OBVIOUS
<1>2. /\ Failing(h, obs, s, sig) =
           {i \in 1..Len(h) :
              /\ was(i) /\ ObservedAs[h[i].call] = sig /\ h[i].outcome = "failure"
              /\ \A j \in i..Len(h) : was(j) => h[j].outcome # "progress"}
      /\ Failing(g, obs, s, sig) =
           {i \in 1..Len(g) :
              /\ is(i) /\ ObservedAs[g[i].call] = sig /\ g[i].outcome = "failure"
              /\ \A j \in i..Len(g) : is(j) => g[j].outcome # "progress"}
  BY DEF Failing
<1>3. /\ \A i \in 1..Len(h) : \A j \in i..Len(g) : j \in 1..Len(g) /\ (j \in 1..Len(h) => j \in i..Len(h))
      /\ \A i \in 1..Len(h) : \A j \in i..Len(h) : j \in i..Len(g) /\ j \in 1..Len(h)
  OBVIOUS
<1> HIDE DEF was, is
<1>4. ASSUME NEW i \in 1..Len(h)
      PROVE  (\A j \in i..Len(g) : is(j) => g[j].outcome # "progress")
               <=> \A j \in i..Len(h) : was(j) => h[j].outcome # "progress"
  BY <1>1, <1>3
<1> QED
  BY <1>1, <1>2, <1>4

LEMMA CallKeeps ==
  ASSUME IInv, NEW s \in Sessions, NEW c \in Calls, Call(s, c)
  PROVE  IInv'
<1> DEFINE h == history[s]
           item == [call |-> c, outcome |-> "pending"]
<1>1. ListsOK /\ FieldsOK /\ \A x \in Sessions : SessionGood(x)
  BY Types DEF IInv
<1>2. /\ phase[s] = "answer" /\ \A i \in DOMAIN h : h[i].call # c
      /\ logical' = Remembers(s, c)
      /\ lost' = lost \cup Dropped(logical, logical')
      /\ \/ UNCHANGED <<history, planned>>
         \/ /\ history' = [history EXCEPT ![s] = Append(h, item)]
            /\ planned' = IF CanReturnLocalText
                          THEN [planned EXCEPT ![s] = @ \cup {SignatureOf[c]}] ELSE planned
      /\ UNCHANGED <<requests, phase, replayed, shown, seen, sessions, old, failures, observed,
                     forgotten>>
  BY DEF Call, ledger
<1>3. /\ Recency(logical', Keys) /\ Len(logical') <= MaxEntries
      /\ c \in Proxies => <<s, c>> \in ToSet(logical')
  BY <1>1, <1>2, RemembersEntries
<1>4. /\ h \in Seq(HistoryItems) /\ Len(h) \in Nat /\ DOMAIN h = 1..Len(h)
      /\ replayed[s] \in Nat /\ replayed[s] <= Len(h)
      /\ \A i \in 1..Len(h) : h[i].call \in Calls
  BY <1>1, HistoryTypes
<1>5. item \in HistoryItems
  BY DEF HistoryItems, Outcomes
<1> HIDE DEF item
<1>6. /\ Append(h, item) \in Seq(HistoryItems) /\ Len(Append(h, item)) = Len(h) + 1
      /\ Append(h, item)[Len(h) + 1] = item
      /\ \A i \in 1..Len(h) : Append(h, item)[i] = h[i]
  BY <1>4, <1>5
<1>7. item.call = c /\ item.outcome = "pending"
  BY DEF item
<1>8. \/ history' = history
      \/ /\ history' = [history EXCEPT ![s] = Append(h, item)]
         /\ history'[s] = Append(h, item)
  BY <1>1, <1>2 DEF FieldsOK
<1>9. /\ \A x \in Sessions, d \in Calls :
           <<x, d>> \in ToSet(logical) \cup lost => <<x, d>> \in ToSet(logical') \cup lost'
      /\ lost \subseteq lost'
  BY <1>2 DEF Dropped
<1>10. TypeOK'
  <2>1. ListsOK'
    BY <1>1, <1>2, <1>3 DEF ListsOK
  <2>2. FieldsOK'
    <3>1. history' \in [Sessions -> Seq(HistoryItems)]
      BY <1>1, <1>6, <1>8 DEF FieldsOK
    <3>2. \A x \in Sessions : replayed[x] <= Len(history'[x])
      <4>1. \A x \in Sessions : replayed[x] <= Len(history[x])
        BY <1>1 DEF FieldsOK
      <4>2. replayed[s] <= Len(Append(h, item))
        BY <1>4, <1>6
      <4>3. \A x \in Sessions : x # s => history'[x] = history[x]
        BY <1>1, <1>8 DEF FieldsOK
      <4> QED
        BY <1>8, <4>1, <4>2, <4>3
    <3>3. planned' \in [Sessions -> SUBSET Signatures]
      <4>1. planned' = planned \/ planned' = [planned EXCEPT ![s] = @ \cup {SignatureOf[c]}]
        BY <1>2
      <4>2. SignatureOf[c] \in Signatures
        BY ConstantTypes
      <4>3. planned \in [Sessions -> SUBSET Signatures]
        BY <1>1 DEF FieldsOK
      <4> QED
        BY <4>1, <4>2, <4>3
    <3>4. Dropped(logical, logical') \subseteq Keys
      BY <1>1, Entries DEF ListsOK, Recency, Dropped
    <3> QED
      BY <1>1, <1>2, <3>1, <3>2, <3>3, <3>4 DEF FieldsOK
  <2> QED
    BY <2>1, <2>2, Types, PTL
<1>11. ASSUME NEW x \in Sessions, x # s PROVE SessionGood(x)'
  <2>1. history'[x] = history[x]
    BY <1>1, <1>8, <1>11 DEF FieldsOK
  <2> QED
    BY <1>1, <1>2, <1>9, <2>1, FrameKeeps DEF Frame
<1>12. SessionGood(s)'
  <2>1. HistoryGood(s) /\ SeenGood(s) /\ LogicalGood(s) /\ CountGood(s)
    BY <1>1 DEF SessionGood
  <2>2. \A x \in Sessions : x \notin SessionsOf(lost') => x \notin SessionsOf(lost)
    BY <1>9 DEF SessionsOf
  <2>3. CASE history' = history
    <3>1. HistoryGood(s)'
      BY <1>2, <2>1, <2>3 DEF HistoryGood
    <3>2. SeenGood(s)'
      BY <1>2, <2>1, <2>3 DEF SeenGood, Recording
    <3>3. LogicalGood(s)'
      BY <1>2, <1>4, <1>9, <2>1, <2>3 DEF LogicalGood
    <3>4. CountGood(s)'
      BY <1>2, <2>1, <2>2, <2>3 DEF CountGood, Observed
    <3> QED
      BY <3>1, <3>2, <3>3, <3>4 DEF SessionGood
  <2>4. CASE history'[s] = Append(h, item)
    <3> DEFINE g == history'[s]
               n == Len(h)
    <3>1. /\ Len(g) = n + 1 /\ g[n + 1].call = c /\ n \in Nat
          /\ \A i \in 1..n : g[i] = h[i] /\ i \in 1..Len(g)
          /\ \A i \in 1..Len(g) : i \in 1..n \/ i = n + 1
      BY <1>4, <1>6, <1>7, <2>4
    <3> HIDE DEF g
    <3>2. \A i \in 1..n : h[i].call # c
      BY <1>2, <1>4
    <3>3. observed[<<s, c>>] = 0
      BY <2>1, <3>2 DEF SeenGood
    <3>4. HistoryGood(s)'
      <4>1. \A i, j \in 1..Len(g) : g[i].call = g[j].call => i = j
        BY <2>1, <3>1, <3>2 DEF HistoryGood
      <4> QED
        BY <1>2, <4>1 DEF HistoryGood, g
    <3>5. SeenGood(s)'
      <4>1. \A d \in Calls :
              (\E i \in 1..n : h[i].call = d /\ h[i].outcome # "pending")
                => \E i \in 1..Len(g) : g[i].call = d /\ g[i].outcome # "pending"
        BY <3>1
      <4>2. \A d \in Calls : ~Recording(s, d) /\ ~Recording(s, d)'
        BY <1>2 DEF Recording
      <4> QED
        BY <1>2, <2>1, <4>1, <4>2 DEF SeenGood, g
    <3>6. LogicalGood(s)'
      <4>1. \A i \in 1..Len(g) : g[i].call \in Proxies => <<s, g[i].call>> \in ToSet(logical') \cup lost'
        <5>1. \A i \in 1..n : h[i].call \in Proxies => <<s, h[i].call>> \in ToSet(logical') \cup lost'
          BY <1>4, <1>9, <2>1 DEF LogicalGood
        <5> QED
          BY <1>3, <3>1, <5>1
      <4>2. \A i \in 1..Len(g) : i <= replayed[s] => i \in 1..n
        BY <1>4, <3>1
      <4>3. \A i \in 1..Len(g) : i <= replayed[s] /\ g[i].call \in Proxies =>
              g[i].call \in shown[s] \/ <<s, g[i].call>> \in lost'
        BY <1>2, <1>9, <2>1, <3>1, <4>2 DEF LogicalGood
      <4> QED
        BY <1>2, <4>1, <4>3 DEF LogicalGood, g
    <3>7. CountGood(s)'
      <4> SUFFICES ASSUME s \notin forgotten, s \notin SessionsOf(lost')
                   PROVE  CountGood(s)'
        BY <1>2 DEF CountGood
      <4>1. /\ \A i, j \in 1..n : i < j /\ Observed(s, j) => Observed(s, i)
            /\ \A sig \in Signatures :
                 failures[s][sig] = Cardinality(Failing(h, observed, s, sig))
        BY <2>1, <2>2 DEF CountGood
      <4>2. \A i \in 1..Len(g) : observed[<<s, g[i].call>>] > 0 =>
              i \in 1..n /\ observed[<<s, h[i].call>>] > 0 /\ Observed(s, i)
        <5>1. ~(observed[<<s, g[n + 1].call>>] > 0)
          BY <3>1, <3>3
        <5>2. \A i \in 1..Len(g) : observed[<<s, g[i].call>>] > 0 => i \in 1..n
          BY <3>1, <5>1
        <5>3. \A i \in 1..n : g[i].call = history[s][i].call
          BY <3>1
        <5> QED
          BY <5>2, <5>3 DEF Observed
      <4>3. \A i, j \in 1..Len(g) :
              i < j /\ observed[<<s, g[j].call>>] > 0 => observed[<<s, g[i].call>>] > 0
        <5>1. \A i, j \in 1..Len(g) : i < j => i \in 1..n
          BY <3>1
        <5> QED
          BY <3>1, <4>1, <4>2, <5>1 DEF Observed
      <4>4. \A sig \in Signatures :
              Failing(g, observed, s, sig) = Failing(h, observed, s, sig)
        <5>1. ~(observed[<<s, g[n + 1].call>>] > 0)
          BY <3>1, <3>3
        <5>2. Len(h) \in Nat /\ Len(g) = Len(h) + 1 /\ \A i \in 1..Len(h) : g[i] = h[i]
          BY <3>1
        <5> HIDE DEF h
        <5> QED
          BY <5>1, <5>2, FailingAppended
      <4> QED
        BY <1>2, <4>1, <4>3, <4>4 DEF CountGood, Observed, g
    <3> QED
      BY <3>4, <3>5, <3>6, <3>7 DEF SessionGood
  <2> QED
    BY <1>8, <2>3, <2>4
<1> QED
  BY <1>10, <1>11, <1>12 DEF IInv

-----------------------------------------------------------------------------
(* Time, crashes and the theorems                                          *)

LEMMA ExpireKeeps ==
  ASSUME IInv, NEW s \in Sessions, Expire(s)
  PROVE  IInv'
<1> DEFINE mine == {k \in Keys : k[1] = s}
           q == Without(seen, mine)
           r == Without(logical, mine)
<1>1. ListsOK /\ FieldsOK /\ \A x \in Sessions : SessionGood(x)
  BY Types DEF IInv
<1>2. /\ phase[s] = "idle" /\ s \in ToSet(sessions) /\ seen' = q /\ logical' = r
      /\ observed' = [k \in Keys |-> IF k \in mine THEN 0 ELSE observed[k]]
      /\ lost' = lost \cup Dropped(logical, logical')
      /\ old' = old \cup {s} /\ forgotten' = forgotten \cup {s}
      /\ UNCHANGED <<history, requests, phase, replayed, shown, planned, sessions, failures>>
  BY DEF Expire, codex, request
<1>3. \A x \in Sessions, c \in Calls : <<x, c>> \in Keys /\ (<<x, c>> \in mine <=> x = s)
  BY DEF Keys
<1> HIDE DEF mine
<1>4. /\ Recency(q, Keys) /\ ToSet(q) = ToSet(seen) \ mine /\ Len(q) <= Len(seen)
      /\ Recency(r, Keys) /\ ToSet(r) = ToSet(logical) \ mine /\ Len(r) <= Len(logical)
      /\ Len(q) \in Nat /\ Len(r) \in Nat /\ Len(seen) \in Nat /\ Len(logical) \in Nat
  BY <1>1, WithoutEntries, Entries DEF ListsOK, Recency
<1> HIDE DEF q, r
<1>5. TypeOK'
  <2>1. ListsOK'
    <3>1. Len(q) <= MaxEntries /\ Len(r) <= MaxEntries
      BY <1>1, <1>4, ConstantTypes DEF ListsOK
    <3> QED
      BY <1>1, <1>2, <1>4, <3>1 DEF ListsOK
  <2>2. FieldsOK'
    <3>1. Dropped(logical, logical') \subseteq Keys
      BY <1>1, Entries DEF ListsOK, Recency, Dropped
    <3>2. observed' \in [Keys -> Nat]
      BY <1>1, <1>2 DEF FieldsOK
    <3> QED
      BY <1>1, <1>2, <3>1, <3>2 DEF FieldsOK
  <2> QED
    BY <2>1, <2>2, Types, PTL
<1>6. ASSUME NEW x \in Sessions PROVE SessionGood(x)'
  <2>1. \A c \in Calls :
          observed'[<<x, c>>] = IF x = s THEN 0 ELSE observed[<<x, c>>]
    BY <1>2, <1>3
  <2>2. \A c \in Calls :
          <<x, c>> \in ToSet(seen') <=> <<x, c>> \in ToSet(seen) /\ x # s
    BY <1>2, <1>3, <1>4
  <2>3. \A c \in Calls :
          <<x, c>> \in ToSet(logical) \cup lost => <<x, c>> \in ToSet(logical') \cup lost'
    BY <1>2 DEF Dropped
  <2> QED
    BY <1>1, <1>2, <2>1, <2>2, <2>3, FrameKeeps DEF Frame
<1> QED
  BY <1>5, <1>6 DEF IInv

LEMMA RestartKeeps ==
  ASSUME IInv, Restart
  PROVE  IInv'
<1>1. ListsOK /\ FieldsOK /\ \A x \in Sessions : SessionGood(x)
  BY Types DEF IInv
<1>2. /\ phase' = [s \in Sessions |-> "idle"]
      /\ seen' = <<>> /\ logical' = <<>> /\ sessions' = <<>> /\ old' = {}
      /\ failures' = [s \in Sessions |-> NoFailures]
      /\ planned' = [s \in Sessions |-> {}]
      /\ observed' = [k \in Keys |-> 0]
      /\ lost' = lost \cup ToSet(logical) /\ forgotten' = Sessions
      /\ UNCHANGED <<history, requests, replayed, shown>>
  BY DEF Restart, codex
<1>3. /\ Recency(seen', Keys) /\ ToSet(seen') = {} /\ Len(seen') = 0
      /\ Recency(logical', Keys) /\ ToSet(logical') = {} /\ Len(logical') = 0
      /\ Recency(sessions', Sessions)
  BY <1>2, NoEntries
<1>4. TypeOK'
  <2>1. ListsOK'
    BY <1>2, <1>3, ConstantTypes DEF ListsOK
  <2>2. FieldsOK'
    <3>1. ToSet(logical) \subseteq Keys
      BY <1>1, Entries DEF ListsOK, Recency
    <3>2. failures' \in [Sessions -> [Signatures -> Nat]]
      BY <1>2 DEF NoFailures
    <3> QED
      BY <1>1, <1>2, <3>1, <3>2 DEF FieldsOK
  <2> QED
    BY <2>1, <2>2, Types, PTL
<1>5. ASSUME NEW x \in Sessions PROVE SessionGood(x)'
  <2>1. /\ HistoryGood(x) /\ LogicalGood(x) /\ phase'[x] = "idle" /\ x \in forgotten'
        /\ \A c \in Calls : observed'[<<x, c>>] = 0
    BY <1>1, <1>2 DEF SessionGood, Keys
  <2>2. HistoryGood(x)'
    BY <1>2, <2>1 DEF HistoryGood
  <2>3. SeenGood(x)'
    BY <1>3, <2>1 DEF SeenGood, Recording
  <2>4. LogicalGood(x)'
    BY <1>2, <2>1 DEF LogicalGood
  <2>5. CountGood(x)'
    BY <2>1 DEF CountGood
  <2> QED
    BY <2>2, <2>3, <2>4, <2>5 DEF SessionGood
<1> QED
  BY <1>4, <1>5 DEF IInv

LEMMA InitIInv == Init => IInv
<1> SUFFICES ASSUME Init PROVE IInv
  OBVIOUS
<1>1. /\ history = [s \in Sessions |-> <<>>] /\ phase = [s \in Sessions |-> "idle"]
      /\ replayed = [s \in Sessions |-> 0] /\ shown = [s \in Sessions |-> {}]
      /\ seen = <<>> /\ logical = <<>> /\ sessions = <<>> /\ old = {}
      /\ failures = [s \in Sessions |-> NoFailures] /\ planned = [s \in Sessions |-> {}]
      /\ requests = 0 /\ observed = [k \in Keys |-> 0] /\ lost = {} /\ forgotten = {}
  BY DEF Init
<1>2. /\ Recency(seen, Keys) /\ ToSet(seen) = {} /\ Len(seen) = 0
      /\ Recency(logical, Keys) /\ ToSet(logical) = {} /\ Len(logical) = 0
      /\ Recency(sessions, Sessions)
  BY <1>1, NoEntries
<1>3. \A s \in Sessions : Len(history[s]) = 0
  BY <1>1
<1>4. ListsOK
  BY <1>1, <1>2, ConstantTypes DEF ListsOK
<1>5. FieldsOK
  <2>1. history \in [Sessions -> Seq(HistoryItems)]
    BY <1>1
  <2>2. failures \in [Sessions -> [Signatures -> Nat]]
    BY <1>1 DEF NoFailures
  <2>3. requests \in 0..MaxRequests
    BY <1>1, ConstantTypes
  <2> QED
    BY <1>1, <1>3, <2>1, <2>2, <2>3 DEF FieldsOK
<1>6. ASSUME NEW s \in Sessions PROVE SessionGood(s)
  <2>1. /\ phase[s] = "idle" /\ Len(history[s]) = 0 /\ \A c \in Calls : observed[<<s, c>>] = 0
        /\ failures[s] = NoFailures
    BY <1>1, <1>3 DEF Keys
  <2>2. 1..Len(history[s]) = {}
    BY <2>1
  <2>3. HistoryGood(s) /\ LogicalGood(s)
    BY <2>1, <2>2 DEF HistoryGood, LogicalGood
  <2>4. SeenGood(s)
    BY <1>2, <2>1 DEF SeenGood, Recording
  <2>5. CountGood(s)
    <3>1. \A sig \in Signatures : Failing(history[s], observed, s, sig) = {}
      BY <2>2 DEF Failing
    <3> QED
      BY <2>1, <2>2, <3>1, FS_EmptySet DEF CountGood, NoFailures
  <2> QED
    BY <2>3, <2>4, <2>5 DEF SessionGood
<1> QED
  BY <1>4, <1>5, <1>6, Types DEF IInv

LEMMA StepIInv == IInv /\ [Next]_vars => IInv'
<1> SUFFICES ASSUME IInv, [Next]_vars PROVE IInv'
  OBVIOUS
<1>1. ASSUME NEW s \in Sessions, NEW i \in DOMAIN history[s], NEW outcome \in Outcomes,
             RunTool(s, i, outcome)
      PROVE  IInv'
  <2>1. i \in 1..Len(history[s])
    BY HistoryTypes, Types DEF IInv
  <2> QED
    BY <1>1, <2>1, RunToolKeeps
<1>2. ASSUME UNCHANGED vars PROVE IInv'
  <2>1. ListsOK /\ FieldsOK /\ \A x \in Sessions : SessionGood(x)
    BY Types DEF IInv
  <2>2. UNCHANGED <<history, requests, phase, replayed, shown, planned, seen, logical, sessions,
                    old, failures, observed, lost, forgotten>>
    BY <1>2 DEF vars, codex, request, ledger, ghosts
  <2>3. TypeOK'
    <3>1. ListsOK'
      BY <2>1, <2>2 DEF ListsOK
    <3>2. FieldsOK'
      BY <2>1, <2>2 DEF FieldsOK
    <3> QED
      BY <3>1, <3>2, Types, PTL
  <2>4. \A x \in Sessions : SessionGood(x)'
    BY <2>1, <2>2, FrameKeeps DEF Frame
  <2> QED
    BY <2>3, <2>4 DEF IInv
<1> QED
  BY <1>1, <1>2, RememberKeeps, ReplayItemKeeps, RecordKeeps, AskKeeps, ForgetKeeps, CallKeeps,
     ExpireKeeps, RestartKeeps
  DEF Next

LEMMA IInvHolds == Spec => []IInv
BY InitIInv, StepIInv, PTL DEF Spec

\* The maps of toollog hold at most maxToolStateEntries entries, each key once,
\* and a request never replays more than the history it was sent.
THEOREM TypeCorrect == Spec => []TypeOK
<1>1. IInv => TypeOK
  BY DEF IInv
<1> QED
  BY <1>1, IInvHolds, PTL

\* seenToolOutput marks an output before it is observed, so while its entry is
\* there the output has been observed exactly once, or its own request is about
\* to: no other session and no repeated history makes it count twice.
THEOREM OutputsObservedOnce == Spec => []ObservedOnce
<1>1. ASSUME IInv PROVE ObservedOnce
  <2> SUFFICES ASSUME NEW s \in Sessions, NEW c \in Calls
               PROVE  /\ observed[<<s, c>>] <= 1
                      /\ <<s, c>> \in ToSet(seen) =>
                           \/ observed[<<s, c>>] = 1
                           \/ phase[s] = "record" /\ history[s][replayed[s] + 1].call = c
    BY DEF ObservedOnce, Key
  <2> QED
    BY <1>1 DEF IInv, SessionGood, SeenGood, Recording
<1> QED
  BY <1>1, IInvHolds, PTL

\* As long as nothing of a session was dropped, NoProgressFailures counts the
\* failing outputs of a signature since the last output that made progress:
\* recordAttempt sees every output once and in the order of the history.
THEOREM FailuresAreCurrent == Spec => []FailuresCurrent
<1>1. ASSUME IInv PROVE FailuresCurrent
  <2> SUFFICES ASSUME NEW s \in Sessions \ (forgotten \cup SessionsOf(lost)), NEW sig \in Signatures
               PROVE  failures[s][sig] = Cardinality(Failing(history[s], observed, s, sig))
    BY DEF FailuresCurrent, Failing, Observed
  <2> QED
    BY <1>1 DEF IInv, SessionGood, CountGood
<1> QED
  BY <1>1, IInvHolds, PTL

\* Every call of a proxy in the history that a request has read is shown
\* upstream as the logical call, unless its entry in logicalToolCalls was
\* dropped: reading an entry renews it and never loses another.
THEOREM LogicalCallsAreShown == Spec => []LogicalCallsShown
<1>1. ASSUME IInv PROVE LogicalCallsShown
  <2> SUFFICES ASSUME NEW s \in Sessions, phase[s] = "answer", NEW i \in 1..replayed[s],
                      history[s][i].call \in Proxies
               PROVE  history[s][i].call \in shown[s] \/ <<s, history[s][i].call>> \in lost
    BY DEF LogicalCallsShown
  <2>1. FieldsOK /\ LogicalGood(s)
    BY <1>1, Types DEF IInv, SessionGood
  <2>2. i \in 1..Len(history[s]) /\ i <= replayed[s]
    BY <2>1, HistoryTypes
  <2> QED
    BY <2>1, <2>2 DEF LogicalGood
<1> QED
  BY <1>1, IInvHolds, PTL

=============================================================================
