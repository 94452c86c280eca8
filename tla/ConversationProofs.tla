------------------------- MODULE ConversationProofs -------------------------
(* Theorems about Conversation, proved for every value of its constants. *)
EXTENDS Conversation, SequenceTheorems, DataLemmas

-----------------------------------------------------------------------------
(* FlattenSeq.                                                             *)

LEMMA Joined ==
  ASSUME NEW S, NEW a \in Seq(S), NEW b \in Seq(S)
  PROVE  /\ a \o b \in Seq(S) /\ Len(a \o b) = Len(a) + Len(b)
         /\ \A k \in 1 .. Len(a) : (a \o b)[k] = a[k]
         /\ \A k \in 1 .. Len(b) : (a \o b)[Len(a) + k] = b[k]
<1>1. Len(a) \in Nat /\ Len(b) \in Nat
  OBVIOUS
<1>2. \A k \in 1 .. Len(b) : Len(a) + k \in 1 .. Len(a) + Len(b) /\ (Len(a) + k) - Len(a) = k
  BY <1>1
<1> QED
  BY <1>1, <1>2, ConcatProperties

\* The sequence ss[i] lies in `whole` behind position off[i - 1].
Laid(ss, whole, off) ==
  /\ off \in [0 .. Len(ss) -> Nat] /\ off[0] = 0
  /\ \A i \in 1 .. Len(ss) : off[i] = off[i - 1] + Len(ss[i])
  /\ Len(whole) = off[Len(ss)]
  /\ \A i \in 1 .. Len(ss) : \A j \in 1 .. Len(ss[i]) : whole[off[i - 1] + j] = ss[i][j]

LEMMA FlattenLaid ==
  ASSUME NEW S, NEW ss \in Seq(Seq(S))
  PROVE  FlattenSeq(ss) \in Seq(S) /\ \E off : Laid(ss, FlattenSeq(ss), off)
<1> DEFINE N == Len(ss)
<1>1. N \in Nat /\ \A i \in 1..N : ss[i] \in Seq(S) /\ Len(ss[i]) \in Nat
  OBVIOUS
<1>2. CASE N = 0
  <2>1. ss = <<>> /\ FlattenSeq(ss) = ss
    BY <1>2 DEF FlattenSeq
  <2> DEFINE off == [i \in 0..0 |-> 0]
  <2>2. Laid(ss, FlattenSeq(ss), off)
    BY <1>2, <2>1 DEF Laid
  <2> QED
    BY <2>1, <2>2
<1>3. CASE N # 0
  <2> DEFINE next(n, s) == IF n = 1 THEN ss[n] ELSE s \o ss[n]
             step == [p \in (1..N) \X Seq(S) |-> next(p[1], p[2])]
             IsFlat(f) == f = [i \in 1..N |-> IF i = 1 THEN ss[i] ELSE f[i - 1] \o ss[i]]
             flat == CHOOSE f : IsFlat(f)
             empty == <<>>
             longer == [p \in (1..N) \X Nat |-> p[2] + Len(ss[p[1]])]
  <2>1. FlattenSeq(ss) = flat[N]
    BY <1>3 DEF FlattenSeq
  <2>2. \A n \in 1..N, s \in Seq(S) : next(n, s) \in Seq(S) /\ step[<<n, s>>] = next(n, s)
    BY <1>1
  <2>3. step \in [(1..N) \X Seq(S) -> Seq(S)]
    BY <1>1, <2>2
  <2>4. longer \in [(1..N) \X Nat -> Nat] /\ empty \in Seq(S)
    BY <1>1
  <2>5. \A n \in 1..N, s \in Nat : longer[<<n, s>>] = s + Len(ss[n])
    OBVIOUS
  <2> HIDE DEF N, step, empty, longer
  <2>6. PICK f : IsLoop(f, Seq(S), N, empty, step)
    BY <1>1, <2>3, <2>4, LoopExists
  <2>7. PICK off : IsLoop(off, Nat, N, 0, longer)
    <3>1. 0 \in Nat
      OBVIOUS
    <3> QED
      BY <1>1, <2>4, <3>1, LoopExists
  <2>8. IsFlat([i \in 1..N |-> f[i]])
    <3> DEFINE g == [i \in 1..N |-> f[i]]
    <3>1. ASSUME NEW i \in 1..N PROVE g[i] = IF i = 1 THEN ss[i] ELSE g[i - 1] \o ss[i]
      <4>1. i - 1 \in 0..N /\ f[i - 1] \in Seq(S) /\ f[i] = step[<<i, f[i - 1]>>]
        BY <1>1, <2>6 DEF IsLoop
      <4>3. step[<<i, f[i - 1]>>] = next(i, f[i - 1])
        BY <2>2, <4>1
      <4>2. i # 1 => i - 1 \in 1..N /\ g[i - 1] = f[i - 1]
        BY <1>1
      <4> QED
        BY <4>1, <4>2, <4>3
    <3> QED
      BY <3>1
  <2>9. IsFlat(flat)
    BY <2>8
  <2> HIDE DEF flat
  <2>10. /\ off \in [0..N -> Nat] /\ off[0] = 0
         /\ \A i \in 1..N : off[i] = off[i - 1] + Len(ss[i])
    <3>1. \A i \in 1..N : i - 1 \in 0..N
      BY <1>1
    <3> QED
      BY <2>5, <2>7, <3>1 DEF IsLoop
  <2> DEFINE Good(n) == /\ flat[n] \in Seq(S) /\ Len(flat[n]) = off[n]
                        /\ \A i \in 1..n : off[i - 1] + Len(ss[i]) <= off[n]
                        /\ \A i \in 1..n : \A j \in 1 .. Len(ss[i]) :
                             flat[n][off[i - 1] + j] = ss[i][j]
             G == {n \in Nat : n + 1 <= N => Good(n + 1)}
  <2>11. 0 \in G
    <3>1. flat[1] = ss[1] /\ off[1] = Len(ss[1]) /\ off[1 - 1] = 0
      BY <1>1, <1>3, <2>9, <2>10
    <3>2. Good(1)
      BY <1>1, <1>3, <3>1
    <3> QED
      BY <3>2
  <2>12. ASSUME NEW n \in Nat, n \in G, n + 2 <= N PROVE Good(n + 2)
    <3>1. Good(n + 1)
      BY <1>1, <2>12
    <3>2. flat[n + 2] = flat[n + 1] \o ss[n + 2]
      <4>1. n + 2 \in 1..N /\ n + 2 # 1 /\ (n + 2) - 1 = n + 1
        BY <1>1, <2>12
      <4> QED
        BY <2>9, <4>1
    <3>3. off[n + 2] = off[n + 1] + Len(ss[n + 2])
      <4>1. n + 2 \in 1..N /\ (n + 2) - 1 = n + 1
        BY <1>1, <2>12
      <4> QED
        BY <2>10, <4>1
    <3>4. ss[n + 2] \in Seq(S) /\ flat[n + 1] \in Seq(S) /\ off[n + 1] \in Nat
      BY <1>1, <2>12, <2>10, <3>1
    <3> DEFINE a == flat[n + 1]  b == ss[n + 2]  c == flat[n + 2]
    <3> HIDE DEF a, b, c
    <3>7. a \in Seq(S) /\ b \in Seq(S) /\ c = a \o b /\ Len(a) = off[n + 1]
      BY <3>1, <3>2, <3>4 DEF a, b, c
    <3>8. /\ c \in Seq(S) /\ Len(c) = Len(a) + Len(b)
          /\ \A k \in 1 .. Len(a) : c[k] = a[k]
          /\ \A k \in 1 .. Len(b) : c[Len(a) + k] = b[k]
      <4>1. a \in Seq(S) /\ b \in Seq(S)
        BY <3>7
      <4>2. /\ a \o b \in Seq(S) /\ Len(a \o b) = Len(a) + Len(b)
            /\ \A k \in 1 .. Len(a) : (a \o b)[k] = a[k]
            /\ \A k \in 1 .. Len(b) : (a \o b)[Len(a) + k] = b[k]
        BY ONLY <4>1, Joined
      <4> QED
        BY <3>7, <4>2, Zenon
    <3>5. flat[n + 2] \in Seq(S) /\ Len(flat[n + 2]) = off[n + 2]
      BY <3>3, <3>7, <3>8 DEF b, c
    <3>6. ASSUME NEW i \in 1..(n + 2)
          PROVE /\ off[i - 1] + Len(ss[i]) <= off[n + 2]
                /\ \A j \in 1 .. Len(ss[i]) : flat[n + 2][off[i - 1] + j] = ss[i][j]
      <4>1. off[i - 1] \in Nat /\ Len(ss[i]) \in Nat /\ ss[i] \in Seq(S)
        BY <1>1, <2>10, <2>12, SMTT(30)
      <4>2. CASE i = n + 2
        <5>1. off[i - 1] = Len(a) /\ ss[i] = b
          BY <3>7, <4>2 DEF b
        <5>2. \A j \in 1 .. Len(ss[i]) : flat[n + 2][off[i - 1] + j] = ss[i][j]
          BY <3>8, <5>1 DEF c
        <5>3. off[i - 1] + Len(ss[i]) = off[n + 2]
          BY <3>3, <4>2
        <5> QED
          BY <4>1, <5>2, <5>3
      <4>3. CASE i # n + 2
        <5>1. i \in 1..(n + 1)
          BY <4>3
        <5>2. off[i - 1] + Len(ss[i]) <= off[n + 1]
          BY <3>1, <5>1
        <5>3. ASSUME NEW j \in 1 .. Len(ss[i]) PROVE flat[n + 2][off[i - 1] + j] = ss[i][j]
          <6>1. off[i - 1] + j \in 1 .. Len(a)
            <7>1. Len(a) \in Nat /\ off[i - 1] + Len(ss[i]) <= Len(a)
              BY <3>7, <5>2
            <7> HIDE DEF Good, G
            <7> QED
              BY <4>1, <7>1
          <6>2. a[off[i - 1] + j] = ss[i][j]
            BY <3>1, <5>1 DEF a
          <6> QED
            BY <3>8, <6>1, <6>2 DEF c
        <5>4. Len(ss[n + 2]) \in Nat
          BY <3>4
        <5>5. off[i - 1] + Len(ss[i]) <= off[n + 2]
          <6> DEFINE o == off[i - 1]  l == Len(ss[i])  p == off[n + 1]  d == Len(ss[n + 2])  q == off[n + 2]
          <6>1. o \in Nat /\ l \in Nat /\ p \in Nat /\ d \in Nat /\ o + l <= p /\ q = p + d
            BY <3>3, <3>4, <4>1, <5>2, <5>4
          <6> HIDE DEF o, l, p, d, q
          <6>2. o + l <= q
            BY <6>1
          <6> QED
            BY <6>2 DEF o, l, q
        <5> QED
          BY <5>3, <5>5
      <4> QED
        BY <4>2, <4>3
    <3> QED
      BY <3>5, <3>6
  <2>13. N - 1 \in G
    <3>1. \A n \in Nat : n \in G => n + 1 \in G
      <4> HIDE DEF Good
      <4> SUFFICES ASSUME NEW n \in Nat, n \in G PROVE (n + 1) + 1 <= N => Good((n + 1) + 1)
        OBVIOUS
      <4>1. (n + 1) + 1 = n + 2
        OBVIOUS
      <4> HIDE DEF G
      <4> QED
        BY <2>12, <4>1
    <3> HIDE DEF G
    <3>2. Nat \subseteq G
      BY <2>11, <3>1, SetInduction
    <3> QED
      BY <1>1, <1>3, <3>2
  <2>14. Good(N)
    <3>1. (N - 1) + 1 = N
      BY <1>1
    <3> HIDE DEF Good
    <3> QED
      BY <1>1, <2>13, <3>1
  <2>15. N = Len(ss) /\ N \in 1..N
    BY <1>1, <1>3 DEF N
  <2>16. \A i \in 1..N : \A j \in 1 .. Len(ss[i]) : flat[N][off[i - 1] + j] = ss[i][j]
    BY <2>14, <2>15
  <2>17. Laid(ss, flat[N], off)
    BY <2>10, <2>14, <2>15, <2>16 DEF Laid
  <2> QED
    BY <2>1, <2>14, <2>17
<1> QED
  BY <1>2, <1>3

\* The pieces follow each other and cover the whole.
\* What stands in the whole stands in a piece.
Covers(ss, whole, off) ==
  \A k \in 1 .. Len(whole) : \E i \in 1 .. Len(ss) : \E j \in 1 .. Len(ss[i]) :
    k = off[i - 1] + j /\ whole[k] = ss[i][j]

LEMMA LaidOrder ==
  ASSUME NEW S, NEW ss \in Seq(Seq(S)), NEW whole, NEW off, Laid(ss, whole, off)
  PROVE  /\ \A p \in 0 .. Len(ss) : \A i \in 0 .. p : off[i] <= off[p]
         /\ \A i, p \in 1 .. Len(ss) : i < p =>
              \A j \in 1 .. Len(ss[i]), q \in 1 .. Len(ss[p]) : off[i - 1] + j < off[p - 1] + q
         /\ Covers(ss, whole, off)
<1> DEFINE N == Len(ss)
           size(i) == Len(ss[i])
<1>1. /\ N \in Nat /\ \A i \in 1..N : size(i) \in Nat
      /\ off \in [0..N -> Nat] /\ off[0] = 0 /\ Len(whole) = off[N]
      /\ \A i \in 1..N : i - 1 \in 0..N /\ off[i] = off[i - 1] + size(i)
      /\ \A i \in 1..N : \A j \in 1..size(i) : whole[off[i - 1] + j] = ss[i][j]
  BY DEF Laid
<1> HIDE DEF N, size
<1>2. \A p \in 0..N : \A i \in 0..p : off[i] <= off[p]
  <2> DEFINE G == {p \in Nat : p <= N => \A i \in 0..p : off[i] <= off[p]}
  <2>1. 0 \in G
    BY <1>1
  <2>2. ASSUME NEW p \in Nat, p \in G, p + 1 <= N, NEW i \in 0..(p + 1) PROVE off[i] <= off[p + 1]
    <3>1. p + 1 \in 1..N /\ (p + 1) - 1 = p /\ p \in 0..N
      BY <1>1, <2>2
    <3>2. off[p + 1] = off[p] + size(p + 1) /\ off[p] \in Nat /\ size(p + 1) \in Nat
      BY <1>1, <3>1
    <3>3. i # p + 1 => off[i] <= off[p] /\ off[i] \in Nat
      BY <1>1, <2>2, <3>1
    <3> QED
      BY <3>2, <3>3
  <2>3. \A p \in Nat : p \in G => p + 1 \in G
    BY <2>2
  <2> HIDE DEF G
  <2>4. Nat \subseteq G
    BY <2>1, <2>3, SetInduction
  <2> QED
    BY <1>1, <2>4 DEF G
<1>3. ASSUME NEW i \in 1..N, NEW p \in 1..N, i < p, NEW j \in 1..size(i), NEW q \in 1..size(p)
      PROVE  off[i - 1] + j < off[p - 1] + q
  <2>1. off[i] <= off[p - 1]
    BY <1>1, <1>2, <1>3
  <2>2. off[i] \in Nat /\ off[i - 1] \in Nat /\ off[p - 1] \in Nat /\ off[i] = off[i - 1] + size(i)
    BY <1>1
  <2> QED
    BY <1>1, <2>1, <2>2, SMTT(30)
<1>4. ASSUME NEW k \in 1 .. Len(whole)
      PROVE  \E i \in 1..N : \E j \in 1..size(i) : k = off[i - 1] + j /\ whole[k] = ss[i][j]
  <2> DEFINE T == {i \in 0..N : k <= off[i]}
  <2>1. T \in SUBSET Nat /\ N \in T
    BY <1>1
  <2>2. PICK i \in T : \A m \in T : i <= m
    BY <2>1, SmallestNat
  <2>3. i \in 1..N
    BY <1>1, <2>2
  <2>4. i - 1 \in 0..N /\ off[i - 1] \in Nat /\ off[i] \in Nat /\ off[i] = off[i - 1] + size(i)
    BY <1>1, <2>3
  <2>5. off[i - 1] < k /\ k <= off[i]
    <3>1. i - 1 \notin T
      BY <2>2, <2>3
    <3> QED
      BY <1>1, <2>4, <3>1
  <2>6. k - off[i - 1] \in 1..size(i) /\ k = off[i - 1] + (k - off[i - 1])
    BY <1>1, <2>3, <2>4, <2>5
  <2> QED
    BY <1>1, <2>3, <2>6
<1>5. Covers(ss, whole, off)
  BY <1>4 DEF Covers, N, size
<1> QED
  BY <1>2, <1>3, <1>5 DEF N, size

-----------------------------------------------------------------------------
(* Sequences of anything.                                                  *)

IsSequence(s) == s \in Seq({s[i] : i \in DOMAIN s})

LEMMA SequenceOf ==
  ASSUME NEW S, NEW s \in Seq(S)
  PROVE  IsSequence(s)
<1>1. s = [i \in 1 .. Len(s) |-> s[i]] /\ Len(s) \in Nat
  OBVIOUS
<1>2. s \in [1 .. Len(s) -> {s[i] : i \in DOMAIN s}]
  BY <1>1
<1> QED
  BY <1>1, <1>2, SeqDef DEF IsSequence

LEMMA SequenceFromFunction ==
  ASSUME NEW n \in Nat, NEW f, f = [i \in 1..n |-> f[i]]
  PROVE  IsSequence(f) /\ Len(f) = n /\ DOMAIN f = 1..n
<1>1. f \in [1..n -> {f[i] : i \in 1..n}] /\ DOMAIN f = 1..n
  OBVIOUS
<1>2. f \in Seq({f[i] : i \in 1..n})
  BY <1>1, SeqDef
<1> QED
  BY <1>1, <1>2 DEF IsSequence

LEMMA SequenceFacts ==
  ASSUME NEW s, IsSequence(s)
  PROVE  Len(s) \in Nat /\ DOMAIN s = 1 .. Len(s) /\ s = [i \in 1 .. Len(s) |-> s[i]]
BY DEF IsSequence

LEMMA FlattenAny ==
  ASSUME NEW ss, IsSequence(ss), \A i \in DOMAIN ss : IsSequence(ss[i])
  PROVE  /\ IsSequence(FlattenSeq(ss)) /\ \E off : Laid(ss, FlattenSeq(ss), off)
         /\ \E S : ss \in Seq(Seq(S))
<1> DEFINE S == UNION {{ss[i][j] : j \in DOMAIN ss[i]} : i \in DOMAIN ss}
<1>1. \A i \in DOMAIN ss : ss[i] \in Seq(S)
  <2> TAKE i \in DOMAIN ss
  <2>1. {ss[i][j] : j \in DOMAIN ss[i]} \subseteq S
    OBVIOUS
  <2> HIDE DEF S
  <2> QED
    BY <2>1, SeqMonotonic DEF IsSequence
<1> HIDE DEF S
<1>2. {ss[i] : i \in DOMAIN ss} \subseteq Seq(S)
  BY <1>1
<1>3. ss \in Seq(Seq(S))
  BY <1>2, SeqMonotonic DEF IsSequence
<1> QED
  BY <1>3, FlattenLaid, SequenceOf

\* What stands in the whole stands in one of the pieces.
LEMMA FlattenElements ==
  ASSUME NEW ss, IsSequence(ss), \A i \in DOMAIN ss : IsSequence(ss[i])
  PROVE  \A k \in DOMAIN FlattenSeq(ss) : \E i \in DOMAIN ss : \E j \in DOMAIN ss[i] :
           FlattenSeq(ss)[k] = ss[i][j]
<1> DEFINE whole == FlattenSeq(ss)
<1>1. PICK off : Laid(ss, whole, off)
  BY FlattenAny
<1>2. PICK S : ss \in Seq(Seq(S))
  BY FlattenAny
<1>3. DOMAIN whole = 1 .. Len(whole) /\ DOMAIN ss = 1 .. Len(ss)
  BY FlattenAny, SequenceFacts
<1> HIDE DEF whole
<1>4. Covers(ss, whole, off)
  BY <1>1, <1>2, LaidOrder
<1>5. \A i \in DOMAIN ss : DOMAIN ss[i] = 1 .. Len(ss[i])
  BY SequenceFacts
<1> QED
  BY <1>3, <1>4, <1>5 DEF Covers, whole

LEMMA AppendAny ==
  ASSUME NEW s, IsSequence(s), NEW e
  PROVE  /\ IsSequence(Append(s, e)) /\ Len(Append(s, e)) = Len(s) + 1
         /\ \A i \in 1 .. Len(s) : Append(s, e)[i] = s[i]
         /\ Append(s, e)[Len(s) + 1] = e
<1> DEFINE S == {s[i] : i \in DOMAIN s} \cup {e}
<1>1. s \in Seq(S) /\ e \in S
  BY SeqMonotonic DEF IsSequence
<1> HIDE DEF S
<1>2. Append(s, e) \in Seq(S)
  BY <1>1
<1>3. IsSequence(Append(s, e))
  BY <1>2, SequenceOf
<1>4. Len(s) \in Nat /\ Len(Append(s, e)) = Len(s) + 1
  BY <1>1
<1>5. \A i \in 1 .. Len(s) : Append(s, e)[i] = s[i]
  BY <1>1
<1>6. Append(s, e)[Len(s) + 1] = e
  BY <1>1
<1> QED
  BY <1>3, <1>4, <1>5, <1>6

LEMMA ConcatAny ==
  ASSUME NEW s, NEW t, IsSequence(s), IsSequence(t)
  PROVE  /\ IsSequence(s \o t) /\ Len(s \o t) = Len(s) + Len(t)
         /\ \A i \in 1 .. Len(s) : (s \o t)[i] = s[i]
         /\ \A i \in 1 .. Len(t) : (s \o t)[Len(s) + i] = t[i]
<1> DEFINE S == {s[i] : i \in DOMAIN s} \cup {t[i] : i \in DOMAIN t}
<1>1. s \in Seq(S) /\ t \in Seq(S)
  BY SeqMonotonic DEF IsSequence
<1> HIDE DEF S
<1>2. s \o t \in Seq(S)
  BY <1>1
<1>3. IsSequence(s \o t)
  BY <1>2, SequenceOf
<1> QED
  BY <1>1, <1>3, Joined

LEMMA EmptyAny == IsSequence(<<>>) /\ Len(<<>>) = 0
BY DEF IsSequence

LEMMA OneAny ==
  ASSUME NEW e
  PROVE  IsSequence(<<e>>) /\ Len(<<e>>) = 1 /\ <<e>>[1] = e
<1>1. <<e>> \in Seq({e})
  OBVIOUS
<1> QED
  BY <1>1, SequenceOf

LEMMA EmptyDomain == DOMAIN <<>> = {}
OBVIOUS

LEMMA OneDomain == \A e : DOMAIN <<e>> = {1}
OBVIOUS

LEMMA MappedAny ==
  ASSUME NEW s, IsSequence(s), NEW f, f = [i \in DOMAIN s |-> f[i]]
  PROVE  IsSequence(f) /\ Len(f) = Len(s) /\ DOMAIN f = 1 .. Len(s)
BY SequenceFacts, SequenceFromFunction

-----------------------------------------------------------------------------
(* The registry keeps the first entry of each name.                        *)

LEMMA RegisterLoop ==
  ASSUME NEW registry, NEW entries, Len(entries) \in Nat
  PROVE  \E f : /\ f = [n \in 0 .. Len(entries) |->
                          IF n = 0 THEN registry
                          ELSE registerConvertedTool(f[n - 1], entries[n])]
                /\ RegisterEntries(registry, entries) = f[Len(entries)]
<1> DEFINE IsRun(n, f) == f = [m \in 0..n |-> IF m = 0 THEN registry
                                              ELSE registerConvertedTool(f[m - 1], entries[m])]
           G == {n \in Nat : \E f : IsRun(n, f)}
           run == CHOOSE f : IsRun(Len(entries), f)
<1>1. 0 \in G
  <2>1. IsRun(0, [m \in 0..0 |-> registry])
    OBVIOUS
  <2> QED
    BY <2>1
<1>2. ASSUME NEW n \in Nat, n \in G PROVE n + 1 \in G
  <2>1. PICK f : IsRun(n, f)
    BY <1>2
  <2> DEFINE g == [m \in 0..(n + 1) |-> IF m = n + 1 THEN registerConvertedTool(f[n], entries[n + 1])
                                        ELSE f[m]]
  <2>2. ASSUME NEW m \in 0..(n + 1)
        PROVE  g[m] = IF m = 0 THEN registry ELSE registerConvertedTool(g[m - 1], entries[m])
    <3>1. CASE m = n + 1
      <4>1. m - 1 = n /\ g[m - 1] = f[n] /\ m # 0
        BY <3>1
      <4> QED
        BY <3>1, <4>1
    <3>2. CASE m # n + 1
      <4>1. m \in 0..n /\ (m # 0 => m - 1 \in 0..n /\ m - 1 # n + 1)
        BY <3>2
      <4>2. g[m] = f[m] /\ (m # 0 => g[m - 1] = f[m - 1])
        BY <3>2, <4>1
      <4> QED
        BY <2>1, <4>1, <4>2
    <3> QED
      BY <3>1, <3>2
  <2>3. IsRun(n + 1, g)
    BY <2>2
  <2> HIDE DEF IsRun
  <2> QED
    BY <2>3
<1>3. Len(entries) \in G
  <2> HIDE DEF G
  <2> QED
    BY <1>1, <1>2, SetInduction
<1>4. IsRun(Len(entries), run)
  BY <1>3
<1>5. RegisterEntries(registry, entries) = run[Len(entries)]
  BY DEF RegisterEntries
<1> HIDE DEF run
<1> QED
  BY <1>4, <1>5

\* The entry at k is the first of its name.
Leads(entries, k) == \A m \in 1 .. k - 1 : entries[m].up # entries[k].up

\* After the first n entries: what was there is there, every name has an entry,
\* what is new is the first of its name and the name was free.
RegisteredTo(registry, entries, n, result) ==
  /\ IsSequence(result)
  /\ \A i \in DOMAIN registry : Has(result, registry[i].up)
  /\ \A k \in 1..n : Has(result, entries[k].up)
  /\ \A i \in DOMAIN result :
       \/ \E j \in DOMAIN registry : result[i] = registry[j]
       \/ /\ ~Has(registry, result[i].up)
          /\ \E k \in 1..n : result[i] = entries[k] /\ Leads(entries, k)

LEMMA Registered ==
  ASSUME NEW registry, NEW entries, IsSequence(registry), IsSequence(entries)
  PROVE  RegisteredTo(registry, entries, Len(entries), RegisterEntries(registry, entries))
<1>1. Len(entries) \in Nat
  BY SequenceFacts
<1>2. PICK f : /\ f = [n \in 0 .. Len(entries) |->
                         IF n = 0 THEN registry ELSE registerConvertedTool(f[n - 1], entries[n])]
               /\ RegisterEntries(registry, entries) = f[Len(entries)]
  BY <1>1, RegisterLoop
<1> DEFINE G == {n \in Nat : n <= Len(entries) => RegisteredTo(registry, entries, n, f[n])}
<1>3. 0 \in G
  <2>1. f[0] = registry
    BY <1>1, <1>2
  <2>2. RegisteredTo(registry, entries, 0, registry)
    BY DEF RegisteredTo, Has
  <2> QED
    BY <2>1, <2>2
<1>4. ASSUME NEW n \in Nat, RegisteredTo(registry, entries, n, f[n]), n + 1 <= Len(entries)
      PROVE  RegisteredTo(registry, entries, n + 1, f[n + 1])
  <2> DEFINE old == f[n]
             entry == entries[n + 1]
  <2>1. f[n + 1] = registerConvertedTool(old, entry)
    <3>1. n + 1 \in 0 .. Len(entries) /\ n + 1 # 0 /\ (n + 1) - 1 = n
      BY <1>1, <1>4
    <3> QED
      BY <1>2, <3>1
  <2> HIDE DEF old
  <2>2. RegisteredTo(registry, entries, n, old)
    BY <1>4 DEF old
  <2>3. n + 1 \in 1..n + 1 /\ \A k \in 1..n + 1 : k # n + 1 => k \in 1..n
    OBVIOUS
  <2>4. CASE Has(old, entry.up)
    <3>1. f[n + 1] = old
      BY <2>1, <2>4 DEF registerConvertedTool
    <3>2. \A k \in 1..n + 1 : Has(old, entries[k].up)
      BY <2>2, <2>3, <2>4 DEF RegisteredTo
    <3>3. 1..n \subseteq 1..n + 1
      OBVIOUS
    <3> QED
      BY <2>2, <3>1, <3>2, <3>3 DEF RegisteredTo
  <2>5. CASE ~Has(old, entry.up)
    <3> DEFINE new == Append(old, entry)
    <3>1. f[n + 1] = new
      BY <2>1, <2>5 DEF registerConvertedTool
    <3>2. /\ IsSequence(new) /\ Len(new) = Len(old) + 1
          /\ \A i \in 1 .. Len(old) : new[i] = old[i]
          /\ new[Len(old) + 1] = entry
          /\ Len(old) \in Nat /\ DOMAIN old = 1 .. Len(old) /\ DOMAIN new = 1 .. Len(old) + 1
      BY <2>2, AppendAny, SequenceFacts DEF RegisteredTo
    <3> HIDE DEF new, entry
    <3>3. \A up : Has(old, up) => Has(new, up)
      BY <3>2 DEF Has
    <3>4. Has(new, entry.up)
      BY <3>2 DEF Has
    <3>5. \A k \in 1..n + 1 : Has(new, entries[k].up)
      BY <2>2, <2>3, <3>3, <3>4 DEF RegisteredTo, entry
    <3>6. ASSUME NEW i \in DOMAIN new
          PROVE  \/ \E j \in DOMAIN registry : new[i] = registry[j]
                 \/ /\ ~Has(registry, new[i].up)
                    /\ \E k \in 1..n + 1 : new[i] = entries[k] /\ Leads(entries, k)
      <4>1. CASE i \in DOMAIN old
        <5>1. new[i] = old[i]
          BY <3>2, <4>1
        <5> QED
          BY <2>2, <2>3, <4>1, <5>1 DEF RegisteredTo
      <4>2. CASE i \notin DOMAIN old
        <5>1. new[i] = entry
          BY <3>2, <4>2
        <5>2. ~Has(registry, entry.up)
          BY <2>2, <2>5 DEF RegisteredTo, Has, entry
        <5>3. Leads(entries, n + 1)
          BY <2>2, <2>5 DEF RegisteredTo, Leads, entry
        <5> QED
          BY <2>3, <5>1, <5>2, <5>3 DEF entry
      <4> QED
        BY <4>1, <4>2
    <3>7. \A i \in DOMAIN registry : Has(new, registry[i].up)
      BY <2>2, <3>3 DEF RegisteredTo
    <3> QED
      BY <3>1, <3>2, <3>5, <3>6, <3>7 DEF RegisteredTo
  <2> QED
    BY <2>4, <2>5
<1>5. Len(entries) \in G
  <2>1. \A n \in Nat : n \in G => n + 1 \in G
    <3> SUFFICES ASSUME NEW n \in Nat, n \in G PROVE n + 1 \in G
      OBVIOUS
    <3>1. n + 1 <= Len(entries) => n <= Len(entries)
      BY <1>1
    <3> QED
      BY <1>4, <3>1
  <2> HIDE DEF G
  <2> QED
    BY <1>1, <1>3, <2>1, SetInduction
<1> QED
  BY <1>1, <1>2, <1>5

LEMMA ConvertedAny ==
  ASSUME NEW tool, NEW editor
  PROVE  IsSequence(Converted(tool, editor))
<1>1. IsSequence(TextEditorEntries)
  <2>1. IsSequence(EditorTools)
    <3>1. EditorTools = [i \in 1..6 |-> EditorTools[i]]
      BY DEF EditorTools
    <3> QED
      BY <3>1, SequenceFromFunction
  <2>2. TextEditorEntries = [i \in DOMAIN EditorTools |-> TextEditorEntries[i]]
    BY DEF TextEditorEntries
  <2> QED
    BY <2>1, <2>2, MappedAny
<1>2. IsSequence(convertFunction(tool, editor))
  <2> DEFINE result == convertFunction(tool, editor)
  <2>1. \E e : result = <<e>>
    BY DEF convertFunction
  <2> HIDE DEF result
  <2>2. IsSequence(result)
    BY <2>1, OneAny
  <2> QED
    BY <2>2 DEF result
<1>3. IsSequence(convertCustom(tool, editor))
  <2> DEFINE result == convertCustom(tool, editor)
  <2>1. result = TextEditorEntries \/ \E e : result = <<e>>
    BY DEF convertCustom
  <2> HIDE DEF result
  <2>2. IsSequence(result)
    BY <1>1, <2>1, OneAny
  <2> QED
    BY <2>2 DEF result
<1>4. IsSequence(ConvertTool(tool, editor))
  <2> DEFINE result == ConvertTool(tool, editor)
  <2>1. \/ result = convertFunction(tool, editor) \/ result = convertCustom(tool, editor)
        \/ result = <<>> \/ \E e : result = <<e>>
    BY DEF ConvertTool
  <2> HIDE DEF result
  <2>2. IsSequence(result)
    BY <1>2, <1>3, <2>1, OneAny, EmptyAny
  <2> QED
    BY <2>2 DEF result
<1> DEFINE entries == ConvertTool(tool, editor)
           renamed == [i \in DOMAIN entries |->
                         [entries[i] EXCEPT !.ns = tool.ns,
                                            !.up = namespacedToolName(tool.ns, entries[i].name)]]
<1>5. Converted(tool, editor) = entries \/ Converted(tool, editor) = renamed
  BY DEF Converted
<1>6. IsSequence(renamed)
  <2>1. renamed = [i \in DOMAIN entries |-> renamed[i]]
    OBVIOUS
  <2> HIDE DEF renamed, entries
  <2> QED
    BY <1>4, <2>1, MappedAny DEF entries
<1> QED
  BY <1>4, <1>5, <1>6

\* f holds the registry after each tool.
RegistersAll(f, registry, tools, editor) ==
  /\ f[0] = registry /\ f[Len(tools)] = RegisterAll(registry, tools, editor)
  /\ \A n \in 1 .. Len(tools) : f[n] = RegisterEntries(f[n - 1], Converted(tools[n], editor))

LEMMA RegisterAllLoop ==
  ASSUME NEW registry, NEW tools, NEW editor, Len(tools) \in Nat
  PROVE  \E f : RegistersAll(f, registry, tools, editor)
<1> DEFINE IsRun(n, f) == f = [m \in 0..n |->
                                 IF m = 0 THEN registry
                                 ELSE RegisterEntries(f[m - 1], Converted(tools[m], editor))]
           G == {n \in Nat : \E f : IsRun(n, f)}
           run == CHOOSE f : IsRun(Len(tools), f)
<1>1. 0 \in G
  <2>1. IsRun(0, [m \in 0..0 |-> registry])
    OBVIOUS
  <2> QED
    BY <2>1
<1>2. ASSUME NEW n \in Nat, n \in G PROVE n + 1 \in G
  <2>1. PICK f : IsRun(n, f)
    BY <1>2
  <2> DEFINE g == [m \in 0..(n + 1) |->
                     IF m = n + 1 THEN RegisterEntries(f[n], Converted(tools[n + 1], editor)) ELSE f[m]]
  <2>2. ASSUME NEW m \in 0..(n + 1)
        PROVE  g[m] = IF m = 0 THEN registry
                      ELSE RegisterEntries(g[m - 1], Converted(tools[m], editor))
    <3>1. CASE m = n + 1
      <4>1. m - 1 = n /\ g[m - 1] = f[n] /\ m # 0
        BY <3>1
      <4> QED
        BY <3>1, <4>1
    <3>2. CASE m # n + 1
      <4>1. m \in 0..n /\ (m # 0 => m - 1 \in 0..n /\ m - 1 # n + 1)
        BY <3>2
      <4>2. g[m] = f[m] /\ (m # 0 => g[m - 1] = f[m - 1])
        BY <3>2, <4>1
      <4> QED
        BY <2>1, <4>1, <4>2
    <3> QED
      BY <3>1, <3>2
  <2>3. IsRun(n + 1, g)
    BY <2>2
  <2> HIDE DEF IsRun
  <2> QED
    BY <2>3
<1>3. Len(tools) \in G
  <2> HIDE DEF G
  <2> QED
    BY <1>1, <1>2, SetInduction
<1>4. IsRun(Len(tools), run)
  BY <1>3
<1>5. RegisterAll(registry, tools, editor) = run[Len(tools)]
  BY DEF RegisterAll
<1> HIDE DEF run
<1>6. run[0] = registry
  BY <1>4
<1>7. \A n \in 1 .. Len(tools) : run[n] = RegisterEntries(run[n - 1], Converted(tools[n], editor))
  BY <1>4
<1>8. RegistersAll(run, registry, tools, editor)
  BY <1>5, <1>6, <1>7 DEF RegistersAll
<1> HIDE DEF IsRun
<1> QED
  BY <1>8

\* Some tool of the list is offered under this name.
Named(tools, editor, n, up) ==
  \E p \in 1..n : \E q \in DOMAIN Converted(tools[p], editor) : Converted(tools[p], editor)[q].up = up

\* The entry is the first of its name that the first n tools give.
FirstOfTools(tools, editor, n, entry) ==
  \E p \in 1..n : \E q \in DOMAIN Converted(tools[p], editor) :
    /\ entry = Converted(tools[p], editor)[q]
    /\ Leads(Converted(tools[p], editor), q)
    /\ ~Named(tools, editor, p - 1, entry.up)

AllRegisteredTo(registry, tools, editor, n, result) ==
  /\ IsSequence(result)
  /\ \A i \in DOMAIN registry : Has(result, registry[i].up)
  /\ \A p \in 1..n : \A q \in DOMAIN Converted(tools[p], editor) :
       Has(result, Converted(tools[p], editor)[q].up)
  /\ \A i \in DOMAIN result :
       \/ \E j \in DOMAIN registry : result[i] = registry[j]
       \/ ~Has(registry, result[i].up) /\ FirstOfTools(tools, editor, n, result[i])

LEMMA AllRegistered ==
  ASSUME NEW registry, NEW tools, NEW editor, IsSequence(registry), IsSequence(tools)
  PROVE  AllRegisteredTo(registry, tools, editor, Len(tools), RegisterAll(registry, tools, editor))
<1>1. Len(tools) \in Nat
  BY SequenceFacts
<1>2. PICK f : RegistersAll(f, registry, tools, editor)
  BY <1>1, RegisterAllLoop
<1> DEFINE G == {n \in Nat : n <= Len(tools) => AllRegisteredTo(registry, tools, editor, n, f[n])}
<1>3. 0 \in G
  <2>1. f[0] = registry
    BY <1>2 DEF RegistersAll
  <2>2. AllRegisteredTo(registry, tools, editor, 0, registry)
    BY DEF AllRegisteredTo, Has
  <2> QED
    BY <2>1, <2>2
<1>4. ASSUME NEW n \in Nat, AllRegisteredTo(registry, tools, editor, n, f[n]), n + 1 <= Len(tools)
      PROVE  AllRegisteredTo(registry, tools, editor, n + 1, f[n + 1])
  <2> DEFINE old == f[n]
             entries == Converted(tools[n + 1], editor)
             new == RegisterEntries(old, entries)
  <2>1. f[n + 1] = new
    <3>1. n + 1 \in 1 .. Len(tools) /\ (n + 1) - 1 = n
      BY <1>1, <1>4
    <3> QED
      BY <1>2, <3>1 DEF RegistersAll
  <2>2. IsSequence(entries) /\ DOMAIN entries = 1 .. Len(entries)
    BY ConvertedAny, SequenceFacts
  <2> HIDE DEF old
  <2>3. AllRegisteredTo(registry, tools, editor, n, old)
    BY <1>4 DEF old
  <2>4. RegisteredTo(old, entries, Len(entries), new)
    BY <2>2, <2>3, Registered DEF AllRegisteredTo
  <2> HIDE DEF new
  <2>5. n + 1 \in 1..n + 1 /\ (\A k \in 1..n + 1 : k # n + 1 => k \in 1..n) /\ 1..n \subseteq 1..n + 1
    OBVIOUS
  <2>6. \A up : Has(old, up) => Has(new, up)
    BY <2>4 DEF RegisteredTo, Has
  <2>7. \A i \in DOMAIN registry : Has(new, registry[i].up)
    BY <2>3, <2>6 DEF AllRegisteredTo
  <2>8. ASSUME NEW p \in 1..n + 1, NEW q \in DOMAIN Converted(tools[p], editor)
        PROVE  Has(new, Converted(tools[p], editor)[q].up)
    <3>1. CASE p = n + 1
      BY <2>2, <2>4, <3>1 DEF RegisteredTo
    <3>2. CASE p # n + 1
      BY <2>3, <2>5, <2>6, <3>2 DEF AllRegisteredTo
    <3> QED
      BY <3>1, <3>2
  <2>9. ASSUME NEW i \in DOMAIN new
        PROVE  \/ \E j \in DOMAIN registry : new[i] = registry[j]
               \/ ~Has(registry, new[i].up) /\ FirstOfTools(tools, editor, n + 1, new[i])
    <3>1. CASE \E j \in DOMAIN old : new[i] = old[j]
      <4>1. PICK j \in DOMAIN old : new[i] = old[j]
        BY <3>1
      <4>2. FirstOfTools(tools, editor, n, old[j]) => FirstOfTools(tools, editor, n + 1, old[j])
        BY <2>5 DEF FirstOfTools
      <4> QED
        BY <2>3, <4>1, <4>2 DEF AllRegisteredTo
    <3>2. CASE /\ ~Has(old, new[i].up)
               /\ \E k \in 1 .. Len(entries) : new[i] = entries[k] /\ Leads(entries, k)
      <4>1. ~Has(registry, new[i].up)
        BY <2>3, <3>2 DEF AllRegisteredTo, Has
      <4>2. ~Named(tools, editor, n, new[i].up)
        BY <2>3, <3>2 DEF AllRegisteredTo, Named
      <4>3. (n + 1) - 1 = n
        OBVIOUS
      <4>4. FirstOfTools(tools, editor, n + 1, new[i])
        BY <2>2, <2>5, <3>2, <4>2, <4>3 DEF FirstOfTools
      <4> QED
        BY <4>1, <4>4
    <3> QED
      BY <2>4, <3>1, <3>2 DEF RegisteredTo
  <2> QED
    BY <2>1, <2>4, <2>7, <2>8, <2>9 DEF AllRegisteredTo, RegisteredTo
<1>5. Len(tools) \in G
  <2>1. \A n \in Nat : n \in G => n + 1 \in G
    <3> SUFFICES ASSUME NEW n \in Nat, n \in G PROVE n + 1 \in G
      OBVIOUS
    <3>1. n + 1 <= Len(tools) => n <= Len(tools)
      BY <1>1
    <3> QED
      BY <1>4, <3>1
  <2> HIDE DEF G
  <2> QED
    BY <1>1, <1>3, <2>1, SetInduction
<1> QED
  BY <1>1, <1>2, <1>5 DEF RegistersAll

-----------------------------------------------------------------------------
(* What a name on offer means.                                             *)

\* In the order in which names are taken: the tools Codex sends, those a search
\* finds, the proxies.
Means(entry, editor) ==
  \/ FirstOfTools(Tools, editor, Len(Tools), entry)
  \/ /\ ~Named(Tools, editor, Len(Tools), entry.up)
     /\ FirstOfTools(Deferred, editor, Len(Deferred), entry)
  \/ /\ ~Named(Tools, editor, Len(Tools), entry.up)
     /\ ~Named(Deferred, editor, Len(Deferred), entry.up)
     /\ \E k \in DOMAIN CommandProxyEntries :
          entry = CommandProxyEntries[k] /\ Leads(CommandProxyEntries, k)

LEMMA ToolLists == IsSequence(Tools) /\ IsSequence(Deferred)
BY ConversationConstants DEF IsSequence, ToSet

LEMMA OneFirst ==
  ASSUME NEW tools, NEW editor, NEW n \in Nat, NEW one, NEW other,
         FirstOfTools(tools, editor, n, one), FirstOfTools(tools, editor, n, other),
         one.up = other.up
  PROVE  one = other
<1>6. PICK p \in 1..n : \E q \in DOMAIN Converted(tools[p], editor) :
        /\ one = Converted(tools[p], editor)[q] /\ Leads(Converted(tools[p], editor), q)
        /\ ~Named(tools, editor, p - 1, one.up)
  BY DEF FirstOfTools
<1>1. PICK q \in DOMAIN Converted(tools[p], editor) :
        /\ one = Converted(tools[p], editor)[q] /\ Leads(Converted(tools[p], editor), q)
        /\ ~Named(tools, editor, p - 1, one.up)
  BY <1>6
<1>7. PICK r \in 1..n : \E k \in DOMAIN Converted(tools[r], editor) :
        /\ other = Converted(tools[r], editor)[k] /\ Leads(Converted(tools[r], editor), k)
        /\ ~Named(tools, editor, r - 1, other.up)
  BY DEF FirstOfTools
<1>2. PICK k \in DOMAIN Converted(tools[r], editor) :
        /\ other = Converted(tools[r], editor)[k] /\ Leads(Converted(tools[r], editor), k)
        /\ ~Named(tools, editor, r - 1, other.up)
  BY <1>7
<1>3. p = r
  <2>1. ~(p < r)
    BY <1>1, <1>2 DEF Named
  <2>2. ~(r < p)
    BY <1>1, <1>2 DEF Named
  <2> QED
    BY <2>1, <2>2
<1>4. q \in Nat \ {0} /\ k \in Nat \ {0}
  <2>1. /\ DOMAIN Converted(tools[p], editor) = 1 .. Len(Converted(tools[p], editor))
        /\ Len(Converted(tools[p], editor)) \in Nat
    BY ConvertedAny, SequenceFacts
  <2> QED
    BY <1>3, <2>1
<1>5. ~(q < k) /\ ~(k < q)
  BY <1>1, <1>2, <1>3, <1>4 DEF Leads
<1> QED
  BY <1>1, <1>2, <1>3, <1>4, <1>5

\* A name means one tool.
LEMMA OneMeaning ==
  ASSUME NEW editor, NEW one, NEW other, Means(one, editor), Means(other, editor), one.up = other.up
  PROVE  one = other
<1>1. Len(Tools) \in Nat /\ Len(Deferred) \in Nat
  BY ToolLists, SequenceFacts
<1>2. ASSUME NEW tools, NEW n, NEW entry, FirstOfTools(tools, editor, n, entry)
      PROVE  Named(tools, editor, n, entry.up)
  BY <1>2 DEF FirstOfTools, Named
<1>3. CASE Named(Tools, editor, Len(Tools), one.up)
  BY <1>1, <1>3, OneFirst DEF Means
<1>4. CASE /\ ~Named(Tools, editor, Len(Tools), one.up)
           /\ Named(Deferred, editor, Len(Deferred), one.up)
  BY <1>1, <1>2, <1>4, OneFirst DEF Means
<1>5. CASE /\ ~Named(Tools, editor, Len(Tools), one.up)
           /\ ~Named(Deferred, editor, Len(Deferred), one.up)
  <2>1. PICK k \in DOMAIN CommandProxyEntries :
          one = CommandProxyEntries[k] /\ Leads(CommandProxyEntries, k)
    BY <1>2, <1>5 DEF Means
  <2>2. PICK m \in DOMAIN CommandProxyEntries :
          other = CommandProxyEntries[m] /\ Leads(CommandProxyEntries, m)
    BY <1>2, <1>5 DEF Means
  <2>3. DOMAIN CommandProxyEntries = 1..3
    BY DEF CommandProxyEntries
  <2>4. ~(k < m) /\ ~(m < k)
    BY <2>1, <2>2, <2>3 DEF Leads
  <2> QED
    BY <2>1, <2>2, <2>3, <2>4
<1> QED
  BY <1>3, <1>4, <1>5

\* Every search finds the same tools.
FoundTools(items) ==
  /\ IsSequence(items)
  /\ \A i \in DOMAIN items : items[i].type = "additional_tools" => items[i].tools = Deferred

LEMMA FoundFirst ==
  ASSUME NEW items, FoundTools(items), NEW editor, NEW entry,
         FirstOfTools(Found(items), editor, Len(Found(items)), entry)
  PROVE  FirstOfTools(Deferred, editor, Len(Deferred), entry)
<1> DEFINE lists == [i \in DOMAIN items |->
                       IF items[i].type = "additional_tools" THEN items[i].tools ELSE <<>>]
           whole == Found(items)
<1>1. IsSequence(lists) /\ Len(lists) = Len(items) /\ DOMAIN lists = 1 .. Len(items)
  <2>1. lists = [i \in DOMAIN items |-> lists[i]]
    OBVIOUS
  <2> HIDE DEF lists
  <2> QED
    BY <2>1, MappedAny DEF FoundTools
<1>2. \A i \in DOMAIN lists : lists[i] = Deferred \/ lists[i] = <<>>
  BY DEF FoundTools
<1>3. whole = FlattenSeq(lists)
  BY DEF Found
<1> HIDE DEF lists
<1>4. \A i \in DOMAIN lists : IsSequence(lists[i])
  BY <1>2, ToolLists, EmptyAny
<1>5. PICK off : Laid(lists, whole, off)
  BY <1>1, <1>3, <1>4, FlattenAny
<1>6. PICK S : lists \in Seq(Seq(S))
  BY <1>1, <1>4, FlattenAny
<1> HIDE DEF whole
<1>11. PICK p \in 1 .. Len(whole) : \E q \in DOMAIN Converted(whole[p], editor) :
        /\ entry = Converted(whole[p], editor)[q] /\ Leads(Converted(whole[p], editor), q)
        /\ ~Named(whole, editor, p - 1, entry.up)
  BY DEF FirstOfTools, whole
<1>7. PICK q \in DOMAIN Converted(whole[p], editor) :
        /\ entry = Converted(whole[p], editor)[q] /\ Leads(Converted(whole[p], editor), q)
        /\ ~Named(whole, editor, p - 1, entry.up)
  BY <1>11
<1>13. Covers(lists, whole, off)
  BY <1>5, <1>6, LaidOrder
<1>12. PICK i \in 1 .. Len(lists) :
         \E j \in 1 .. Len(lists[i]) : p = off[i - 1] + j /\ whole[p] = lists[i][j]
  BY <1>13 DEF Covers
<1>8. PICK j \in 1 .. Len(lists[i]) : p = off[i - 1] + j /\ whole[p] = lists[i][j]
  BY <1>12
<1>9. lists[i] = Deferred /\ j \in 1 .. Len(Deferred) /\ Len(Deferred) \in Nat
  <2>1. i \in DOMAIN lists
    BY <1>1
  <2>2. lists[i] # <<>>
    BY <1>8, EmptyAny
  <2> QED
    BY <1>2, <1>8, <2>1, <2>2, ToolLists, SequenceFacts
<1>10. ~Named(Deferred, editor, j - 1, entry.up)
  <2> SUFFICES ASSUME NEW r \in 1 .. j - 1, NEW k \in DOMAIN Converted(Deferred[r], editor),
                      Converted(Deferred[r], editor)[k].up = entry.up
               PROVE  FALSE
    BY DEF Named
  <2>1. off[i - 1] \in Nat
    <3>1. i - 1 \in 0 .. Len(lists)
      BY <1>1, SequenceFacts
    <3> QED
      BY <1>5, <3>1 DEF Laid
  <2>2. off[i - 1] + r \in 1 .. p - 1
    BY <1>8, <1>9, <2>1, SMTT(30)
  <2>3. r \in 1 .. Len(lists[i])
    BY <1>9
  <2>4. whole[off[i - 1] + r] = Deferred[r]
    BY <1>5, <1>9, <2>3 DEF Laid
  <2> QED
    BY <1>7, <2>2, <2>4 DEF Named
<1> QED
  BY <1>7, <1>8, <1>9, <1>10 DEF FirstOfTools

LEMMA FoundAny ==
  ASSUME NEW items, FoundTools(items)
  PROVE  IsSequence(Found(items))
<1> DEFINE lists == [i \in DOMAIN items |->
                       IF items[i].type = "additional_tools" THEN items[i].tools ELSE <<>>]
<1>1. IsSequence(lists)
  <2>1. lists = [i \in DOMAIN items |-> lists[i]]
    OBVIOUS
  <2> HIDE DEF lists
  <2> QED
    BY <2>1, MappedAny DEF FoundTools
<1>2. \A i \in DOMAIN lists : lists[i] = Deferred \/ lists[i] = <<>>
  BY DEF FoundTools
<1>3. Found(items) = FlattenSeq(lists)
  BY DEF Found
<1> HIDE DEF lists
<1>4. \A i \in DOMAIN lists : IsSequence(lists[i])
  BY <1>2, ToolLists, EmptyAny
<1> QED
  BY <1>1, <1>3, <1>4, FlattenAny

\* No tool that a search finds takes the name of a proxy.
FoundAreNoProxies ==
  \A editor \in BOOLEAN : \A k \in DOMAIN CommandProxyEntries :
    ~Named(Deferred, editor, Len(Deferred), CommandProxyEntries[k].up)

LEMMA RequestToolsMean ==
  ASSUME FoundAreNoProxies, NEW items, FoundTools(items), NEW editor \in BOOLEAN
  PROVE  /\ IsSequence(RequestTools(Tools, Found(items), editor))
         /\ \A i \in DOMAIN RequestTools(Tools, Found(items), editor) :
              Means(RequestTools(Tools, Found(items), editor)[i], editor)
<1> DEFINE sent == RegisterAll(<<>>, Tools, editor)
           searched == RegisterAll(sent, Found(items), editor)
           proxied == RegisterEntries(searched, CommandProxyEntries)
<1>1. AllRegisteredTo(<<>>, Tools, editor, Len(Tools), sent)
  BY AllRegistered, EmptyAny, ToolLists
<1> HIDE DEF sent
<1>2. AllRegisteredTo(sent, Found(items), editor, Len(Found(items)), searched)
  BY <1>1, AllRegistered, FoundAny DEF AllRegisteredTo
<1> HIDE DEF searched
<1>3. IsSequence(CommandProxyEntries) /\ DOMAIN CommandProxyEntries = 1 .. Len(CommandProxyEntries)
  <2>1. CommandProxyEntries = [i \in 1..3 |-> CommandProxyEntries[i]]
    BY DEF CommandProxyEntries
  <2> QED
    BY <2>1, SequenceFromFunction, SequenceFacts
<1>4. RegisteredTo(searched, CommandProxyEntries, Len(CommandProxyEntries), proxied)
  BY <1>2, <1>3, Registered DEF AllRegisteredTo
<1> HIDE DEF proxied
<1>5. ASSUME NEW i \in DOMAIN sent PROVE FirstOfTools(Tools, editor, Len(Tools), sent[i])
  BY <1>1, <1>5 DEF AllRegisteredTo
<1>6. ASSUME NEW up, ~Has(sent, up) PROVE ~Named(Tools, editor, Len(Tools), up)
  BY <1>1, <1>6 DEF AllRegisteredTo, Named
<1>7. ASSUME NEW i \in DOMAIN searched PROVE Means(searched[i], editor)
  <2>1. CASE \E j \in DOMAIN sent : searched[i] = sent[j]
    BY <1>5, <2>1 DEF Means
  <2>2. CASE /\ ~Has(sent, searched[i].up)
             /\ FirstOfTools(Found(items), editor, Len(Found(items)), searched[i])
    BY <1>6, <2>2, FoundFirst DEF Means
  <2> QED
    BY <1>2, <2>1, <2>2 DEF AllRegisteredTo
<1>8. ASSUME NEW i \in DOMAIN proxied PROVE Means(proxied[i], editor)
  <2>1. CASE \E j \in DOMAIN searched : proxied[i] = searched[j]
    BY <1>7, <2>1
  <2>2. CASE /\ ~Has(searched, proxied[i].up)
             /\ \E k \in 1 .. Len(CommandProxyEntries) :
                  proxied[i] = CommandProxyEntries[k] /\ Leads(CommandProxyEntries, k)
    <3>1. ~Has(sent, proxied[i].up)
      BY <1>2, <2>2 DEF AllRegisteredTo, Has
    <3>2. ~Named(Tools, editor, Len(Tools), proxied[i].up)
      BY <1>6, <3>1
    <3>3. PICK k \in DOMAIN CommandProxyEntries :
            proxied[i] = CommandProxyEntries[k] /\ Leads(CommandProxyEntries, k)
      BY <1>3, <2>2
    <3>4. ~Named(Deferred, editor, Len(Deferred), proxied[i].up)
      BY <3>3 DEF FoundAreNoProxies
    <3> QED
      BY <3>2, <3>3, <3>4 DEF Means
  <2> QED
    BY <1>4, <2>1, <2>2 DEF RegisteredTo
<1>9. \/ RequestTools(Tools, Found(items), editor) = searched
      \/ RequestTools(Tools, Found(items), editor) = proxied
  BY DEF RequestTools, AddCommandProxies, sent, searched, proxied
<1> QED
  BY <1>2, <1>4, <1>7, <1>8, <1>9 DEF AllRegisteredTo, RegisteredTo

LEMMA OfferedFrom ==
  ASSUME NEW registry, IsSequence(registry), NEW mode, NEW whole,
         whole = filterUnavailableRuntimeTools(registry, mode)
  PROVE  /\ IsSequence(whole)
         /\ \A i \in DOMAIN whole : \E j \in DOMAIN registry : whole[i] = registry[j]
<1> DEFINE withheld == IF mode = "plan" THEN {} ELSE {<<n>> : n \in PlanModeOnlyTools}
           lists == [i \in DOMAIN registry |->
                       IF registry[i].up \in withheld THEN <<>> ELSE <<registry[i]>>]
<1>1. whole = FlattenSeq(lists)
  BY DEF filterUnavailableRuntimeTools
<1>2. IsSequence(lists) /\ DOMAIN lists = 1 .. Len(registry) /\ Len(lists) = Len(registry)
  <2>1. lists = [i \in DOMAIN registry |-> lists[i]]
    OBVIOUS
  <2> HIDE DEF lists
  <2> QED
    BY <2>1, MappedAny
<1>3. \A i \in DOMAIN registry : lists[i] = <<>> \/ lists[i] = <<registry[i]>>
  OBVIOUS
<1>4. DOMAIN registry = 1 .. Len(registry)
  BY SequenceFacts
<1> HIDE DEF lists
<1>5. \A i \in DOMAIN lists : IsSequence(lists[i])
  BY <1>2, <1>3, <1>4, EmptyAny, OneAny
<1>6. IsSequence(whole)
  BY <1>1, <1>2, <1>5, FlattenAny
<1>9. ASSUME NEW k \in DOMAIN whole PROVE \E j \in DOMAIN registry : whole[k] = registry[j]
  <2>1. PICK i \in DOMAIN lists : \E j \in DOMAIN lists[i] : whole[k] = lists[i][j]
    BY <1>1, <1>2, <1>5, FlattenElements
  <2>2. PICK j \in DOMAIN lists[i] : whole[k] = lists[i][j]
    BY <2>1
  <2>3. i \in DOMAIN registry
    BY <1>2, <1>4
  <2>4. lists[i] = <<registry[i]>> /\ j = 1
    <3>1. lists[i] # <<>>
      BY <2>2, EmptyDomain
    <3>2. lists[i] = <<registry[i]>>
      BY <1>3, <2>3, <3>1
    <3> QED
      BY <2>2, <3>2, OneDomain
  <2> QED
    BY <2>2, <2>3, <2>4, OneAny
<1> QED
  BY <1>6, <1>9

-----------------------------------------------------------------------------
(* Entries, items and patches.                                             *)

EditorNames == {<<tool>> : tool \in ToSet(EditorTools)}

\* A free-form patch is never asked for under the name of an editor tool.
PatchNamed(entry) ==
  entry.kind \in {"custom", "patch"} /\ entry.name = "apply_patch" => entry.up \notin EditorNames

LEMMA EditorNamesAre ==
  \A up \in EditorNames : Len(up) = 1 /\ up[1] # "apply_patch"
<1>1. \A i \in DOMAIN EditorTools : EditorTools[i] # "apply_patch"
  BY DEF EditorTools
<1> QED
  BY <1>1 DEF EditorNames, ToSet

LEMMA ConvertedNamed ==
  ASSUME NEW tool, NEW editor, NEW q \in DOMAIN Converted(tool, editor)
  PROVE  PatchNamed(Converted(tool, editor)[q])
<1> DEFINE entries == ConvertTool(tool, editor)
           renamed == [i \in DOMAIN entries |->
                         [entries[i] EXCEPT !.ns = tool.ns,
                                            !.up = namespacedToolName(tool.ns, entries[i].name)]]
           Proper(entry) == /\ entry.kind \in {"custom", "patch"} => entry.up = <<entry.name>>
                            /\ entry = [kind |-> entry.kind, name |-> entry.name,
                                        up |-> entry.up, ns |-> entry.ns]
<1>1. \A i \in DOMAIN TextEditorEntries : Proper(TextEditorEntries[i])
  BY DEF TextEditorEntries, Entry
<1>2. \A kind, name, up : (kind \in {"custom", "patch"} => up = <<name>>)
        => Proper(Entry(kind, name, up))
  BY DEF Entry
<1> HIDE DEF Proper
<1>3. \A i \in DOMAIN convertFunction(tool, editor) : Proper(convertFunction(tool, editor)[i])
  <2> DEFINE result == convertFunction(tool, editor)
  <2>1. \E e : result = <<e>> /\ Proper(e)
    BY <1>2 DEF convertFunction, McpProxy
  <2> HIDE DEF result
  <2> QED
    BY <2>1, OneDomain DEF result
<1>4. \A i \in DOMAIN convertCustom(tool, editor) : Proper(convertCustom(tool, editor)[i])
  <2> DEFINE result == convertCustom(tool, editor)
  <2>1. result = TextEditorEntries \/ \E e : result = <<e>> /\ Proper(e)
    BY <1>2 DEF convertCustom
  <2> HIDE DEF result
  <2> QED
    BY <1>1, <2>1, OneDomain DEF result
<1>5. \A i \in DOMAIN entries : Proper(entries[i])
  <2>1. \/ entries = convertFunction(tool, editor) \/ entries = convertCustom(tool, editor)
        \/ entries = <<>> \/ \E e : entries = <<e>> /\ Proper(e)
    BY <1>2 DEF ConvertTool
  <2> HIDE DEF entries
  <2> QED
    BY <1>3, <1>4, <2>1, OneDomain, EmptyDomain
<1>9. \/ Converted(tool, editor) = entries
      \/ (tool.ns # NoNs /\ Converted(tool, editor) = renamed)
  BY DEF Converted
<1> HIDE DEF entries
<1>10. q \in DOMAIN entries
  BY <1>9
<1>6. /\ Proper(entries[q])
      /\ \/ Converted(tool, editor)[q] = entries[q]
         \/ (tool.ns # NoNs /\ Converted(tool, editor)[q] = renamed[q])
  BY <1>5, <1>9, <1>10
<1>7. CASE Converted(tool, editor)[q] = entries[q]
  <2>1. entries[q].up = <<"apply_patch">> => entries[q].up \notin EditorNames
    BY EditorNamesAre
  <2> QED
    BY <1>6, <1>7, <2>1 DEF PatchNamed, Proper
<1>8. CASE tool.ns # NoNs /\ Converted(tool, editor)[q] = renamed[q]
  <2>2. renamed[q].up = <<Sanitized[tool.ns], Sanitized[entries[q].name]>>
    BY <1>6, <1>8, <1>10 DEF namespacedToolName, Proper
  <2>3. \A one, other : Len(<<one, other>>) = 2
    OBVIOUS
  <2> HIDE DEF renamed
  <2>4. Len(renamed[q].up) # 1
    BY <2>2, <2>3
  <2> QED
    BY <1>8, <2>4, EditorNamesAre DEF PatchNamed
<1> QED
  BY <1>6, <1>7, <1>8

LEMMA RequestToolsNamed ==
  ASSUME NEW items, FoundTools(items), NEW editor
  PROVE  /\ IsSequence(RequestTools(Tools, Found(items), editor))
         /\ \A i \in DOMAIN RequestTools(Tools, Found(items), editor) :
              PatchNamed(RequestTools(Tools, Found(items), editor)[i])
<1> DEFINE sent == RegisterAll(<<>>, Tools, editor)
           searched == RegisterAll(sent, Found(items), editor)
           proxied == RegisterEntries(searched, CommandProxyEntries)
<1>1. AllRegisteredTo(<<>>, Tools, editor, Len(Tools), sent)
  BY AllRegistered, EmptyAny, ToolLists
<1> HIDE DEF sent
<1>2. AllRegisteredTo(sent, Found(items), editor, Len(Found(items)), searched)
  BY <1>1, AllRegistered, FoundAny DEF AllRegisteredTo
<1> HIDE DEF searched
<1>3. IsSequence(CommandProxyEntries) /\ DOMAIN CommandProxyEntries = 1 .. Len(CommandProxyEntries)
  <2>1. CommandProxyEntries = [i \in 1..3 |-> CommandProxyEntries[i]]
    BY DEF CommandProxyEntries
  <2> QED
    BY <2>1, SequenceFromFunction, SequenceFacts
<1>4. RegisteredTo(searched, CommandProxyEntries, Len(CommandProxyEntries), proxied)
  BY <1>2, <1>3, Registered DEF AllRegisteredTo
<1> HIDE DEF proxied
<1>5. ASSUME NEW tools, NEW n, NEW entry, FirstOfTools(tools, editor, n, entry)
      PROVE  PatchNamed(entry)
  BY <1>5, ConvertedNamed DEF FirstOfTools
<1>6. \A i \in DOMAIN sent : PatchNamed(sent[i])
  BY <1>1, <1>5 DEF AllRegisteredTo
<1>7. \A i \in DOMAIN searched : PatchNamed(searched[i])
  BY <1>2, <1>5, <1>6 DEF AllRegisteredTo
<1>8. \A k \in 1 .. Len(CommandProxyEntries) : PatchNamed(CommandProxyEntries[k])
  <2>1. DOMAIN CommandProxyEntries = 1..3
    BY DEF CommandProxyEntries
  <2>2. \A k \in 1..3 : CommandProxyEntries[k].kind \notin {"custom", "patch"}
    BY DEF CommandProxyEntries, Entry
  <2> QED
    BY <1>3, <2>1, <2>2 DEF PatchNamed
<1>9. \A i \in DOMAIN proxied : PatchNamed(proxied[i])
  BY <1>4, <1>7, <1>8 DEF RegisteredTo
<1>10. \/ RequestTools(Tools, Found(items), editor) = searched
       \/ RequestTools(Tools, Found(items), editor) = proxied
  BY DEF RequestTools, AddCommandProxies, sent, searched, proxied
<1> QED
  BY <1>2, <1>4, <1>7, <1>9, <1>10 DEF AllRegisteredTo, RegisteredTo

\* What a call becomes for Codex: a call with its id, or a note.
LEMMA ItemFromCall ==
  ASSUME NEW call, NEW registry, NEW files
  PROVE  \/ /\ IsCall(responseItemFromToolCall(call, registry, files))
            /\ responseItemFromToolCall(call, registry, files).id = call.id
         \/ \E code : responseItemFromToolCall(call, registry, files)
                        = MessageItem("assistant", {code}, <<>>)
<1> DEFINE item == responseItemFromToolCall(call, registry, files)
           entry == EntryOf(registry, call.up)
<1>1. \/ item = textEditorItem(call.id, call.args, files)
      \/ \E type \in CallTypes : \E ns, name, args : item = CallItem(type, call.id, ns, name, args)
  <2> HIDE DEF entry
  <2> QED
    BY DEF responseItemFromToolCall, CommandProxies, CallTypes, entry
<1>2. ASSUME NEW type \in CallTypes, NEW ns, NEW name, NEW args
      PROVE  IsCall(CallItem(type, call.id, ns, name, args))
             /\ CallItem(type, call.id, ns, name, args).id = call.id
  BY DEF CallItem, IsCall
<1>3. \/ \E args : textEditorItem(call.id, call.args, files)
                  = CallItem("custom_tool_call", call.id, NoNs, "apply_patch", args)
      \/ \E code : textEditorItem(call.id, call.args, files) = MessageItem("assistant", {code}, <<>>)
  BY DEF textEditorItem, localToolResultMessageItem
<1>4. "custom_tool_call" \in CallTypes
  BY DEF CallTypes
<1> HIDE DEF item, entry
<1>5. CASE item = textEditorItem(call.id, call.args, files)
  <2>1. CASE \E args : item = CallItem("custom_tool_call", call.id, NoNs, "apply_patch", args)
    <3>1. IsCall(item) /\ item.id = call.id
      BY <1>2, <1>4, <2>1
    <3> QED
      BY <3>1 DEF item
  <2>2. CASE \E code : item = MessageItem("assistant", {code}, <<>>)
    BY <2>2, Zenon DEF item
  <2> QED
    BY <1>3, <1>5, <2>1, <2>2
<1>6. CASE \E type \in CallTypes : \E ns, name, args : item = CallItem(type, call.id, ns, name, args)
  <2>1. IsCall(item) /\ item.id = call.id
    BY <1>2, <1>6
  <2> QED
    BY <2>1 DEF item
<1> QED
  BY <1>1, <1>5, <1>6

LEMMA PatchAny ==
  ASSUME NEW call, NEW files
  PROVE  PatchFor(call, files).kind = "note" \/ IsSequence(PatchFor(call, files).ops)
<1>1. \A one, two : IsSequence(<<one, two>>)
  <2> TAKE one, two
  <2>1. <<one, two>> \in Seq({one, two})
    OBVIOUS
  <2> QED
    BY <2>1, SequenceOf
<1>2. \A e : IsSequence(<<e>>)
  BY OneAny
<1> DEFINE Fine(result) == result.kind = "note" \/ IsSequence(result.ops)
<1>3. \A code : Fine(Note(code))
  BY DEF Note
<1>4. \A one : Fine(Patch(<<one>>))
  BY <1>2 DEF Patch
<1>5. \A one, two : Fine(Patch(<<one, two>>))
  BY <1>1 DEF Patch
<1> HIDE DEF Fine
<1>6. \A path, text : Fine(addFilePatch(path, text)) /\ Fine(replaceWholeFilePatch(path, text))
  BY <1>4, <1>5 DEF addFilePatch, replaceWholeFilePatch
<1>7. \A path, old, new : Fine(replacePatch(path, files, old, new)) /\ Fine(insertAfterPatch(path, old, new))
  BY <1>4 DEF replacePatch, insertAfterPatch
<1>8. \A path, line, text : Fine(insertLinePatch(path, files, line, text))
  BY <1>3, <1>6, <1>7 DEF insertLinePatch
<1>9. \A path, dest, old, new : Fine(moveFilePatch(path, dest, old, new))
  BY <1>4 DEF moveFilePatch
<1>10. \A path, dest : Fine(moveWholeFilePatch(path, dest, files))
  BY <1>3, <1>5 DEF moveWholeFilePatch
<1>11. Fine(PatchFor(call, files))
  BY <1>3, <1>4, <1>6, <1>7, <1>8, <1>9, <1>10 DEF PatchFor
<1> QED
  BY <1>11 DEF Fine

\* The arguments of a patch are a list of operations.
LEMMA PatchItemAny ==
  ASSUME NEW call, NEW registry, NEW files,
         \A i \in DOMAIN registry : PatchNamed(registry[i]),
         call.up \in EditorNames \/ IsSequence(call.args),
         IsPatch(responseItemFromToolCall(call, registry, files))
  PROVE  IsSequence(responseItemFromToolCall(call, registry, files).args)
<1> DEFINE item == responseItemFromToolCall(call, registry, files)
           entry == EntryOf(registry, call.up)
<1>1. entry.kind \in {"custom", "patch"} /\ entry.name = "apply_patch" => call.up \notin EditorNames
  <2> SUFFICES ASSUME entry.kind \in {"custom", "patch"}, entry.name = "apply_patch"
               PROVE  call.up \notin EditorNames
    OBVIOUS
  <2>1. Has(registry, call.up)
    BY DEF EntryOf, Entry
  <2>2. \E i \in DOMAIN registry : registry[i].up = call.up /\ entry = registry[i]
    BY <2>1 DEF EntryOf, Has
  <2> QED
    BY <2>2 DEF PatchNamed
<1>2. item.type = "custom_tool_call" /\ item.name = "apply_patch"
  BY DEF IsPatch
<1> HIDE DEF entry
<1>3. CASE entry.kind = "text_editor_patch"
  <2>1. item = textEditorItem(call.id, call.args, files)
    BY <1>3 DEF responseItemFromToolCall, CommandProxies, entry
  <2>2. PatchFor(call.args, files).kind # "note" /\ item.args = PatchFor(call.args, files).ops
    BY <1>2, <2>1 DEF textEditorItem, CallItem, localToolResultMessageItem, MessageItem
  <2> QED
    BY <2>2, PatchAny
<1>4. CASE entry.kind \in {"custom", "patch"}
  <2>1. item = CallItem("custom_tool_call", call.id, NoNs, entry.name, call.args)
    BY <1>4 DEF responseItemFromToolCall, CommandProxies, entry
  <2> QED
    BY <1>1, <1>2, <1>4, <2>1 DEF CallItem
<1>5. CASE entry.kind \notin {"text_editor_patch", "custom", "patch"}
  <2>1. item.type \in {"tool_search_call", "function_call", "shell_call"}
    BY <1>5 DEF responseItemFromToolCall, CommandProxies, CallItem, entry
  <2> QED
    BY <1>2, <2>1
<1> QED
  BY <1>3, <1>4, <1>5

-----------------------------------------------------------------------------
(* A patch leaves the paths of the disk.                                   *)

LEMMA ApplyKeepsPaths ==
  ASSUME NEW files, NEW ops, IsSequence(ops), Apply(files, ops).ok
  PROVE  DOMAIN Apply(files, ops).disk = DOMAIN files
<1> DEFINE next(acc, n) == IF acc.ok THEN ApplyOp(acc.disk, ops[n]) ELSE acc
           first == [ok |-> TRUE, disk |-> files]
           IsRun(n, f) == f = [m \in 0..n |-> IF m = 0 THEN first ELSE next(f[m - 1], m)]
           G == {n \in Nat : \E f : IsRun(n, f)}
           run == CHOOSE f : IsRun(Len(ops), f)
<1>0. Len(ops) \in Nat
  BY SequenceFacts
<1>1. Apply(files, ops) = run[Len(ops)]
  BY DEF Apply
<1>2. \A acc, n : (acc.ok => DOMAIN acc.disk = DOMAIN files)
        => (next(acc, n).ok => DOMAIN next(acc, n).disk = DOMAIN files)
  BY DEF ApplyOp, Refused
<1>3. first.ok => DOMAIN first.disk = DOMAIN files
  OBVIOUS
<1> HIDE DEF next, first
<1>4. 0 \in G
  <2>1. IsRun(0, [m \in 0..0 |-> first])
    OBVIOUS
  <2> QED
    BY <2>1
<1>5. ASSUME NEW n \in Nat, n \in G PROVE n + 1 \in G
  <2>1. PICK f : IsRun(n, f)
    BY <1>5
  <2> DEFINE g == [m \in 0..(n + 1) |-> IF m = n + 1 THEN next(f[n], n + 1) ELSE f[m]]
  <2>2. ASSUME NEW m \in 0..(n + 1)
        PROVE  g[m] = IF m = 0 THEN first ELSE next(g[m - 1], m)
    <3>1. CASE m = n + 1
      <4>1. m - 1 = n /\ g[m - 1] = f[n] /\ m # 0
        BY <3>1
      <4> QED
        BY <3>1, <4>1
    <3>2. CASE m # n + 1
      <4>1. m \in 0..n /\ (m # 0 => m - 1 \in 0..n /\ m - 1 # n + 1)
        BY <3>2
      <4>2. g[m] = f[m] /\ (m # 0 => g[m - 1] = f[m - 1])
        BY <3>2, <4>1
      <4> QED
        BY <2>1, <4>1, <4>2
    <3> QED
      BY <3>1, <3>2
  <2>3. IsRun(n + 1, g)
    BY <2>2
  <2> HIDE DEF IsRun
  <2> QED
    BY <2>3
<1>6. Len(ops) \in G
  <2> HIDE DEF G
  <2> QED
    BY <1>0, <1>4, <1>5, SetInduction
<1>7. IsRun(Len(ops), run)
  BY <1>6
<1> HIDE DEF run
<1> DEFINE Kept(n) == run[n].ok => DOMAIN run[n].disk = DOMAIN files
           H == {n \in Nat : n <= Len(ops) => Kept(n)}
<1>8. 0 \in H
  BY <1>0, <1>3, <1>7
<1>9. ASSUME NEW n \in Nat, n \in H PROVE n + 1 \in H
  <2> SUFFICES ASSUME n + 1 <= Len(ops) PROVE Kept(n + 1)
    OBVIOUS
  <2>1. n + 1 \in 0 .. Len(ops) /\ n + 1 # 0 /\ (n + 1) - 1 = n /\ Kept(n)
    BY <1>0, <1>9
  <2>2. run[n + 1] = next(run[n], n + 1)
    BY <1>7, <2>1
  <2> QED
    BY <1>2, <2>1, <2>2
<1>10. Len(ops) \in H
  <2> HIDE DEF H
  <2> QED
    BY <1>0, <1>8, <1>9, SetInduction
<1> QED
  BY <1>0, <1>1, <1>10

-----------------------------------------------------------------------------
(* Reading the history, item by item.                                      *)

LEMMA ReadingsLoop ==
  ASSUME NEW items, NEW settings, NEW registry, NEW calls, Len(items) \in Nat
  PROVE  /\ Readings(items, settings, registry, calls)[0] = NothingRead
         /\ \A n \in 1 .. Len(items) :
              Readings(items, settings, registry, calls)[n]
                = convertItem(Readings(items, settings, registry, calls)[n - 1], items[n],
                              settings, registry, calls)
<1> DEFINE next(s, n) == convertItem(s, items[n], settings, registry, calls)
           IsRun(n, f) == f = [m \in 0..n |-> IF m = 0 THEN NothingRead ELSE next(f[m - 1], m)]
           G == {n \in Nat : \E f : IsRun(n, f)}
           run == CHOOSE f : IsRun(Len(items), f)
<1>1. Readings(items, settings, registry, calls) = run
  BY DEF Readings
<1> HIDE DEF next
<1>4. 0 \in G
  <2>1. IsRun(0, [m \in 0..0 |-> NothingRead])
    OBVIOUS
  <2> QED
    BY <2>1
<1>5. ASSUME NEW n \in Nat, n \in G PROVE n + 1 \in G
  <2>1. PICK f : IsRun(n, f)
    BY <1>5
  <2> DEFINE g == [m \in 0..(n + 1) |-> IF m = n + 1 THEN next(f[n], n + 1) ELSE f[m]]
  <2>2. ASSUME NEW m \in 0..(n + 1)
        PROVE  g[m] = IF m = 0 THEN NothingRead ELSE next(g[m - 1], m)
    <3>1. CASE m = n + 1
      <4>1. m - 1 = n /\ g[m - 1] = f[n] /\ m # 0
        BY <3>1
      <4> QED
        BY <3>1, <4>1
    <3>2. CASE m # n + 1
      <4>1. m \in 0..n /\ (m # 0 => m - 1 \in 0..n /\ m - 1 # n + 1)
        BY <3>2
      <4>2. g[m] = f[m] /\ (m # 0 => g[m - 1] = f[m - 1])
        BY <3>2, <4>1
      <4> QED
        BY <2>1, <4>1, <4>2
    <3> QED
      BY <3>1, <3>2
  <2>3. IsRun(n + 1, g)
    BY <2>2
  <2> HIDE DEF IsRun
  <2> QED
    BY <2>3
<1>6. Len(items) \in G
  <2> HIDE DEF G
  <2> QED
    BY <1>4, <1>5, SetInduction
<1>7. IsRun(Len(items), run)
  BY <1>6
<1> HIDE DEF run
<1>8. run[0] = NothingRead
  BY <1>7
<1>9. ASSUME NEW n \in 1 .. Len(items) PROVE run[n] = next(run[n - 1], n)
  BY <1>7
<1> QED
  BY <1>1, <1>8, <1>9 DEF next

\* What has been read has these fields.
IsReading(s) ==
  s = [messages |-> s.messages, pending |-> s.pending, reasoning |-> s.reasoning,
       known |-> s.known, edits |-> s.edits, hidden |-> s.hidden]

LEMMA FlushFields ==
  ASSUME NEW s, IsReading(s)
  PROVE  /\ IsReading(flush(s)) /\ flush(s).pending = <<>>
         /\ flush(s).messages = IF s.pending = <<>> THEN s.messages
                                ELSE Append(s.messages, CallsMessage(s.reasoning, s.pending))
         /\ flush(s).reasoning = IF s.pending = <<>> THEN s.reasoning ELSE NoReasoning
         /\ flush(s).known = s.known /\ flush(s).edits = s.edits /\ flush(s).hidden = s.hidden
BY DEF IsReading, flush

LEMMA SayFields ==
  ASSUME NEW s, NEW message, IsReading(s)
  PROVE  /\ IsReading(say(s, message)) /\ say(s, message).messages = Append(s.messages, message)
         /\ say(s, message).pending = s.pending /\ say(s, message).reasoning = s.reasoning
         /\ say(s, message).known = s.known /\ say(s, message).edits = s.edits
         /\ say(s, message).hidden = s.hidden
BY SMTT(30) DEF IsReading, say

\* What an item adds: the calls before it, if it is none, then a message.
Says(s, r, message) ==
  /\ IsReading(r) /\ r.messages = Append(flush(s).messages, message)
  /\ r.pending = <<>> /\ r.reasoning = flush(s).reasoning
  /\ r.known = s.known /\ r.hidden = s.hidden

LEMMA CallTypesAre ==
  /\ \A type \in CallTypes : type \notin {"message", "output", "reasoning", "additional_tools"}
  /\ \A item : IsPatch(item) => IsCall(item)
BY DEF CallTypes, IsPatch, IsCall

LEMMA FlushThenSay ==
  ASSUME NEW s, IsReading(s), NEW message
  PROVE  Says(s, say(flush(s), message), message) /\ say(flush(s), message).edits = s.edits
BY FlushFields, SayFields DEF Says

LEMMA ConvertMessage ==
  ASSUME NEW s, IsReading(s), NEW item, item.type = "message", NEW settings, NEW registry, NEW calls,
         NEW r, r = convertItem(s, item, settings, registry, calls)
  PROVE  /\ Says(s, r, ChatMessage(normalizeRole(item.role, item.body), item.body, item.blocks))
         /\ r.edits = s.edits
<1>1. r = say(flush(s), ChatMessage(normalizeRole(item.role, item.body), item.body, item.blocks))
  BY CallTypesAre DEF convertItem, IsCall
<1> QED
  BY <1>1, FlushThenSay

LEMMA ConvertReasoning ==
  ASSUME NEW s, IsReading(s), NEW item, item.type = "reasoning", NEW settings, NEW registry, NEW calls,
         NEW r, r = convertItem(s, item, settings, registry, calls)
  PROVE  IsReading(r) /\ r = IF settings.reasoning THEN [s EXCEPT !.reasoning = item.text] ELSE s
<1>1. r = IF settings.reasoning THEN [s EXCEPT !.reasoning = item.text] ELSE s
  BY CallTypesAre DEF convertItem, IsCall
<1> QED
  BY <1>1 DEF IsReading

LEMMA ConvertOther ==
  ASSUME NEW s, NEW item, ~IsCall(item), item.type \notin {"message", "output", "reasoning"},
         NEW settings, NEW registry, NEW calls
  PROVE  convertItem(s, item, settings, registry, calls) = s
BY DEF convertItem

\* The answer to a hidden call and to an unknown one is left out, of an edit that
\* is hidden a summary is given.
LEMMA ConvertOutput ==
  ASSUME NEW s, IsReading(s), NEW item, item.type = "output", NEW settings, NEW registry, NEW calls,
         NEW r, r = convertItem(s, item, settings, registry, calls)
  PROVE  /\ r.edits = s.edits
         /\ \/ item.id \in s.hidden /\ r = s
            \/ /\ item.id \notin s.hidden /\ \E e \in s.edits : e.id = item.id
               /\ \E body : Says(s, r, ChatMessage("system", body, <<>>))
            \/ /\ item.id \notin s.hidden /\ ~ \E e \in s.edits : e.id = item.id
               /\ \E c \in s.known : c.id = item.id
               /\ \E body \in {item.body, formatTextEditorToolOutput(item.body)} :
                    Says(s, r, ToolMessage(item.id, body, item.blocks))
            \/ /\ item.id \notin s.hidden /\ ~ \E c \in s.known : c.id = item.id
               /\ r = flush(s)
<1>1. r = convertOutput(s, item)
  BY CallTypesAre DEF convertItem, IsCall
<1> DEFINE edits == {e \in s.edits : e.id = item.id}
           known == {c \in s.known : c.id = item.id}
<1>2. CASE item.id \in s.hidden
  <2>1. r = s
    BY <1>1, <1>2 DEF convertOutput
  <2> QED
    BY <1>2, <2>1
<1>3. CASE item.id \notin s.hidden /\ edits # {}
  <2>1. \E body : r = say(flush(s), ChatMessage("system", body, <<>>))
    BY <1>1, <1>3 DEF convertOutput
  <2>2. PICK body : r = say(flush(s), ChatMessage("system", body, <<>>))
    BY <2>1
  <2>3. Says(s, r, ChatMessage("system", body, <<>>)) /\ r.edits = s.edits
    BY <2>2, FlushThenSay
  <2> QED
    BY <1>3, <2>3
<1>4. CASE item.id \notin s.hidden /\ edits = {} /\ known # {}
  <2>1. \E body \in {item.body, formatTextEditorToolOutput(item.body)} :
          r = say(flush(s), ToolMessage(item.id, body, item.blocks))
    BY <1>1, <1>4 DEF convertOutput
  <2>2. PICK body \in {item.body, formatTextEditorToolOutput(item.body)} :
          r = say(flush(s), ToolMessage(item.id, body, item.blocks))
    BY <2>1
  <2>3. Says(s, r, ToolMessage(item.id, body, item.blocks)) /\ r.edits = s.edits
    BY <2>2, FlushThenSay
  <2> QED
    BY <1>4, <2>3
<1>5. CASE item.id \notin s.hidden /\ edits = {} /\ known = {}
  <2>1. r = flush(s)
    BY <1>1, <1>5 DEF convertOutput
  <2> QED
    BY <1>5, <2>1, FlushFields
<1> QED
  BY <1>2, <1>3, <1>4, <1>5

LEMMA ShowCallFields ==
  ASSUME NEW s, IsReading(s), NEW call
  PROVE  /\ IsReading(showCall(s, call)) /\ showCall(s, call).pending = Append(s.pending, call)
         /\ showCall(s, call).messages = s.messages /\ showCall(s, call).reasoning = s.reasoning
         /\ showCall(s, call).edits = s.edits /\ showCall(s, call).hidden = s.hidden
         /\ showCall(s, call).known = {c \in s.known : c.id # call.id} \cup {call}
<1> DEFINE known == {c \in s.known : c.id # call.id} \cup {call}
           t == [s EXCEPT !.pending = Append(@, call)]
<1>1. showCall(s, call) = [t EXCEPT !.known = known]
  BY DEF showCall, IsReading
<1>2. t = [messages |-> s.messages, pending |-> Append(s.pending, call), reasoning |-> s.reasoning,
           known |-> s.known, edits |-> s.edits, hidden |-> s.hidden]
  BY DEF IsReading
<1>3. known = {c \in s.known : c.id # call.id} \cup {call}
  OBVIOUS
<1> HIDE DEF known, t
<1>4. showCall(s, call) =
        [messages |-> s.messages, pending |-> Append(s.pending, call), reasoning |-> s.reasoning,
         known |-> known, edits |-> s.edits, hidden |-> s.hidden]
  BY <1>1, <1>2
<1> HIDE DEF showCall
<1> QED
  BY <1>3, <1>4 DEF IsReading

\* r: the edit is hidden.
HidesEdit(s, item, r) ==
  /\ \E edit : edit.id = item.id /\ r.edits = {e \in s.edits : e.id # item.id} \cup {edit}
  /\ Says(s, r, ChatMessage("system", {"edit hidden"}, <<>>))

\* A call is left out, hidden behind a summary, or shown.
LEMMA ConvertCall ==
  ASSUME NEW s, IsReading(s), NEW item, IsCall(item), NEW settings, NEW registry, NEW calls,
         NEW r, r = convertItem(s, item, settings, registry, calls)
  PROVE  \/ ~IsPatch(item) /\ r = [s EXCEPT !.hidden = @ \cup {item.id}]
         \/ /\ IsPatch(item) /\ settings.editor /\ CallFromPatch(item.args) = NoCall
            /\ HidesEdit(s, item, r)
         \/ /\ (IsPatch(item) /\ settings.editor) => CallFromPatch(item.args) # NoCall
            /\ \E call : call.id = item.id /\ r = showCall(s, call)
<1>1. r = convertCall(s, item, settings, registry, calls)
  BY CallTypesAre DEF convertItem, IsCall
<1>2. "custom_tool_call" # "function_call"
  OBVIOUS
<1>7. item.type = "function_call" => ~IsPatch(item)
  BY <1>2 DEF IsPatch
<1>3. CASE item.type = "function_call" /\ shouldHideFunctionToolHistory(item, settings)
  <2>1. r = [s EXCEPT !.hidden = @ \cup {item.id}] /\ ~IsPatch(item)
    BY <1>1, <1>2, <1>3 DEF convertCall, IsPatch
  <2> QED
    BY <2>1
<1>4. CASE item.type = "function_call" /\ ~shouldHideFunctionToolHistory(item, settings)
  <2>1. r = showCall(s, functionToolCall(item, registry, calls)) /\ ~IsPatch(item)
    BY <1>1, <1>2, <1>4 DEF convertCall, IsPatch
  <2>2. functionToolCall(item, registry, calls).id = item.id
    BY DEF functionToolCall
  <2> QED
    BY <2>1, <2>2
<1>5. CASE IsPatch(item) /\ settings.editor /\ CallFromPatch(item.args) = NoCall
  <2>1. r = hideEdit(s, item)
    BY <1>1, <1>2, <1>5 DEF convertCall, IsPatch
  <2> DEFINE edit == [id |-> item.id, files |-> PatchTouchedFiles(item.args),
                      alreadyApplied |-> PatchIsNoopUpdate(item.args)]
             t == [flush(s) EXCEPT !.edits = {e \in @ : e.id # edit.id} \cup {edit}]
  <2>2. edit.id = item.id
    OBVIOUS
  <2>3. r = say(t, ChatMessage("system", {"edit hidden"}, <<>>))
    BY <2>1 DEF hideEdit
  <2> HIDE DEF edit
  <2> DEFINE u == flush(s)
             hidden == {e \in u.edits : e.id # edit.id} \cup {edit}
  <2>6. /\ IsReading(u) /\ u.pending = <<>> /\ u.known = s.known
        /\ u.edits = s.edits /\ u.hidden = s.hidden
    BY FlushFields
  <2>7. t = [u EXCEPT !.edits = hidden]
    OBVIOUS
  <2>8. hidden = {e \in s.edits : e.id # item.id} \cup {edit}
    BY <2>2, <2>6
  <2> HIDE DEF u, t, hidden
  <2>9. /\ IsReading(t) /\ t.pending = u.pending /\ t.known = u.known /\ t.hidden = u.hidden
        /\ t.messages = u.messages /\ t.reasoning = u.reasoning /\ t.edits = hidden
    BY <2>6, <2>7 DEF IsReading
  <2>4. /\ IsReading(t) /\ t.pending = <<>> /\ t.known = s.known /\ t.hidden = s.hidden
        /\ t.messages = flush(s).messages /\ t.reasoning = flush(s).reasoning
        /\ t.edits = {e \in s.edits : e.id # item.id} \cup {edit}
    BY <2>6, <2>8, <2>9 DEF u
  <2>10. r = say(t, ChatMessage("system", {"edit hidden"}, <<>>))
    BY <2>3 DEF t, hidden, u
  <2>5. Says(s, r, ChatMessage("system", {"edit hidden"}, <<>>)) /\ r.edits = t.edits
    <3> DEFINE message == ChatMessage("system", {"edit hidden"}, <<>>)
    <3>1. IsReading(t) /\ r = say(t, message)
      BY <2>4, <2>10
    <3> HIDE DEF message
    <3>2. /\ IsReading(r) /\ r.messages = Append(t.messages, message)
          /\ r.pending = t.pending /\ r.reasoning = t.reasoning
          /\ r.known = t.known /\ r.edits = t.edits /\ r.hidden = t.hidden
      BY <3>1, SayFields
    <3>3. t.pending = <<>> /\ t.known = s.known /\ t.hidden = s.hidden
          /\ t.messages = flush(s).messages /\ t.reasoning = flush(s).reasoning
      BY <2>4
    <3>4. Says(s, r, message)
      BY <3>2, <3>3 DEF Says
    <3> QED
      BY <3>2, <3>4 DEF message
  <2> QED
    BY <1>5, <2>2, <2>4, <2>5 DEF HidesEdit
<1>6. CASE /\ item.type # "function_call"
           /\ ~(IsPatch(item) /\ settings.editor /\ CallFromPatch(item.args) = NoCall)
  <2>1. \E call : call.id = item.id /\ r = showCall(s, call)
    <3>1. editorToolCall(item).id = item.id /\ plainToolCall(item).id = item.id
      BY DEF editorToolCall, plainToolCall
    <3>2. \/ r = showCall(s, editorToolCall(item)) \/ r = showCall(s, plainToolCall(item))
      BY <1>1, <1>6 DEF convertCall
    <3> QED
      BY <3>1, <3>2
  <2> QED
    BY <1>6, <1>7, <2>1
<1> QED
  BY <1>3, <1>4, <1>5, <1>6, <1>7

-----------------------------------------------------------------------------
(* Messages.                                                               *)

LEMMA LargestIn ==
  ASSUME NEW n \in Nat, NEW T \in SUBSET (1..n), T # {}
  PROVE  Max(T) \in T /\ \A t \in T : t <= Max(T)
<1> DEFINE Flipped == {n - t : t \in T}
<1>1. Flipped \in SUBSET Nat /\ Flipped # {}
  <2>1. \A t \in T : t \in Nat /\ t <= n
    OBVIOUS
  <2>2. \A t \in T : n - t \in Nat
    BY <2>1
  <2> QED
    BY <2>2
<1>2. PICK x \in Flipped : \A y \in Flipped : x <= y
  BY <1>1, SmallestNat
<1>3. PICK t \in T : x = n - t
  OBVIOUS
<1>4. \A u \in T : t >= u
  <2> TAKE u \in T
  <2>1. n - u \in Flipped
    OBVIOUS
  <2>2. n - t <= n - u
    BY <1>2, <1>3, <2>1
  <2> QED
    BY <2>2
<1>5. Max(T) \in T /\ \A u \in T : Max(T) >= u
  BY <1>4 DEF Max
<1> QED
  BY <1>5

\* A message has these fields.
IsMessage(m) ==
  m = [role |-> m.role, body |-> m.body, blocks |-> m.blocks,
       reasoning |-> m.reasoning, calls |-> m.calls, answers |-> m.answers]

GoodMessage(m) ==
  /\ IsMessage(m)
  /\ m.role \in {"system", "user", "assistant", "tool"}
  /\ IsSequence(m.blocks) /\ IsSequence(m.calls)
  /\ m.calls # <<>> => m.role = "assistant" /\ m.blocks = <<>>
  /\ m.role # "tool" => m.answers = 0

GoodMessages(messages) ==
  IsSequence(messages) /\ \A i \in DOMAIN messages : GoodMessage(messages[i])

LEMMA ChatMessageGood ==
  ASSUME NEW role \in {"system", "user", "assistant", "tool"}, NEW body, NEW blocks,
         IsSequence(blocks)
  PROVE  GoodMessage(ChatMessage(role, body, blocks))
BY EmptyAny DEF ChatMessage, GoodMessage, IsMessage

LEMMA CallsMessageFields ==
  ASSUME NEW reasoning, NEW calls
  PROVE  CallsMessage(reasoning, calls) =
           [role |-> "assistant", body |-> {}, blocks |-> <<>>,
            reasoning |-> reasoning, calls |-> calls, answers |-> 0]
<1> DEFINE m == [role |-> "assistant", body |-> {}, blocks |-> <<>>,
                 reasoning |-> NoReasoning, calls |-> <<>>, answers |-> 0]
           k == [m EXCEPT !.reasoning = reasoning]
           none == <<>>
<1>1. CallsMessage(reasoning, calls) = [k EXCEPT !.calls = calls]
  BY DEF CallsMessage, ChatMessage
<1>2. k = [role |-> "assistant", body |-> {}, blocks |-> none,
           reasoning |-> reasoning, calls |-> none, answers |-> 0]
  <2>1. m = [role |-> "assistant", body |-> {}, blocks |-> none,
             reasoning |-> NoReasoning, calls |-> none, answers |-> 0]
    OBVIOUS
  <2> HIDE DEF none, m
  <2> QED
    BY <2>1
<1> HIDE DEF k
<1> QED
  BY <1>1, <1>2

LEMMA CallsMessageGood ==
  ASSUME NEW reasoning, NEW calls, IsSequence(calls)
  PROVE  GoodMessage(CallsMessage(reasoning, calls))
BY CallsMessageFields, EmptyAny DEF GoodMessage, IsMessage

LEMMA ToolMessageFields ==
  ASSUME NEW id, NEW body, NEW blocks
  PROVE  ToolMessage(id, body, blocks) =
           [role |-> "tool", body |-> body, blocks |-> blocks,
            reasoning |-> NoReasoning, calls |-> <<>>, answers |-> id]
BY DEF ToolMessage, ChatMessage

LEMMA ToolMessageGood ==
  ASSUME NEW id, NEW body, NEW blocks, IsSequence(blocks)
  PROVE  GoodMessage(ToolMessage(id, body, blocks))
BY ToolMessageFields, EmptyAny DEF GoodMessage, IsMessage

LEMMA GoodAppend ==
  ASSUME NEW messages, GoodMessages(messages), NEW m, GoodMessage(m)
  PROVE  GoodMessages(Append(messages, m))
<1>1. /\ IsSequence(Append(messages, m)) /\ Len(Append(messages, m)) = Len(messages) + 1
      /\ \A i \in 1 .. Len(messages) : Append(messages, m)[i] = messages[i]
      /\ Append(messages, m)[Len(messages) + 1] = m
  BY AppendAny DEF GoodMessages
<1>2. /\ Len(messages) \in Nat /\ DOMAIN messages = 1 .. Len(messages)
      /\ DOMAIN Append(messages, m) = 1 .. Len(messages) + 1
  BY <1>1, SequenceFacts DEF GoodMessages
<1> HIDE DEF GoodMessage
<1> QED
  BY <1>1, <1>2 DEF GoodMessages

\* An item of the history.
GoodItem(item) ==
  /\ item.type \in CallTypes \cup {"message", "output", "reasoning", "additional_tools"}
  /\ item.type = "message" =>
       item.role \in {"developer", "user", "assistant"} /\ IsSequence(item.blocks)
  /\ item.type = "output" => IsSequence(item.blocks) /\ item.body \cap NoResult = {}
  /\ item.type = "additional_tools" => item.tools = Deferred

GoodItems(items) == IsSequence(items) /\ \A i \in DOMAIN items : GoodItem(items[i])

GoodReading(s) == IsReading(s) /\ GoodMessages(s.messages) /\ IsSequence(s.pending)

LEMMA NothingReadGood == GoodReading(NothingRead)
BY EmptyAny DEF GoodReading, NothingRead, IsReading, GoodMessages

LEMMA FlushGood ==
  ASSUME NEW s, GoodReading(s)
  PROVE  GoodReading(flush(s))
<1>1. GoodMessage(CallsMessage(s.reasoning, s.pending))
  BY CallsMessageGood DEF GoodReading
<1>2. GoodMessages(flush(s).messages)
  BY <1>1, FlushFields, GoodAppend DEF GoodReading
<1> QED
  BY <1>2, FlushFields, EmptyAny DEF GoodReading

LEMMA normalizeRoleOf ==
  ASSUME NEW role \in {"developer", "user", "assistant"}, NEW body
  PROVE  /\ normalizeRole(role, body) \in {"system", "user", "assistant"}
         /\ normalizeRole(role, body) = "user" <=> role = "user" /\ "# AGENTS.md instructions" \notin body
BY DEF normalizeRole

LEMMA ConvertGood ==
  ASSUME NEW s, GoodReading(s), NEW item, GoodItem(item), NEW settings, NEW registry, NEW calls
  PROVE  GoodReading(convertItem(s, item, settings, registry, calls))
<1> DEFINE r == convertItem(s, item, settings, registry, calls)
<1>0. IsReading(s) /\ r = convertItem(s, item, settings, registry, calls)
  BY DEF GoodReading
<1> HIDE DEF r
<1> SUFFICES GoodReading(r)
  BY <1>0
<1>1. ASSUME NEW m, GoodMessage(m), Says(s, r, m) PROVE GoodReading(r)
  <2>1. GoodMessages(Append(flush(s).messages, m))
    BY <1>1, FlushGood, GoodAppend DEF GoodReading
  <2> QED
    BY <1>1, <2>1, EmptyAny DEF Says, GoodReading
<1>2. ASSUME item.type = "message",
             Says(s, r, ChatMessage(normalizeRole(item.role, item.body), item.body, item.blocks))
      PROVE  GoodReading(r)
  <2>1. normalizeRole(item.role, item.body) \in {"system", "user", "assistant", "tool"}
    BY <1>2, normalizeRoleOf DEF GoodItem
  <2> QED
    BY <1>1, <1>2, <2>1, ChatMessageGood DEF GoodItem
<1>3. ASSUME NEW body, Says(s, r, ChatMessage("system", body, <<>>)) PROVE GoodReading(r)
  <2>1. GoodMessage(ChatMessage("system", body, <<>>))
    BY ChatMessageGood, EmptyAny
  <2> QED
    BY <1>1, <1>3, <2>1
<1>4. ASSUME item.type = "output", NEW body, Says(s, r, ToolMessage(item.id, body, item.blocks))
      PROVE  GoodReading(r)
  <2>1. GoodMessage(ToolMessage(item.id, body, item.blocks))
    BY <1>4, ToolMessageGood DEF GoodItem
  <2> QED
    BY <1>1, <1>4, <2>1
<1>5. ASSUME r = s \/ r = flush(s) PROVE GoodReading(r)
  BY <1>5, FlushGood
<1>6. ASSUME \/ r = [s EXCEPT !.hidden = @ \cup {item.id}]
             \/ r = [s EXCEPT !.reasoning = item.text]
      PROVE  GoodReading(r)
  <2>1. IsReading(r) /\ r.messages = s.messages /\ r.pending = s.pending
    BY <1>0, <1>6 DEF IsReading
  <2> QED
    BY <2>1 DEF GoodReading
<1>7. ASSUME NEW call, r = showCall(s, call) PROVE GoodReading(r)
  <2>1. IsReading(r) /\ r.messages = s.messages /\ r.pending = Append(s.pending, call)
    <3>1. /\ IsReading(showCall(s, call)) /\ showCall(s, call).messages = s.messages
          /\ showCall(s, call).pending = Append(s.pending, call)
      BY <1>0, ShowCallFields
    <3> QED
      BY <1>7, <3>1
  <2> QED
    BY <2>1, AppendAny DEF GoodReading
<1>8. CASE item.type = "message"
  <2>1. Says(s, r, ChatMessage(normalizeRole(item.role, item.body), item.body, item.blocks))
    BY <1>0, <1>8, ConvertMessage
  <2> QED
    BY <1>2, <1>8, <2>1
<1>9. CASE item.type = "output"
  <2>1. \/ r = s \/ r = flush(s)
        \/ \E body : Says(s, r, ChatMessage("system", body, <<>>))
        \/ \E body : Says(s, r, ToolMessage(item.id, body, item.blocks))
    BY <1>0, <1>9, ConvertOutput
  <2> QED
    BY <1>3, <1>4, <1>5, <1>9, <2>1
<1>10. CASE item.type = "reasoning"
  <2>1. r = [s EXCEPT !.reasoning = item.text] \/ r = s
    BY <1>0, <1>10, ConvertReasoning
  <2> QED
    BY <1>5, <1>6, <2>1
<1>11. CASE IsCall(item)
  <2>1. \/ r = [s EXCEPT !.hidden = @ \cup {item.id}]
        \/ HidesEdit(s, item, r)
        \/ \E call : r = showCall(s, call)
    BY <1>0, <1>11, ConvertCall
  <2> QED
    BY <1>3, <1>6, <1>7, <2>1 DEF HidesEdit
<1>12. CASE ~IsCall(item) /\ item.type \notin {"message", "output", "reasoning"}
  <2>1. r = s
    BY <1>0, <1>12, ConvertOther
  <2> QED
    BY <1>5, <2>1
<1> QED
  BY <1>8, <1>9, <1>10, <1>11, <1>12

LEMMA ReadingsGood ==
  ASSUME NEW items, GoodItems(items), NEW settings, NEW registry, NEW calls
  PROVE  \A n \in 0 .. Len(items) : GoodReading(Readings(items, settings, registry, calls)[n])
<1> DEFINE read == Readings(items, settings, registry, calls)
           G == {n \in Nat : n <= Len(items) => GoodReading(read[n])}
<1>0. Len(items) \in Nat /\ DOMAIN items = 1 .. Len(items)
  BY SequenceFacts DEF GoodItems
<1>1. read[0] = NothingRead
      /\ \A n \in 1 .. Len(items) : read[n] = convertItem(read[n - 1], items[n], settings, registry, calls)
  BY <1>0, ReadingsLoop
<1> HIDE DEF read
<1>2. 0 \in G
  BY <1>1, NothingReadGood
<1>3. ASSUME NEW n \in Nat, n \in G PROVE n + 1 \in G
  <2> SUFFICES ASSUME n + 1 <= Len(items) PROVE GoodReading(read[n + 1])
    OBVIOUS
  <2>1. n + 1 \in 1 .. Len(items) /\ (n + 1) - 1 = n /\ GoodReading(read[n])
    BY <1>0, <1>3
  <2>2. GoodItem(items[n + 1])
    BY <1>0, <2>1 DEF GoodItems
  <2> QED
    BY <1>1, <2>1, <2>2, ConvertGood
<1>4. Nat \subseteq G
  <2> HIDE DEF G
  <2> QED
    BY <1>2, <1>3, SetInduction
<1> QED
  BY <1>0, <1>4 DEF read

-----------------------------------------------------------------------------
(* The messages after superseded contexts are gone and calls are paired.   *)

LEMMA BlocksChanged ==
  ASSUME NEW m, IsMessage(m), NEW b, NEW k, k = [m EXCEPT !.blocks = b]
  PROVE  /\ IsMessage(k) /\ k.role = m.role /\ k.body = m.body /\ k.blocks = b
         /\ k.reasoning = m.reasoning /\ k.calls = m.calls /\ k.answers = m.answers
BY DEF IsMessage

\* The messages with environment contexts.
Holders(messages) == {j \in DOMAIN messages : messages[j].blocks # <<>>}

LEMMA MessageBlocks ==
  ASSUME NEW messages, GoodMessages(messages), NEW blocks,
         blocks = [i \in DOMAIN messages |-> messages[i].blocks]
  PROVE  /\ IsSequence(blocks) /\ DOMAIN blocks = DOMAIN messages /\ Len(blocks) = Len(messages)
         /\ \A i \in DOMAIN blocks : blocks[i] = messages[i].blocks /\ IsSequence(blocks[i])
         /\ Contexts(messages) = FlattenSeq(blocks)
<1>1. IsSequence(messages) /\ \A i \in DOMAIN messages : IsSequence(messages[i].blocks)
  BY DEF GoodMessages, GoodMessage
<1>2. IsSequence(blocks) /\ DOMAIN blocks = DOMAIN messages /\ Len(blocks) = Len(messages)
  BY <1>1, MappedAny, SequenceFacts
<1> QED
  BY <1>1, <1>2 DEF Contexts

LEMMA ContextsHeld ==
  ASSUME NEW messages, GoodMessages(messages)
  PROVE  /\ IsSequence(Contexts(messages))
         /\ Len(Contexts(messages)) > 0 => Holders(messages) # {}
<1> DEFINE blocks == [i \in DOMAIN messages |-> messages[i].blocks]
<1>1. /\ IsSequence(blocks) /\ DOMAIN blocks = DOMAIN messages
      /\ \A i \in DOMAIN blocks : blocks[i] = messages[i].blocks /\ IsSequence(blocks[i])
      /\ Contexts(messages) = FlattenSeq(blocks)
  BY MessageBlocks
<1> HIDE DEF blocks
<1>2. IsSequence(Contexts(messages))
  BY <1>1, FlattenAny
<1>3. ASSUME Len(Contexts(messages)) > 0 PROVE Holders(messages) # {}
  <2>1. 1 \in DOMAIN FlattenSeq(blocks)
    BY <1>1, <1>2, <1>3, SequenceFacts
  <2>2. PICK i \in DOMAIN blocks : \E j \in DOMAIN blocks[i] : FlattenSeq(blocks)[1] = blocks[i][j]
    BY <1>1, <2>1, FlattenElements
  <2>3. blocks[i] # <<>>
    BY <2>2, EmptyDomain
  <2> QED
    BY <1>1, <2>2, <2>3 DEF Holders
<1> QED
  BY <1>2, <1>3

LEMMA LastHolder ==
  ASSUME NEW messages, GoodMessages(messages), Holders(messages) # {}
  PROVE  /\ Max(Holders(messages)) \in Holders(messages)
         /\ \A i \in Holders(messages) : i <= Max(Holders(messages))
<1>1. DOMAIN messages = 1 .. Len(messages) /\ Len(messages) \in Nat
  BY SequenceFacts DEF GoodMessages
<1>2. Holders(messages) \in SUBSET (1 .. Len(messages))
  BY <1>1 DEF Holders
<1> QED
  BY <1>1, <1>2, LargestIn

\* A message goes if it is one of the user with a superseded context alone; of
\* the others only the contexts change.
LEMMA Kept ==
  ASSUME NEW messages, GoodMessages(messages), Holders(messages) # {}, NEW i \in DOMAIN messages,
         NEW kept, kept = IF i = Max(Holders(messages)) THEN <<Last(messages[i].blocks)>> ELSE <<>>
  PROVE  \/ /\ keptMessage(messages, i) = <<>> /\ kept = <<>>
            /\ messages[i].role = "user" /\ messages[i].body = {}
         \/ \E k : /\ keptMessage(messages, i) = <<k>> /\ k = [messages[i] EXCEPT !.blocks = kept]
                   /\ GoodMessage(k)
<1>1. GoodMessage(messages[i])
  BY DEF GoodMessages
<1>2. keptMessage(messages, i) =
        IF messages[i].role = "user" /\ messages[i].body = {} /\ kept = <<>> THEN <<>>
        ELSE <<[messages[i] EXCEPT !.blocks = kept]>>
  BY DEF keptMessage, Holders
<1>3. IsSequence(kept)
  BY OneAny, EmptyAny
<1>4. messages[i].calls # <<>> => kept = <<>>
  <2>1. messages[i].blocks # <<>> \/ kept = <<>>
    BY LastHolder DEF Holders
  <2> QED
    BY <1>1, <2>1 DEF GoodMessage
<1> DEFINE k == [messages[i] EXCEPT !.blocks = kept]
<1>5. /\ IsMessage(k) /\ k.role = messages[i].role /\ k.blocks = kept
      /\ k.calls = messages[i].calls /\ k.answers = messages[i].answers
  BY <1>1, BlocksChanged DEF GoodMessage
<1> HIDE DEF k
<1>6. GoodMessage(k)
  BY <1>1, <1>3, <1>4, <1>5 DEF GoodMessage
<1>7. CASE messages[i].role = "user" /\ messages[i].body = {} /\ kept = <<>>
  BY <1>2, <1>7
<1>8. CASE ~(messages[i].role = "user" /\ messages[i].body = {} /\ kept = <<>>)
  <2>1. keptMessage(messages, i) = <<k>> /\ k = [messages[i] EXCEPT !.blocks = kept]
    BY <1>2, <1>8 DEF k
  <2> QED
    BY <1>6, <2>1
<1> QED
  BY <1>7, <1>8

LEMMA FlattenGood ==
  ASSUME NEW ss, IsSequence(ss), \A i \in DOMAIN ss : GoodMessages(ss[i])
  PROVE  GoodMessages(FlattenSeq(ss))
<1>1. \A i \in DOMAIN ss : IsSequence(ss[i])
  BY DEF GoodMessages
<1>2. IsSequence(FlattenSeq(ss))
  BY <1>1, FlattenAny
<1>3. \A k \in DOMAIN FlattenSeq(ss) : GoodMessage(FlattenSeq(ss)[k])
  <2> TAKE k \in DOMAIN FlattenSeq(ss)
  <2>1. PICK i \in DOMAIN ss : \E j \in DOMAIN ss[i] : FlattenSeq(ss)[k] = ss[i][j]
    BY <1>1, FlattenElements
  <2>2. PICK j \in DOMAIN ss[i] : FlattenSeq(ss)[k] = ss[i][j]
    BY <2>1
  <2> HIDE DEF GoodMessage
  <2> QED
    BY <2>1, <2>2 DEF GoodMessages
<1> QED
  BY <1>2, <1>3 DEF GoodMessages

LEMMA OneGood ==
  ASSUME NEW k, GoodMessage(k)
  PROVE  GoodMessages(<<k>>)
BY OneAny, OneDomain DEF GoodMessages

LEMMA NoneGood == GoodMessages(<<>>)
BY EmptyAny, EmptyDomain DEF GoodMessages

\* The pieces that superseded contexts leave.
LEMMA KeptPieces ==
  ASSUME NEW messages, GoodMessages(messages), Holders(messages) # {}, NEW ss,
         ss = [i \in DOMAIN messages |-> keptMessage(messages, i)]
  PROVE  /\ IsSequence(ss) /\ DOMAIN ss = DOMAIN messages /\ Len(ss) = Len(messages)
         /\ \A i \in DOMAIN ss : ss[i] = keptMessage(messages, i) /\ GoodMessages(ss[i])
<1>1. IsSequence(messages)
  BY DEF GoodMessages
<1>2. IsSequence(ss) /\ DOMAIN ss = DOMAIN messages /\ Len(ss) = Len(messages)
  BY <1>1, MappedAny, SequenceFacts
<1>3. ASSUME NEW i \in DOMAIN ss PROVE GoodMessages(keptMessage(messages, i))
  <2> DEFINE kept == IF i = Max(Holders(messages)) THEN <<Last(messages[i].blocks)>> ELSE <<>>
  <2>1. keptMessage(messages, i) = <<>> \/ \E k : keptMessage(messages, i) = <<k>> /\ GoodMessage(k)
    BY <1>2, <1>3, Kept
  <2> QED
    BY <2>1, OneGood, NoneGood
<1> QED
  BY <1>2, <1>3

LEMMA KeepGood ==
  ASSUME NEW messages, GoodMessages(messages)
  PROVE  GoodMessages(keepLatestEnvironmentContext(messages))
<1>1. CASE Len(Contexts(messages)) <= 1
  BY <1>1 DEF keepLatestEnvironmentContext
<1>2. CASE ~ (Len(Contexts(messages)) <= 1)
  <2>1. Holders(messages) # {}
    BY <1>2, ContextsHeld, SequenceFacts
  <2> DEFINE ss == [i \in DOMAIN messages |-> keptMessage(messages, i)]
  <2>2. GoodMessages(FlattenSeq(ss))
    BY <2>1, KeptPieces, FlattenGood
  <2> QED
    BY <1>2, <2>2 DEF keepLatestEnvironmentContext
<1> QED
  BY <1>1, <1>2

LEMMA TwoAny ==
  ASSUME NEW a, NEW b
  PROVE  /\ IsSequence(<<a, b>>) /\ Len(<<a, b>>) = 2 /\ DOMAIN <<a, b>> = {1, 2}
         /\ <<a, b>>[1] = a /\ <<a, b>>[2] = b
<1>1. <<a, b>> \in Seq({a, b}) /\ Len(<<a, b>>) = 2 /\ <<a, b>>[1] = a /\ <<a, b>>[2] = b
  OBVIOUS
<1>2. DOMAIN <<a, b>> = 1..2
  BY <1>1
<1>3. 1..2 = {1, 2}
  OBVIOUS
<1> QED
  BY <1>1, <1>2, <1>3, SequenceOf

\* The answers to the call right behind message i.
Mine(call, messages, i) == {j \in candidates(messages, i) : messages[j].answers = call.id}

LEMMA MineIn ==
  ASSUME NEW messages, GoodMessages(messages), NEW i \in DOMAIN messages, NEW call
  PROVE  /\ Mine(call, messages, i) \in SUBSET (1 .. Len(messages))
         /\ \A j \in Mine(call, messages, i) : 
              /\ j \in DOMAIN messages /\ i < j
              /\ messages[j].role = "tool" /\ messages[j].answers = call.id
         /\ Mine(call, messages, i) # {} =>
              /\ Max(Mine(call, messages, i)) \in Mine(call, messages, i)
              /\ \A j \in Mine(call, messages, i) : j <= Max(Mine(call, messages, i))
<1>1. DOMAIN messages = 1 .. Len(messages) /\ Len(messages) \in Nat /\ i \in Nat
  BY SequenceFacts DEF GoodMessages
<1>2. ASSUME NEW j \in Mine(call, messages, i)
      PROVE  /\ j \in 1 .. Len(messages) /\ i < j
             /\ messages[j].role = "tool" /\ messages[j].answers = call.id
  <2>1. /\ j \in i + 1 .. Len(messages) /\ messages[j].answers = call.id
        /\ \A k \in i + 1 .. j : messages[k].role = "tool"
    BY <1>2 DEF Mine, candidates
  <2>2. j \in i + 1 .. j
    BY <1>1, <2>1
  <2> QED
    BY <1>1, <2>1, <2>2
<1>3. Mine(call, messages, i) \in SUBSET (1 .. Len(messages))
  BY <1>2
<1> QED
  BY <1>1, <1>2, <1>3, LargestIn

\* The answer that a call is paired with is for the call.
LEMMA Paired ==
  ASSUME NEW messages, GoodMessages(messages), NEW i \in DOMAIN messages, NEW call,
         NEW t, t = pairedToolMessage(call, messages, i)
  PROVE  /\ GoodMessage(t) /\ t.role = "tool" /\ t.answers = call.id /\ t.calls = <<>>
         /\ \/ Mine(call, messages, i) = {} /\ t = ToolMessage(call.id, NoResult, <<>>)
            \/ /\ Mine(call, messages, i) # {} /\ t = messages[Max(Mine(call, messages, i))]
               /\ Max(Mine(call, messages, i)) \in Mine(call, messages, i)
<1>1. t = IF Mine(call, messages, i) = {} THEN ToolMessage(call.id, NoResult, <<>>)
          ELSE messages[Max(Mine(call, messages, i))]
  BY DEF pairedToolMessage, Mine
<1>2. CASE Mine(call, messages, i) = {}
  <2>1. t = ToolMessage(call.id, NoResult, <<>>)
    BY <1>1, <1>2
  <2>2. GoodMessage(t)
    BY <2>1, ToolMessageGood, EmptyAny
  <2> QED
    BY <1>2, <2>1, <2>2, ToolMessageFields
<1>3. CASE Mine(call, messages, i) # {}
  <2> DEFINE last == Max(Mine(call, messages, i))
  <2>1. last \in Mine(call, messages, i) /\ t = messages[last]
    BY <1>1, <1>3, MineIn
  <2>2. last \in DOMAIN messages /\ messages[last].role = "tool" /\ messages[last].answers = call.id
    BY <2>1, MineIn
  <2>3. GoodMessage(t) /\ t.role = "tool" /\ t.answers = call.id
    BY <2>1, <2>2 DEF GoodMessages
  <2>4. t.calls = <<>>
    BY <2>3 DEF GoodMessage
  <2> QED
    BY <1>3, <2>1, <2>3, <2>4
<1> QED
  BY <1>2, <1>3

\* Call k of message i with its answer.
LEMMA PairsOf ==
  ASSUME NEW messages, GoodMessages(messages), NEW i \in DOMAIN messages
  PROVE  /\ IsSequence(pairs(messages, i)) /\ DOMAIN pairs(messages, i) = DOMAIN messages[i].calls
         /\ Len(pairs(messages, i)) = Len(messages[i].calls)
         /\ \A k \in DOMAIN messages[i].calls :
              LET pair == pairs(messages, i)[k] IN
              /\ Len(pair) = 2 /\ GoodMessages(pair) /\ DOMAIN pair = {1, 2}
              /\ pair[1].calls = <<messages[i].calls[k]>> /\ pair[1].role = "assistant"
              /\ pair[1].reasoning = (IF k = 1 THEN messages[i].reasoning ELSE NoReasoning)
              /\ pair[1].blocks = <<>> /\ pair[1].answers = 0 /\ pair[1].body = messages[i].body
              /\ pair[2] = pairedToolMessage(messages[i].calls[k], messages, i)
<1>1. GoodMessage(messages[i]) /\ IsSequence(messages[i].calls)
  BY DEF GoodMessages, GoodMessage
<1> DEFINE ps == pairs(messages, i)
           first(k) == [messages[i] EXCEPT !.calls = <<messages[i].calls[k]>>,
                                           !.reasoning = IF k = 1 THEN @ ELSE NoReasoning]
           second(k) == pairedToolMessage(messages[i].calls[k], messages, i)
<1>2. ps = [k \in DOMAIN messages[i].calls |-> <<first(k), second(k)>>]
  BY DEF pairs
<1> HIDE DEF ps, first, second
<1>3. \A k \in DOMAIN messages[i].calls : ps[k] = <<first(k), second(k)>>
  BY <1>2
<1>4. IsSequence(ps) /\ DOMAIN ps = DOMAIN messages[i].calls /\ Len(ps) = Len(messages[i].calls)
  BY <1>1, <1>2, <1>3, MappedAny, SequenceFacts
<1>5. ASSUME NEW k \in DOMAIN messages[i].calls
      PROVE  /\ Len(ps[k]) = 2 /\ GoodMessages(ps[k]) /\ DOMAIN ps[k] = {1, 2}
             /\ ps[k][1].calls = <<messages[i].calls[k]>> /\ ps[k][1].role = "assistant"
             /\ ps[k][1].reasoning = (IF k = 1 THEN messages[i].reasoning ELSE NoReasoning)
             /\ ps[k][1].blocks = <<>> /\ ps[k][1].answers = 0 /\ ps[k][1].body = messages[i].body
             /\ ps[k][2] = second(k)
  <2>1. messages[i].calls # <<>>
    BY EmptyDomain
  <2>2. messages[i].role = "assistant" /\ messages[i].blocks = <<>> /\ messages[i].answers = 0
    BY <1>1, <2>1 DEF GoodMessage
  <2>3. /\ IsMessage(first(k)) /\ first(k).role = "assistant" /\ first(k).blocks = <<>>
        /\ first(k).reasoning = (IF k = 1 THEN messages[i].reasoning ELSE NoReasoning)
        /\ first(k).calls = <<messages[i].calls[k]>> /\ first(k).answers = 0
        /\ first(k).body = messages[i].body
    <3>1. first(k) = [messages[i] EXCEPT !.calls = <<messages[i].calls[k]>>,
                                         !.reasoning = IF k = 1 THEN @ ELSE NoReasoning]
      BY DEF first
    <3> DEFINE f == first(k)
               c == <<messages[i].calls[k]>>
               m == messages[i]
               reason == IF k = 1 THEN m.reasoning ELSE NoReasoning
    <3>2. f = [m EXCEPT !.calls = c, !.reasoning = reason]
      BY <3>1
    <3>3. IsMessage(m)
      BY <1>1 DEF GoodMessage
    <3> DEFINE t == [m EXCEPT !.calls = c]
    <3> HIDE DEF f, c, m, reason
    <3>5. t = [role |-> m.role, body |-> m.body, blocks |-> m.blocks,
               reasoning |-> m.reasoning, calls |-> c, answers |-> m.answers]
      BY <3>3 DEF IsMessage
    <3>6. f = [t EXCEPT !.reasoning = reason]
      BY <3>2
    <3> HIDE DEF t
    <3>7. f = [role |-> m.role, body |-> m.body, blocks |-> m.blocks,
               reasoning |-> reason, calls |-> c, answers |-> m.answers]
      BY <3>5, <3>6
    <3>4. /\ IsMessage(f) /\ f.role = m.role /\ f.body = m.body
          /\ f.blocks = m.blocks /\ f.reasoning = reason
          /\ f.calls = c /\ f.answers = m.answers
      BY ONLY <3>7 DEF IsMessage
    <3> QED
      BY <2>2, <3>4 DEF f, c, m, reason
  <2>4. GoodMessage(first(k))
    BY <2>3, OneAny, EmptyAny DEF GoodMessage
  <2>5. GoodMessage(second(k))
    BY Paired DEF second
  <2>6. /\ IsSequence(ps[k]) /\ Len(ps[k]) = 2 /\ DOMAIN ps[k] = {1, 2}
        /\ ps[k][1] = first(k) /\ ps[k][2] = second(k)
    BY <1>3, TwoAny
  <2>7. GoodMessages(ps[k])
    <3> HIDE DEF GoodMessage
    <3> QED
      BY <2>4, <2>5, <2>6 DEF GoodMessages
  <2> QED
    BY <2>3, <2>6, <2>7
<1> QED
  BY <1>4, <1>5 DEF ps, second

LEMMA RepairPieces ==
  ASSUME NEW messages, GoodMessages(messages), NEW ss,
         ss = [i \in DOMAIN messages |-> repairedMessage(messages, i)]
  PROVE  /\ IsSequence(ss) /\ DOMAIN ss = DOMAIN messages /\ Len(ss) = Len(messages)
         /\ \A i \in DOMAIN ss :
              /\ ss[i] = repairedMessage(messages, i) /\ GoodMessages(ss[i])
              /\ messages[i].calls # <<>> => ss[i] = FlattenSeq(pairs(messages, i))
              /\ messages[i].calls = <<>> /\ messages[i].role = "tool" => ss[i] = <<>>
              /\ messages[i].calls = <<>> /\ messages[i].role # "tool" => ss[i] = <<messages[i]>>
<1>1. IsSequence(messages)
  BY DEF GoodMessages
<1>2. IsSequence(ss) /\ DOMAIN ss = DOMAIN messages /\ Len(ss) = Len(messages)
  BY <1>1, MappedAny, SequenceFacts
<1>3. ASSUME NEW i \in DOMAIN messages PROVE GoodMessages(repairedMessage(messages, i))
  <2>1. CASE messages[i].calls # <<>>
    <3>1. /\ IsSequence(pairs(messages, i))
          /\ \A k \in DOMAIN pairs(messages, i) : GoodMessages(pairs(messages, i)[k])
      BY PairsOf
    <3>2. GoodMessages(FlattenSeq(pairs(messages, i)))
      BY <3>1, FlattenGood
    <3> QED
      BY <2>1, <3>2 DEF repairedMessage
  <2>2. CASE messages[i].calls = <<>> /\ messages[i].role = "tool"
    BY <2>2, NoneGood DEF repairedMessage
  <2>3. CASE messages[i].calls = <<>> /\ messages[i].role # "tool"
    <3>1. repairedMessage(messages, i) = <<messages[i]>>
      BY <2>3 DEF repairedMessage
    <3> QED
      BY <3>1, OneGood DEF GoodMessages
  <2> QED
    BY <2>1, <2>2, <2>3
<1>4. ASSUME NEW i \in DOMAIN messages
      PROVE  /\ messages[i].calls # <<>> => repairedMessage(messages, i) = FlattenSeq(pairs(messages, i))
             /\ messages[i].calls = <<>> /\ messages[i].role = "tool" =>
                  repairedMessage(messages, i) = <<>>
             /\ messages[i].calls = <<>> /\ messages[i].role # "tool" =>
                  repairedMessage(messages, i) = <<messages[i]>>
  BY DEF repairedMessage
<1> QED
  BY <1>2, <1>3, <1>4

LEMMA PrepareGood ==
  ASSUME NEW messages, GoodMessages(messages), NEW settings
  PROVE  GoodMessages(PrepareChatRequest(messages, settings))
<1> DEFINE ss == [i \in DOMAIN messages |-> repairedMessage(messages, i)]
<1>1. GoodMessages(FlattenSeq(ss))
  BY RepairPieces, FlattenGood
<1> QED
  BY <1>1 DEF PrepareChatRequest, repairToolPairing

LEMMA ToChatMessagesGood ==
  ASSUME NEW items, GoodItems(items), NEW settings, NEW registry, NEW calls
  PROVE  GoodMessages(ToChatMessages(items, settings, registry, calls))
<1> DEFINE read == Readings(items, settings, registry, calls)
<1>1. Len(items) \in 0 .. Len(items)
  BY SequenceFacts DEF GoodItems
<1>2. GoodReading(read[Len(items)])
  BY <1>1, ReadingsGood
<1>3. GoodMessages(flush(read[Len(items)]).messages)
  BY <1>2, FlushGood DEF GoodReading
<1> QED
  BY <1>3, KeepGood DEF ToChatMessages

-----------------------------------------------------------------------------
(* Types.                                                                  *)

\* A call that Codex has received, or a note, and what Codex has made of it.
GoodRun(r) ==
  /\ r = [item |-> r.item, output |-> r.output]
  /\ GoodItem(r.item) /\ (IsCall(r.item) \/ r.item.type = "message")
  /\ IsPatch(r.item) => IsSequence(r.item.args)
  /\ r.output # NoOutput => r.output.type = "output" /\ GoodItem(r.output)

GoodState ==
  /\ profile \in ProfileNames /\ request.profile \in ProfileNames
  /\ DOMAIN disk = DOMAIN FirstDisk
  /\ phase \in {"idle", "ready", "waiting", "calling"}
  /\ phase # "calling" => batch = <<>> /\ running = <<>>
  /\ GoodItems(history)

GoodAnswer ==
  /\ IsSequence(batch) /\ IsSequence(running)
  /\ \A i \in DOMAIN running : GoodRun(running[i])
  /\ \A i \in DOMAIN batch :
       batch[i].call.up \in EditorNames \/ IsSequence(batch[i].call.args)
  /\ IsFiniteSet(made) /\ Cardinality(made) + Len(batch) <= MaxCalls

GoodRequest ==
  /\ GoodMessages(request.messages)
  /\ \A i \in DOMAIN request.offered : PatchNamed(request.offered[i])

Good == GoodState /\ GoodAnswer /\ GoodRequest

LEMMA NoneSequence == IsSequence(<<>>) /\ DOMAIN <<>> = {} /\ Len(<<>>) = 0
BY EmptyAny, EmptyDomain

LEMMA CallIsNoMessage ==
  \A item : item.type \in {"message", "output", "reasoning", "additional_tools"} => ~IsCall(item)
BY CallTypesAre DEF IsCall

LEMMA OutputKinds ==
  ASSUME NEW id, NEW body, NEW blocks
  PROVE  /\ OutputItem(id, body, blocks).type = "output" /\ OutputItem(id, body, blocks).id = id
         /\ OutputItem(id, body, blocks) # NoOutput
         /\ OutputItem(id, body, blocks).body = body /\ OutputItem(id, body, blocks).blocks = blocks
BY DEF OutputItem, NoOutput

LEMMA PatchOutputIs ==
  ASSUME NEW ok, NEW id, NEW output, output = [PatchOutput(ok) EXCEPT !.id = id]
  PROVE  \E body : body \cap NoResult = {} /\ output = OutputItem(id, body, <<>>)
<1> DEFINE body == IF ok THEN {"success. updated the following files"}
                   ELSE {"verification failed", "failed to find expected lines"}
<1>1. output = OutputItem(id, body, <<>>)
  BY DEF PatchOutput, OutputItem
<1>2. body \cap NoResult = {}
  BY DEF NoResult
<1> QED
  BY <1>1, <1>2

\* What codex makes of a call: its output.
LEMMA RunOutput ==
  ASSUME NEW i, NEW output \in Outputs, Run(i, output), Good
  PROVE  /\ i \in DOMAIN running /\ IsCall(running[i].item) /\ running[i].output = NoOutput
         /\ \E body, blocks :
              /\ body \cap NoResult = {} /\ IsSequence(blocks)
              /\ (blocks = <<>> \/ \E o \in Outputs : blocks = o.blocks)
              /\ running' = [running EXCEPT ![i] =
                               [item |-> running[i].item,
                                output |-> OutputItem(running[i].item.id, body, blocks)]]
<1>1. i \in DOMAIN running /\ IsCall(running[i].item) /\ running[i].output = NoOutput
  BY DEF Run
<1>2. running[i] = [item |-> running[i].item, output |-> running[i].output]
  BY <1>1 DEF Good, GoodAnswer, GoodRun
<1> DEFINE item == running[i].item
           given == IF IsPatch(item)
                    THEN [PatchOutput(Apply(disk, item.args).ok) EXCEPT !.id = item.id]
                    ELSE OutputItem(item.id, output.body, output.blocks)
<1>3. running' = [running EXCEPT ![i].output = given]
  BY DEF Run
<1>4. \E body, blocks :
        /\ body \cap NoResult = {} /\ IsSequence(blocks)
        /\ (blocks = <<>> \/ \E o \in Outputs : blocks = o.blocks)
        /\ given = OutputItem(item.id, body, blocks)
  <2>1. CASE IsPatch(item)
    <3> DEFINE ok == Apply(disk, item.args).ok
               patched == [PatchOutput(ok) EXCEPT !.id = item.id]
               itsId == item.id
    <3>1. patched = [PatchOutput(ok) EXCEPT !.id = itsId] /\ given = patched
      BY <2>1
    <3> HIDE DEF ok, given, patched, itsId
    <3>2. \E body : body \cap NoResult = {} /\ patched = OutputItem(itsId, body, <<>>)
      BY <3>1, PatchOutputIs
    <3>3. PICK body : body \cap NoResult = {} /\ patched = OutputItem(itsId, body, <<>>)
      BY <3>2
    <3>4. given = OutputItem(item.id, body, <<>>)
      BY <3>1, <3>3 DEF itsId
    <3> QED
      BY <3>3, <3>4, EmptyAny
  <2>2. CASE ~IsPatch(item)
    <3>1. output.body \cap NoResult = {} /\ output.blocks \in Seq(ToSet(output.blocks))
      BY ConversationConstants
    <3>2. IsSequence(output.blocks)
      BY <3>1, SequenceOf
    <3> QED
      BY <2>2, <3>1, <3>2
  <2> QED
    BY <2>1, <2>2
<1> HIDE DEF given
<1>5. running' = [running EXCEPT ![i] = [item |-> running[i].item, output |-> given]]
  <2> DEFINE r == running[i]
  <2>1. running' = [running EXCEPT ![i] = [r EXCEPT !.output = given]]
    BY <1>3
  <2> HIDE DEF r
  <2>2. [r EXCEPT !.output = given] = [item |-> r.item, output |-> given]
    BY <1>2 DEF r
  <2> QED
    BY <2>1, <2>2 DEF r
<1> HIDE DEF item
<1>6. PICK body, blocks :
        /\ body \cap NoResult = {} /\ IsSequence(blocks)
        /\ (blocks = <<>> \/ \E o \in Outputs : blocks = o.blocks)
        /\ given = OutputItem(item.id, body, blocks)
  BY <1>4
<1>7. running' = [running EXCEPT ![i] = [item |-> running[i].item,
                                        output |-> OutputItem(item.id, body, blocks)]]
  BY <1>5, <1>6
<1> QED
  BY <1>1, <1>6, <1>7 DEF item

\* The outputs that are recorded of a call.
OutputsRecorded(r) ==
  CASE r.output = NoOutput -> <<>>
    [] r.output # NoOutput /\ r.item.type = "tool_search_call" -> <<FoundItem(Deferred), r.output>>
    [] OTHER -> <<r.output>>

LEMMA RecordedParts ==
  ASSUME GoodItems(history), IsSequence(running), \A i \in DOMAIN running : GoodRun(running[i]),
         NEW items, items = [i \in DOMAIN running |-> running[i].item],
         NEW outs, outs = [i \in DOMAIN running |-> OutputsRecorded(running[i])]
  PROVE  /\ Recorded = (history \o items) \o FlattenSeq(outs)
         /\ IsSequence(items) /\ Len(items) = Len(running) /\ DOMAIN items = DOMAIN running
         /\ IsSequence(outs) /\ Len(outs) = Len(running) /\ DOMAIN outs = DOMAIN running
         /\ \A i \in DOMAIN running : IsSequence(outs[i]) /\ \A j \in DOMAIN outs[i] : GoodItem(outs[i][j])
<1>1. Recorded = (history \o items) \o FlattenSeq(outs)
  BY DEF Recorded, OutputsRecorded
<1>2. IsSequence(items) /\ Len(items) = Len(running) /\ DOMAIN items = DOMAIN running
  BY MappedAny, SequenceFacts
<1>3. IsSequence(outs) /\ Len(outs) = Len(running) /\ DOMAIN outs = DOMAIN running
  BY MappedAny, SequenceFacts
<1>4. ASSUME NEW i \in DOMAIN running
      PROVE  IsSequence(outs[i]) /\ \A j \in DOMAIN outs[i] : GoodItem(outs[i][j])
  <2>1. GoodRun(running[i]) /\ outs[i] = OutputsRecorded(running[i])
    OBVIOUS
  <2>2. GoodItem(FoundItem(Deferred))
    BY DEF GoodItem, FoundItem
  <2> DEFINE r == running[i]
  <2> HIDE DEF r
  <2>3. r.output # NoOutput => GoodItem(r.output)
    BY <2>1 DEF GoodRun, r
  <2> HIDE DEF GoodItem
  <2>4. CASE r.output = NoOutput
    <3>1. outs[i] = <<>>
      BY <2>1, <2>4 DEF OutputsRecorded, r
    <3> QED
      BY <3>1, NoneSequence
  <2>5. CASE r.output # NoOutput /\ r.item.type = "tool_search_call"
    <3>1. outs[i] = <<FoundItem(Deferred), r.output>>
      BY <2>1, <2>5 DEF OutputsRecorded, r
    <3> QED
      BY <2>2, <2>3, <2>5, <3>1, TwoAny
  <2>6. CASE r.output # NoOutput /\ r.item.type # "tool_search_call"
    <3>1. outs[i] = <<r.output>>
      BY <2>1, <2>6 DEF OutputsRecorded, r
    <3> QED
      BY <2>3, <2>6, <3>1, OneAny, OneDomain
  <2> QED
    BY <2>4, <2>5, <2>6
<1> QED
  BY <1>1, <1>2, <1>3, <1>4

LEMMA GoodConcat ==
  ASSUME NEW a, NEW b, GoodItems(a), GoodItems(b)
  PROVE  GoodItems(a \o b)
<1>1. /\ IsSequence(a \o b) /\ Len(a \o b) = Len(a) + Len(b)
      /\ \A i \in 1 .. Len(a) : (a \o b)[i] = a[i]
      /\ \A i \in 1 .. Len(b) : (a \o b)[Len(a) + i] = b[i]
  BY ConcatAny DEF GoodItems
<1>2. /\ Len(a) \in Nat /\ DOMAIN a = 1 .. Len(a) /\ Len(b) \in Nat /\ DOMAIN b = 1 .. Len(b)
      /\ DOMAIN (a \o b) = 1 .. Len(a) + Len(b)
  BY <1>1, SequenceFacts DEF GoodItems
<1>3. ASSUME NEW i \in 1 .. Len(a) + Len(b) PROVE GoodItem((a \o b)[i])
  <2>1. CASE i \in 1 .. Len(a)
    BY <1>1, <1>2, <2>1 DEF GoodItems
  <2>2. CASE i \notin 1 .. Len(a)
    <3>1. i - Len(a) \in 1 .. Len(b) /\ Len(a) + (i - Len(a)) = i
      BY <1>2, <2>2
    <3>2. (a \o b)[i] = b[i - Len(a)]
      BY <1>1, <3>1
    <3> HIDE DEF GoodItem
    <3> QED
      BY <1>2, <3>1, <3>2 DEF GoodItems
  <2> QED
    BY <2>1, <2>2
<1> QED
  BY <1>1, <1>2, <1>3 DEF GoodItems

LEMMA RecordedGood ==
  ASSUME GoodItems(history), IsSequence(running), \A i \in DOMAIN running : GoodRun(running[i])
  PROVE  GoodItems(Recorded)
<1> DEFINE items == [i \in DOMAIN running |-> running[i].item]
           outs == [i \in DOMAIN running |-> OutputsRecorded(running[i])]
<1>1. /\ Recorded = (history \o items) \o FlattenSeq(outs)
      /\ IsSequence(items) /\ DOMAIN items = DOMAIN running
      /\ IsSequence(outs) /\ DOMAIN outs = DOMAIN running
      /\ \A i \in DOMAIN running : IsSequence(outs[i]) /\ \A j \in DOMAIN outs[i] : GoodItem(outs[i][j])
  BY RecordedParts
<1>2. GoodItems(items)
  <2>1. \A i \in DOMAIN running : items[i] = running[i].item
    OBVIOUS
  <2> HIDE DEF items, GoodItem
  <2> QED
    BY <1>1, <2>1 DEF GoodItems, GoodRun
<1> HIDE DEF items, outs
<1>3. GoodItems(FlattenSeq(outs))
  <2> HIDE DEF GoodItem
  <2>1. IsSequence(FlattenSeq(outs))
    BY <1>1, FlattenAny
  <2>2. ASSUME NEW k \in DOMAIN FlattenSeq(outs) PROVE GoodItem(FlattenSeq(outs)[k])
    <3>1. PICK i \in DOMAIN outs : \E j \in DOMAIN outs[i] : FlattenSeq(outs)[k] = outs[i][j]
      BY <1>1, FlattenElements
    <3> QED
      BY <1>1, <3>1
  <2> QED
    BY <2>1, <2>2 DEF GoodItems
<1> QED
  BY <1>1, <1>2, <1>3, GoodConcat

LEMMA GoodInit == Init => Good
<1> SUFFICES ASSUME Init PROVE Good
  OBVIOUS
<1>1. GoodItems(<<>>) /\ GoodMessages(<<>>)
  BY NoneSequence, NoneGood DEF GoodItems
<1>2. request.messages = <<>> /\ request.offered = <<>> /\ request.profile = profile
  BY DEF Init
<1>3. GoodState
  BY <1>1, <1>2 DEF Init, GoodState
<1>4. GoodAnswer
  <2>1. IsFiniteSet(made) /\ Cardinality(made) = 0
    BY FS_EmptySet DEF Init
  <2>2. MaxCalls >= 0
    BY ConversationConstants
  <2> QED
    BY <2>1, <2>2, NoneSequence DEF Init, GoodAnswer
<1>5. GoodRequest
  BY <1>1, <1>2, NoneSequence DEF GoodRequest
<1> QED
  BY <1>3, <1>4, <1>5 DEF Good

LEMMA GoodAsk ==
  ASSUME Good, NEW moved \in BOOLEAN, NEW mode, Ask(moved, mode)
  PROVE  Good'
<1> DEFINE env == IF moved THEN asks.count + 1 ELSE asks.env
           modes == IF mode = asks.mode THEN <<>>
                    ELSE <<MessageItem("developer", {"collaboration mode: " \o mode}, <<>>)>>
           envs == IF moved THEN <<MessageItem("user", {}, <<env>>)>> ELSE <<>>
           asked == <<MessageItem("user", {"ask"}, <<>>)>>
<1>1. history' = ((history \o modes) \o envs) \o asked
  BY DEF Ask
<1>2. \A item : GoodItem(item) => GoodItems(<<item>>)
  BY OneAny, OneDomain DEF GoodItems
<1>3. \A role \in {"developer", "user"} : \A body, blocks :
        IsSequence(blocks) => GoodItem(MessageItem(role, body, blocks))
  BY DEF GoodItem, MessageItem
<1>4. GoodItems(<<>>)
  BY NoneSequence DEF GoodItems
<1> HIDE DEF env
<1>5. GoodItems(modes) /\ GoodItems(envs) /\ GoodItems(asked)
  BY <1>2, <1>3, <1>4, NoneSequence, OneAny
<1> HIDE DEF modes, envs, asked
<1>6. GoodItems(history')
  BY <1>1, <1>5, GoodConcat DEF Good, GoodState
<1>7. phase' = "ready" /\ batch = <<>> /\ running = <<>>
      /\ UNCHANGED <<profile, disk, request, batch, running, remembered, made>>
  BY DEF Ask, Good, GoodState
<1>8. GoodState'
  BY <1>6, <1>7 DEF Good, GoodState
<1>9. GoodAnswer' /\ GoodRequest'
  BY <1>7 DEF Good, GoodAnswer, GoodRequest
<1> QED
  BY <1>8, <1>9 DEF Good

LEMMA HistoryFinds ==
  ASSUME Good
  PROVE  FoundTools(history)
BY DEF Good, GoodState, GoodItems, GoodItem, FoundTools

LEMMA GoodSend ==
  ASSUME Good, Send
  PROVE  Good'
<1> DEFINE registry == RequestTools(Tools, Found(history), Settings.editor)
           messages == ToChatMessages(history, Settings, registry, remembered)
           mode == collaborationMode(messages)
<1>1. request' = [profile  |-> profile, messages |-> PrepareChatRequest(messages, Settings),
                  offered  |-> filterUnavailableRuntimeTools(registry, mode)]
  BY DEF Send, OfferedTools
<1>2. IsSequence(registry) /\ \A i \in DOMAIN registry : PatchNamed(registry[i])
  BY HistoryFinds, RequestToolsNamed
<1> HIDE DEF registry
<1>3. GoodMessages(messages)
  BY ToChatMessagesGood DEF Good, GoodState
<1> HIDE DEF messages, mode
<1>4. GoodMessages(PrepareChatRequest(messages, Settings))
  BY <1>3, PrepareGood
<1> DEFINE offered == filterUnavailableRuntimeTools(registry, mode)
<1>5. \A i \in DOMAIN offered : PatchNamed(offered[i])
  <2> HIDE DEF offered
  <2>1. \A i \in DOMAIN offered : \E j \in DOMAIN registry : offered[i] = registry[j]
    BY <1>2, OfferedFrom DEF offered
  <2> QED
    BY <1>2, <2>1
<1>6. GoodRequest' /\ request'.profile = profile
  BY <1>1, <1>4, <1>5 DEF GoodRequest
<1>7. phase' = "waiting" /\ batch = <<>> /\ running = <<>>
      /\ UNCHANGED <<profile, disk, history, batch, running, made>>
  BY DEF Send, Good, GoodState
<1>8. GoodState'
  BY <1>6, <1>7 DEF Good, GoodState
<1>9. GoodAnswer'
  BY <1>7 DEF Good, GoodAnswer
<1> QED
  BY <1>6, <1>8, <1>9 DEF Good

LEMMA BatchCalls ==
  ASSUME NEW calls \in Batches
  PROVE  /\ IsSequence(calls) /\ Len(calls) \in Nat /\ DOMAIN calls = 1 .. Len(calls)
         /\ \A i \in DOMAIN calls : calls[i] \in ModelCalls
<1>1. PICK n \in 0 .. MaxBatch : calls \in [1..n -> ModelCalls]
  BY DEF Batches
<1>2. n \in Nat /\ calls = [i \in 1..n |-> calls[i]]
  BY <1>1
<1>3. IsSequence(calls)
  BY <1>2, SequenceFromFunction
<1> QED
  BY <1>1, <1>3, SequenceFacts

LEMMA GoodReply ==
  ASSUME Good, NEW calls \in Batches, NEW reasoned \in BOOLEAN, Reply(calls, reasoned)
  PROVE  Good'
<1> DEFINE said == IF reasoned THEN <<ReasoningItem(Thought), MessageItem("assistant", {"text"}, <<>>)>>
                   ELSE IF calls = <<>> THEN <<MessageItem("assistant", {"text"}, <<>>)>> ELSE <<>>
           made1(i) == [call    |-> [id |-> Cardinality(made) + i, up |-> calls[i].up, args |-> calls[i].args],
                        thought |-> IF reasoned THEN Thought ELSE NoReasoning]
<1>1. history' = history \o said /\ batch' = [i \in DOMAIN calls |-> made1(i)]
  BY DEF Reply
<1>2. GoodItems(said)
  <2>1. GoodItem(ReasoningItem(Thought)) /\ GoodItem(MessageItem("assistant", {"text"}, <<>>))
    BY NoneSequence DEF GoodItem, ReasoningItem, MessageItem
  <2> HIDE DEF GoodItem
  <2> QED
    BY <2>1, NoneSequence, OneAny, OneDomain, TwoAny DEF GoodItems
<1> HIDE DEF said
<1>3. GoodItems(history')
  BY <1>1, <1>2, GoodConcat DEF Good, GoodState
<1>4. /\ phase = "waiting" /\ running = <<>> /\ UNCHANGED <<profile, disk, request, running, made>>
      /\ phase' = IF calls = <<>> THEN "idle" ELSE "calling"
      /\ Cardinality(made) + Len(calls) <= MaxCalls
  BY DEF Reply, Good, GoodState
<1>5. IsSequence(batch') /\ Len(batch') = Len(calls) /\ DOMAIN batch' = DOMAIN calls
  BY <1>1, BatchCalls, MappedAny
<1>6. \A i \in DOMAIN batch' : 
        batch'[i].call.up \in EditorNames \/ IsSequence(batch'[i].call.args)
  <2> TAKE i \in DOMAIN batch'
  <2>1. batch'[i].call.up = calls[i].up /\ batch'[i].call.args = calls[i].args /\ calls[i] \in ModelCalls
    BY <1>1, <1>5, BatchCalls
  <2>2. calls[i].up \in EditorNames \/ IsSequence(calls[i].args)
    BY <2>1, SequenceOf, ConversationConstants DEF EditorNames
  <2> QED
    BY <2>1, <2>2
<1>7. calls = <<>> => batch' = <<>>
  <2>1. calls = <<>> => batch' = [i \in {} |-> made1(i)]
    BY <1>1, NoneSequence
  <2>2. <<>> = [i \in {} |-> made1(i)]
    OBVIOUS
  <2> QED
    BY <2>1, <2>2
<1> HIDE DEF made1
<1>8. GoodState'
  BY <1>3, <1>4, <1>7 DEF Good, GoodState
<1>9. GoodAnswer'
  BY <1>4, <1>5, <1>6 DEF Good, GoodAnswer
<1>10. GoodRequest'
  BY <1>4 DEF Good, GoodRequest
<1> QED
  BY <1>8, <1>9, <1>10 DEF Good

LEMMA GoodRunAppend ==
  ASSUME NEW runs, IsSequence(runs), \A i \in DOMAIN runs : GoodRun(runs[i]), NEW r, GoodRun(r)
  PROVE  IsSequence(Append(runs, r)) /\ \A i \in DOMAIN Append(runs, r) : GoodRun(Append(runs, r)[i])
<1>1. /\ IsSequence(Append(runs, r)) /\ Len(Append(runs, r)) = Len(runs) + 1
      /\ \A i \in 1 .. Len(runs) : Append(runs, r)[i] = runs[i]
      /\ Append(runs, r)[Len(runs) + 1] = r
  BY AppendAny
<1>2. Len(runs) \in Nat /\ DOMAIN runs = 1 .. Len(runs) /\ DOMAIN Append(runs, r) = 1 .. Len(runs) + 1
  BY <1>1, SequenceFacts
<1> HIDE DEF GoodRun
<1> QED
  BY <1>1, <1>2

LEMMA TailAny ==
  ASSUME NEW s, IsSequence(s), s # <<>>
  PROVE  /\ IsSequence(Tail(s)) /\ Len(Tail(s)) = Len(s) - 1 /\ Len(s) >= 1 /\ Len(s) \in Nat
         /\ Head(s) = s[1] /\ 1 \in DOMAIN s
         /\ \A i \in 1 .. Len(Tail(s)) : Tail(s)[i] = s[i + 1]
<1> DEFINE S == {s[i] : i \in DOMAIN s}
<1>1. s \in Seq(S)
  BY DEF IsSequence
<1> HIDE DEF S
<1>2. Tail(s) \in Seq(S) /\ Len(Tail(s)) = Len(s) - 1 /\ Len(s) >= 1 /\ Len(s) \in Nat
      /\ Head(s) = s[1] /\ DOMAIN s = 1 .. Len(s)
  BY <1>1
<1>3. \A i \in 1 .. Len(Tail(s)) : Tail(s)[i] = s[i + 1]
  BY <1>1, <1>2
<1>4. IsSequence(Tail(s))
  BY <1>2, SequenceOf
<1> QED
  BY <1>2, <1>3, <1>4

LEMMA GoodEmit ==
  ASSUME Good, Emit
  PROVE  Good'
<1> DEFINE call == Head(batch).call
           item == responseItemFromToolCall(call, request.offered, disk)
           record == [call |-> call, thought |-> Head(batch).thought, item |-> item, disk |-> disk,
                      known |-> Has(request.offered, call.up)]
<1>1. /\ running' = Append(running, [item |-> item, output |-> NoOutput])
      /\ made' = made \cup {record} /\ batch' = Tail(batch) /\ batch # <<>> /\ phase = "calling"
      /\ UNCHANGED <<profile, disk, history, phase, request>>
  BY DEF Emit
<1>2. call.up \in EditorNames \/ IsSequence(call.args)
  BY <1>1, TailAny DEF Good, GoodAnswer
<1>3. GoodRun([item |-> item, output |-> NoOutput])
  <2>1. \/ IsCall(item) \/ \E code : item = MessageItem("assistant", {code}, <<>>)
    BY ItemFromCall
  <2>2. IsPatch(item) => IsSequence(item.args)
    BY <1>2, PatchItemAny DEF Good, GoodRequest
  <2> HIDE DEF item
  <2>3. CASE IsCall(item)
    <3>1. GoodItem(item)
      BY <2>3, CallTypesAre DEF GoodItem, IsCall
    <3> QED
      BY <2>2, <2>3, <3>1 DEF GoodRun
  <2>4. CASE \E code : item = MessageItem("assistant", {code}, <<>>)
    <3>1. item.type = "message" /\ GoodItem(item)
      BY <2>4, NoneSequence DEF MessageItem, GoodItem
    <3> QED
      BY <2>2, <3>1 DEF GoodRun
  <2> QED
    BY <2>1, <2>3, <2>4
<1> HIDE DEF call, item, record
<1>4. IsSequence(running') /\ \A i \in DOMAIN running' : GoodRun(running'[i])
  BY <1>1, <1>3, GoodRunAppend DEF Good, GoodAnswer
<1>5. /\ IsSequence(batch') /\ Len(batch') = Len(batch) - 1 /\ Len(batch) \in Nat
      /\ \A i \in DOMAIN batch' : batch'[i].call.up \in EditorNames \/ IsSequence(batch'[i].call.args)
  <2>1. /\ IsSequence(Tail(batch)) /\ Len(Tail(batch)) = Len(batch) - 1 /\ Len(batch) \in Nat
        /\ \A i \in 1 .. Len(Tail(batch)) : Tail(batch)[i] = batch[i + 1]
    BY <1>1, TailAny DEF Good, GoodAnswer
  <2>2. DOMAIN batch = 1 .. Len(batch) /\ DOMAIN Tail(batch) = 1 .. Len(batch) - 1
    BY <2>1, SequenceFacts DEF Good, GoodAnswer
  <2>3. \A i \in DOMAIN Tail(batch) : i + 1 \in DOMAIN batch /\ Tail(batch)[i] = batch[i + 1]
    BY <2>1, <2>2
  <2> QED
    BY <1>1, <2>1, <2>3 DEF Good, GoodAnswer
<1>6. IsFiniteSet(made') /\ Cardinality(made') + Len(batch') <= MaxCalls
  <2>1. IsFiniteSet(made) /\ Cardinality(made) \in Nat /\ Cardinality(made) + Len(batch) <= MaxCalls
    BY FS_CardinalityType DEF Good, GoodAnswer
  <2>2. IsFiniteSet(made') /\ Cardinality(made') \in {Cardinality(made), Cardinality(made) + 1}
    BY <1>1, <2>1, FS_AddElement
  <2> QED
    BY <1>5, <2>1, <2>2, ConversationConstants
<1>7. GoodAnswer'
  BY <1>4, <1>5, <1>6 DEF GoodAnswer
<1>8. GoodState' /\ GoodRequest'
  BY <1>1 DEF Good, GoodState, GoodRequest
<1> QED
  BY <1>7, <1>8 DEF Good

LEMMA GoodRunCall ==
  ASSUME Good, NEW i, NEW output \in Outputs, Run(i, output)
  PROVE  Good'
<1>1. i \in DOMAIN running /\ IsCall(running[i].item) /\ running[i].output = NoOutput
  BY RunOutput
<1>2. PICK body, blocks :
        /\ body \cap NoResult = {} /\ IsSequence(blocks)
        /\ running' = [running EXCEPT ![i] =
                         [item |-> running[i].item,
                          output |-> OutputItem(running[i].item.id, body, blocks)]]
  BY RunOutput
<1> DEFINE r == [item |-> running[i].item, output |-> OutputItem(running[i].item.id, body, blocks)]
<1>3. GoodRun(r)
  <2>1. GoodItem(OutputItem(running[i].item.id, body, blocks))
        /\ OutputItem(running[i].item.id, body, blocks).type = "output"
    BY <1>2 DEF GoodItem, OutputItem
  <2>2. GoodRun(running[i])
    BY <1>1 DEF Good, GoodAnswer
  <2> HIDE DEF GoodItem
  <2> QED
    BY <2>1, <2>2 DEF GoodRun
<1>9. running' = [running EXCEPT ![i] = r]
  BY <1>2
<1> HIDE DEF r
<1>4. IsSequence(running') /\ \A k \in DOMAIN running' : GoodRun(running'[k])
  <2>1. DOMAIN running' = DOMAIN running /\ DOMAIN running = 1 .. Len(running) /\ Len(running) \in Nat
    BY <1>9, SequenceFacts DEF Good, GoodAnswer
  <2>2. running' = [k \in 1 .. Len(running) |-> running'[k]]
    BY <1>9, <2>1
  <2>3. \A k \in DOMAIN running : running'[k] = IF k = i THEN r ELSE running[k]
    BY <1>1, <1>9
  <2>4. IsSequence(running')
    BY <2>1, <2>2, SequenceFromFunction
  <2> HIDE DEF GoodRun
  <2> QED
    BY <1>3, <2>1, <2>3, <2>4 DEF Good, GoodAnswer
<1>5. DOMAIN disk' = DOMAIN disk
  <2>1. CASE IsPatch(running[i].item)
    <3>1. IsSequence(running[i].item.args)
      BY <1>1, <2>1 DEF Good, GoodAnswer, GoodRun
    <3>2. disk' = IF Apply(disk, running[i].item.args).ok THEN Apply(disk, running[i].item.args).disk
                  ELSE disk
      BY <2>1 DEF Run
    <3> QED
      BY <3>1, <3>2, ApplyKeepsPaths
  <2>2. CASE ~IsPatch(running[i].item)
    BY <2>2 DEF Run
  <2> QED
    BY <2>1, <2>2
<1>6. UNCHANGED <<profile, history, phase, request, batch, remembered, made, asks>>
  BY DEF Run
<1>7. phase = "calling"
  <2>1. running # <<>>
    BY <1>1, NoneSequence
  <2> QED
    BY <2>1 DEF Good, GoodState
<1>8. GoodState'
  BY <1>5, <1>6, <1>7 DEF Good, GoodState
<1>10. GoodAnswer'
  BY <1>4, <1>6 DEF Good, GoodAnswer
<1>11. GoodRequest'
  BY <1>6 DEF Good, GoodRequest
<1> QED
  BY <1>8, <1>10, <1>11 DEF Good

LEMMA GoodEnd ==
  ASSUME Good, Record \/ Interrupt
  PROVE  Good'
<1>1. /\ history' = Recorded /\ running' = <<>> /\ batch' = <<>> /\ phase' \in {"ready", "idle"}
      /\ UNCHANGED <<profile, disk, request, made>>
  BY DEF Record, Interrupt
<1>2. GoodItems(history')
  BY <1>1, RecordedGood DEF Good, GoodState, GoodAnswer
<1>3. GoodState'
  BY <1>1, <1>2 DEF Good, GoodState
<1>4. GoodAnswer'
  <2>1. Len(batch) \in Nat /\ Cardinality(made) \in Nat /\ Cardinality(made) + Len(batch) <= MaxCalls
    BY SequenceFacts, FS_CardinalityType DEF Good, GoodAnswer
  <2>2. Cardinality(made) + 0 <= MaxCalls
    BY <2>1, ConversationConstants
  <2> QED
    BY <1>1, <2>2, NoneSequence DEF Good, GoodAnswer
<1>5. GoodRequest'
  BY <1>1 DEF Good, GoodRequest
<1> QED
  BY <1>3, <1>4, <1>5 DEF Good

LEMMA GoodNext ==
  ASSUME Good, [Next]_vars
  PROVE  Good'
<1>1. CASE UNCHANGED vars
  BY <1>1 DEF vars, Good, GoodState, GoodAnswer, GoodRequest
<1>2. CASE \E moved \in BOOLEAN, mode \in Modes : Ask(moved, mode)
  BY <1>2, GoodAsk
<1>3. CASE Send
  BY <1>3, GoodSend
<1>4. CASE \E calls \in Batches, reasoned \in BOOLEAN : Reply(calls, reasoned)
  BY <1>4, GoodReply
<1>5. CASE Emit
  BY <1>5, GoodEmit
<1>6. CASE \E i \in DOMAIN running, output \in Outputs : Run(i, output)
  BY <1>6, GoodRunCall
<1>7. CASE Record \/ Interrupt
  BY <1>7, GoodEnd
<1>8. CASE Interfere
  BY <1>8, ConversationConstants DEF Interfere, Good, GoodState, GoodAnswer, GoodRequest
<1>9. CASE Switch
  BY <1>9 DEF Switch, Good, GoodState, GoodAnswer, GoodRequest
<1>10. CASE Restart
  BY <1>10 DEF Restart, Good, GoodState, GoodAnswer, GoodRequest
<1> QED
  BY <1>1, <1>2, <1>3, <1>4, <1>5, <1>6, <1>7, <1>8, <1>9, <1>10 DEF Next

LEMMA AlwaysGood == Spec => []Good
BY GoodInit, GoodNext, PTL DEF Spec

\* Every variable holds what its comment says: the roles of the messages are
\* those that chat upstreams know, and the bound on calls is kept.
THEOREM TypeCorrect == Spec => []TypeOK
<1>1. Good => TypeOK
  <2> SUFFICES ASSUME Good PROVE TypeOK
    OBVIOUS
  <2>1. \A i \in DOMAIN history : history[i].type \in
          CallTypes \cup {"message", "output", "reasoning", "additional_tools"}
    BY DEF Good, GoodState, GoodItems, GoodItem
  <2>2. \A i \in DOMAIN request.messages :
          request.messages[i].role \in {"system", "user", "assistant", "tool"}
    BY DEF Good, GoodRequest, GoodMessages, GoodMessage
  <2>3. Cardinality(made) <= MaxCalls
    <3>1. Len(batch) \in Nat /\ Cardinality(made) \in Nat /\ Cardinality(made) + Len(batch) <= MaxCalls
      BY SequenceFacts, FS_CardinalityType DEF Good, GoodAnswer
    <3> QED
      BY <3>1, ConversationConstants
  <2> QED
    BY <2>1, <2>2, <2>3 DEF Good, GoodState, TypeOK
<1> QED
  BY <1>1, AlwaysGood, PTL

-----------------------------------------------------------------------------
(* Names on offer.                                                         *)

\* Every entry on offer is the one its name has.
OfferedMeaning ==
  \A i \in DOMAIN request.offered : Means(request.offered[i], Profiles[request.profile].editor)

LEMMA EditorFlags == \A name \in ProfileNames : Profiles[name].editor \in BOOLEAN
<1>1. \A name \in DOMAIN Profiles : Profiles[name].editor \in BOOLEAN
  <2>2. DOMAIN Profiles = {"deepseek", "kimi", "mimo", "openai", "default"}
    BY DEF Profiles
  <2>4. /\ Profiles["deepseek"].editor = TRUE /\ Profiles["kimi"].editor = TRUE
        /\ Profiles["mimo"].editor = TRUE /\ Profiles["openai"].editor = FALSE
        /\ Profiles["default"].editor = TRUE
    <3>1. Profiles["deepseek"].editor = TRUE
      <4>1. Profile(TRUE, TRUE, TRUE, FALSE).editor = TRUE
        BY DEF Profile
      <4>2. Profiles["deepseek"] = Profile(TRUE, TRUE, TRUE, FALSE)
        BY DEF Profiles
      <4> QED
        BY <4>1, <4>2, Zenon
    <3>2. Profiles["kimi"].editor = TRUE
      <4>1. Profile(TRUE, TRUE, FALSE, FALSE).editor = TRUE
        BY DEF Profile
      <4>2. Profiles["kimi"] = Profile(TRUE, TRUE, FALSE, FALSE)
        BY DEF Profiles
      <4> QED
        BY <4>1, <4>2, Zenon
    <3>3. Profiles["mimo"].editor = TRUE
      <4>1. Profile(TRUE, TRUE, FALSE, TRUE).editor = TRUE
        BY DEF Profile
      <4>2. Profiles["mimo"] = Profile(TRUE, TRUE, FALSE, TRUE)
        BY DEF Profiles
      <4> QED
        BY <4>1, <4>2, Zenon
    <3>4. Profiles["openai"].editor = FALSE
      <4>1. Profile(FALSE, FALSE, FALSE, TRUE).editor = FALSE
        BY DEF Profile
      <4>2. Profiles["openai"] = Profile(FALSE, FALSE, FALSE, TRUE)
        BY DEF Profiles
      <4> QED
        BY <4>1, <4>2, Zenon
    <3>5. Profiles["default"].editor = TRUE
      <4>1. Profile(TRUE, FALSE, FALSE, FALSE).editor = TRUE
        BY DEF Profile
      <4>2. Profiles["default"] = Profile(TRUE, FALSE, FALSE, FALSE)
        BY DEF Profiles
      <4> QED
        BY <4>1, <4>2, Zenon
    <3> QED
      BY <3>1, <3>2, <3>3, <3>4, <3>5, Zenon
  <2>5. TRUE \in BOOLEAN /\ FALSE \in BOOLEAN
    OBVIOUS
  <2> QED
    BY <2>2, <2>4, <2>5, Zenon
<1> QED
  BY <1>1, ConversationConstants

LEMMA SendMeans ==
  ASSUME FoundAreNoProxies, Good, Send
  PROVE  OfferedMeaning'
<1> DEFINE registry == RequestTools(Tools, Found(history), Settings.editor)
           messages == ToChatMessages(history, Settings, registry, remembered)
           mode == collaborationMode(messages)
           offered == filterUnavailableRuntimeTools(registry, mode)
<1>1. request'.profile = profile /\ request'.offered = offered
  BY DEF Send, OfferedTools
<1>2. Settings.editor \in BOOLEAN
  BY EditorFlags DEF Good, GoodState, Settings
<1>3. IsSequence(registry) /\ \A i \in DOMAIN registry : Means(registry[i], Settings.editor)
  BY <1>2, HistoryFinds, RequestToolsMean
<1> HIDE DEF registry, messages, mode
<1>4. \A i \in DOMAIN offered : \E j \in DOMAIN registry : offered[i] = registry[j]
  BY <1>3, OfferedFrom
<1> HIDE DEF offered
<1>5. \A i \in DOMAIN offered : Means(offered[i], Settings.editor)
  BY <1>3, <1>4
<1> QED
  BY <1>1, <1>5 DEF OfferedMeaning, Settings

LEMMA MeaningNext ==
  ASSUME FoundAreNoProxies, Good, OfferedMeaning, [Next]_vars
  PROVE  OfferedMeaning'
<1>1. CASE Send
  BY <1>1, SendMeans
<1>2. CASE ~Send
  <2>1. request' = request
    BY <1>2 DEF Next, vars, Ask, Reply, Emit, Run, Record, Interrupt, Interfere, Switch, Restart
  <2> QED
    BY <2>1 DEF OfferedMeaning
<1> QED
  BY <1>1, <1>2

\* A name on offer never comes to mean another tool while the conversation goes
\* on with the profile, if no tool that a search finds has the name of a proxy.
THEOREM NamesStay ==
  ASSUME FoundAreNoProxies
  PROVE  Spec => NamesKeepMeaning
<1>1. Init => OfferedMeaning
  <2> SUFFICES ASSUME Init PROVE OfferedMeaning
    OBVIOUS
  <2>1. request.offered = <<>>
    BY DEF Init
  <2> QED
    BY <2>1, NoneSequence DEF OfferedMeaning
<1>2. Good /\ OfferedMeaning /\ [Next]_vars => OfferedMeaning'
  BY MeaningNext
<1>3. OfferedMeaning /\ OfferedMeaning' =>
        [\A i \in DOMAIN request.offered, j \in DOMAIN request'.offered :
           LET old == request.offered[i]
               new == request'.offered[j]
           IN  request.profile = request'.profile /\ old.up = new.up => old = new]_request
  BY OneMeaning DEF OfferedMeaning
<1> QED
  BY <1>1, <1>2, <1>3, AlwaysGood, PTL DEF Spec, NamesKeepMeaning

-----------------------------------------------------------------------------
(* Places in a joined sequence.                                            *)

\* Element j of piece i stands in the whole at off[i - 1] + j, in this order.
Placed(ss, whole, off) ==
  /\ \A i \in DOMAIN ss : off[i - 1] \in Nat
  /\ \A i \in DOMAIN ss : \A j \in DOMAIN ss[i] :
       off[i - 1] + j \in DOMAIN whole /\ whole[off[i - 1] + j] = ss[i][j]
  /\ \A i, p \in DOMAIN ss : i < p =>
       \A j \in DOMAIN ss[i], q \in DOMAIN ss[p] : off[i - 1] + j < off[p - 1] + q
  /\ \A k \in DOMAIN whole : \E i \in DOMAIN ss : \E j \in DOMAIN ss[i] :
       k = off[i - 1] + j /\ whole[k] = ss[i][j]

LEMMA FlattenPlaced ==
  ASSUME NEW ss, IsSequence(ss), \A i \in DOMAIN ss : IsSequence(ss[i]),
         NEW whole, whole = FlattenSeq(ss)
  PROVE  IsSequence(whole) /\ \E off : Placed(ss, whole, off)
<1>1. PICK off : Laid(ss, whole, off)
  BY FlattenAny
<1>2. PICK S : ss \in Seq(Seq(S))
  BY FlattenAny
<1>3. IsSequence(whole) /\ DOMAIN whole = 1 .. Len(whole) /\ Len(whole) \in Nat
  BY FlattenAny, SequenceFacts
<1>4. DOMAIN ss = 1 .. Len(ss) /\ Len(ss) \in Nat
  BY SequenceFacts
<1>5. \A i \in DOMAIN ss : DOMAIN ss[i] = 1 .. Len(ss[i]) /\ Len(ss[i]) \in Nat
  BY SequenceFacts
<1>6. \A p \in 0 .. Len(ss) : \A i \in 0 .. p : off[i] <= off[p]
  BY <1>1, <1>2, LaidOrder
<1>13. \A i, p \in 1 .. Len(ss) : i < p =>
         \A j \in 1 .. Len(ss[i]), q \in 1 .. Len(ss[p]) : off[i - 1] + j < off[p - 1] + q
  BY <1>1, <1>2, LaidOrder
<1>14. Covers(ss, whole, off)
  BY <1>1, <1>2, LaidOrder
<1>7. off \in [0 .. Len(ss) -> Nat] /\ Len(whole) = off[Len(ss)]
      /\ (\A i \in 1 .. Len(ss) : off[i] = off[i - 1] + Len(ss[i]))
      /\ (\A i \in 1 .. Len(ss) : \A j \in 1 .. Len(ss[i]) : whole[off[i - 1] + j] = ss[i][j])
  BY <1>1 DEF Laid
<1>8. \A i \in DOMAIN ss : i - 1 \in 0 .. Len(ss) /\ i \in 0 .. Len(ss) /\ off[i - 1] \in Nat
  BY <1>4, <1>7
<1>9. ASSUME NEW i \in DOMAIN ss, NEW j \in DOMAIN ss[i]
      PROVE  off[i - 1] + j \in DOMAIN whole /\ whole[off[i - 1] + j] = ss[i][j]
  <2>1. off[i] = off[i - 1] + Len(ss[i]) /\ i \in 0 .. Len(ss) /\ Len(ss) \in 0 .. Len(ss)
    BY <1>4, <1>7, <1>8
  <2>2. off[i] <= off[Len(ss)] /\ off[i] \in Nat /\ off[Len(ss)] \in Nat
    BY <1>6, <1>7, <2>1
  <2>3. off[i - 1] + j \in 1 .. Len(whole)
    BY <1>3, <1>5, <1>7, <1>8, <2>1, <2>2
  <2> QED
    BY <1>3, <1>4, <1>5, <1>7, <2>3
<1>10. \A i, p \in DOMAIN ss : i < p =>
         \A j \in DOMAIN ss[i], q \in DOMAIN ss[p] : off[i - 1] + j < off[p - 1] + q
  BY <1>4, <1>5, <1>13
<1>11. \A k \in DOMAIN whole : \E i \in DOMAIN ss : \E j \in DOMAIN ss[i] :
         k = off[i - 1] + j /\ whole[k] = ss[i][j]
  <2> TAKE k \in DOMAIN whole
  <2>1. PICK i \in 1 .. Len(ss) : \E j \in 1 .. Len(ss[i]) : k = off[i - 1] + j /\ whole[k] = ss[i][j]
    BY <1>3, <1>14 DEF Covers
  <2>2. i \in DOMAIN ss /\ 1 .. Len(ss[i]) = DOMAIN ss[i]
    BY <1>4, <1>5
  <2> QED
    BY <2>1, <2>2
<1>12. Placed(ss, whole, off)
  BY <1>8, <1>9, <1>10, <1>11 DEF Placed
<1> QED
  BY <1>3, <1>12

\* If the pieces of Q give one element of E each and the others none, E has as
\* many places in the whole as Q has members.
LEMMA FlattenCount ==
  ASSUME NEW ss, IsSequence(ss), \A i \in DOMAIN ss : IsSequence(ss[i]),
         NEW whole, whole = FlattenSeq(ss), NEW E, NEW Q \in SUBSET DOMAIN ss,
         \A i \in Q : DOMAIN ss[i] = {1} /\ ss[i][1] \in E,
         \A i \in DOMAIN ss \ Q : \A j \in DOMAIN ss[i] : ss[i][j] \notin E
  PROVE  Cardinality({k \in DOMAIN whole : whole[k] \in E}) = Cardinality(Q)
<1> DEFINE P == {k \in DOMAIN whole : whole[k] \in E}
<1>1. PICK off : Placed(ss, whole, off)
  BY FlattenPlaced
<1>2. \A i \in DOMAIN ss : off[i - 1] \in Nat
  BY <1>1 DEF Placed
<1> DEFINE f == [i \in Q |-> off[i - 1] + 1]
<1>3. \A i \in Q : f[i] \in P
  <2> TAKE i \in Q
  <2>1. 1 \in DOMAIN ss[i]
    OBVIOUS
  <2>2. off[i - 1] + 1 \in DOMAIN whole /\ whole[off[i - 1] + 1] = ss[i][1]
    BY <1>1, <2>1 DEF Placed
  <2> QED
    BY <2>2
<1>4. \A i, p \in Q : f[i] = f[p] => i = p
  <2> SUFFICES ASSUME NEW i \in Q, NEW p \in Q, f[i] = f[p], i # p PROVE FALSE
    OBVIOUS
  <2>1. DOMAIN ss = 1 .. Len(ss)
    BY SequenceFacts
  <2>2. i < p \/ p < i
    BY <2>1, SequenceFacts
  <2>3. 1 \in DOMAIN ss[i] /\ 1 \in DOMAIN ss[p]
    OBVIOUS
  <2>4. off[i - 1] + 1 < off[p - 1] + 1 \/ off[p - 1] + 1 < off[i - 1] + 1
    BY <1>1, <2>2, <2>3 DEF Placed
  <2> QED
    BY <1>2, <2>4
<1>5. \A k \in P : \E i \in Q : f[i] = k
  <2> TAKE k \in P
  <2>1. PICK i \in DOMAIN ss : \E j \in DOMAIN ss[i] : k = off[i - 1] + j /\ whole[k] = ss[i][j]
    BY <1>1 DEF Placed
  <2>2. PICK j \in DOMAIN ss[i] : k = off[i - 1] + j /\ whole[k] = ss[i][j]
    BY <2>1
  <2>3. i \in Q
    BY <2>2
  <2> QED
    BY <2>2, <2>3
<1> HIDE DEF P
<1>6. f \in Bijection(Q, P)
  <2>1. f \in [Q -> P]
    BY <1>3
  <2> QED
    BY <1>4, <1>5, <2>1 DEF Bijection, Injection, Surjection, IsInjective
<1>7. IsFiniteSet(Q)
  <2>1. Q \in SUBSET (1 .. Len(ss)) /\ Len(ss) \in Nat
    BY SequenceFacts
  <2> QED
    BY <2>1, FS_Interval, FS_Subset
<1>8. Cardinality(P) = Cardinality(Q)
  BY <1>6, <1>7, FS_Bijection DEF ExistsBijection
<1> QED
  BY <1>8 DEF P

LEMMA ShortSequence ==
  ASSUME NEW s, IsSequence(s)
  PROVE  (Len(s) = 0 => s = <<>>) /\ (Len(s) = 1 => s = <<s[1]>>) /\ (DOMAIN s = {} => s = <<>>)
<1>1. s = [i \in 1 .. Len(s) |-> s[i]] /\ Len(s) \in Nat /\ DOMAIN s = 1 .. Len(s)
  BY SequenceFacts
<1>2. ASSUME Len(s) = 0 PROVE s = <<>>
  BY <1>1, <1>2
<1>3. ASSUME Len(s) = 1 PROVE s = <<s[1]>>
  <2> DEFINE e == s[1]
  <2>1. s = [i \in 1..1 |-> e]
    BY <1>1, <1>3
  <2> HIDE DEF e
  <2>2. <<e>> = [i \in 1..1 |-> e]
    OBVIOUS
  <2> QED
    BY <2>1, <2>2 DEF e
<1>4. ASSUME DOMAIN s = {} PROVE s = <<>>
  BY <1>1, <1>2, <1>4
<1> QED
  BY <1>2, <1>3, <1>4

\* Where the contexts of messages stand.
LEMMA ContextsPlaced ==
  ASSUME NEW messages, GoodMessages(messages), NEW blocks,
         blocks = [i \in DOMAIN messages |-> messages[i].blocks]
  PROVE  /\ IsSequence(Contexts(messages)) /\ DOMAIN Contexts(messages) = 1 .. Len(Contexts(messages))
         /\ Len(Contexts(messages)) \in Nat
         /\ \E off : Placed(blocks, Contexts(messages), off)
BY MessageBlocks, FlattenPlaced, SequenceFacts

LEMMA ContextsOfNone ==
  ASSUME NEW messages, GoodMessages(messages), Holders(messages) = {}
  PROVE  Contexts(messages) = <<>>
<1>1. IsSequence(Contexts(messages)) /\ ~ (Len(Contexts(messages)) > 0)
  BY ContextsHeld
<1>2. Len(Contexts(messages)) = 0
  BY <1>1, SequenceFacts
<1> QED
  BY <1>1, <1>2, ShortSequence

LEMMA ContextsOfOne ==
  ASSUME NEW messages, GoodMessages(messages), NEW h, Holders(messages) = {h},
         NEW e, messages[h].blocks = <<e>>
  PROVE  Contexts(messages) = <<e>>
<1> DEFINE blocks == [i \in DOMAIN messages |-> messages[i].blocks]
           whole == Contexts(messages)
<1>1. IsSequence(whole) /\ DOMAIN whole = 1 .. Len(whole) /\ Len(whole) \in Nat
  BY ContextsPlaced
<1>2. PICK off : Placed(blocks, whole, off)
  BY ContextsPlaced
<1>3. h \in DOMAIN messages /\ \A i \in DOMAIN messages : i # h => messages[i].blocks = <<>>
  BY DEF Holders
<1>4. DOMAIN blocks = DOMAIN messages /\ \A i \in DOMAIN messages : blocks[i] = messages[i].blocks
  OBVIOUS
<1> HIDE DEF blocks, whole
<1>5. DOMAIN blocks[h] = {1} /\ blocks[h][1] = e /\ off[h - 1] \in Nat
  BY <1>2, <1>3, <1>4, OneDomain, OneAny DEF Placed
<1>6. \A k \in DOMAIN whole : k = off[h - 1] + 1
  <2> TAKE k \in DOMAIN whole
  <2>1. PICK i \in DOMAIN blocks : \E j \in DOMAIN blocks[i] : k = off[i - 1] + j
    BY <1>2 DEF Placed
  <2>2. i = h
    BY <1>3, <1>4, <2>1, NoneSequence
  <2> QED
    BY <1>5, <2>1, <2>2
<1>7. off[h - 1] + 1 \in DOMAIN whole /\ whole[off[h - 1] + 1] = e
  BY <1>2, <1>3, <1>4, <1>5 DEF Placed
<1>8. 1 \in DOMAIN whole /\ Len(whole) \in DOMAIN whole
  BY <1>1, <1>7
<1>9. Len(whole) = 1 /\ whole[1] = e
  BY <1>6, <1>7, <1>8
<1> QED
  BY <1>1, <1>9, ShortSequence DEF whole

LEMMA ContextsShort ==
  ASSUME NEW messages, GoodMessages(messages), Len(Contexts(messages)) <= 1
  PROVE  /\ \A i, p \in Holders(messages) : i = p
         /\ \A i \in Holders(messages) : messages[i].blocks = <<messages[i].blocks[1]>>
<1> DEFINE blocks == [i \in DOMAIN messages |-> messages[i].blocks]
           whole == Contexts(messages)
<1>1. IsSequence(whole) /\ DOMAIN whole = 1 .. Len(whole) /\ Len(whole) \in Nat
  BY ContextsPlaced
<1>2. PICK off : Placed(blocks, whole, off)
  BY ContextsPlaced
<1>3. /\ DOMAIN blocks = DOMAIN messages /\ IsSequence(blocks)
      /\ \A i \in DOMAIN messages : blocks[i] = messages[i].blocks /\ IsSequence(blocks[i])
  BY MessageBlocks
<1> HIDE DEF blocks, whole
<1>4. \A k, m \in DOMAIN whole : k = m
  BY <1>1 DEF whole
<1>5. \A i \in Holders(messages) : i \in DOMAIN blocks /\ Len(blocks[i]) \in Nat
        /\ DOMAIN blocks[i] = 1 .. Len(blocks[i]) /\ Len(blocks[i]) # 0
  BY <1>3, SequenceFacts, ShortSequence DEF Holders
<1>6. ASSUME NEW i \in Holders(messages), NEW p \in Holders(messages), i < p PROVE FALSE
  <2>1. 1 \in DOMAIN blocks[i] /\ 1 \in DOMAIN blocks[p] /\ off[i - 1] \in Nat /\ off[p - 1] \in Nat
    BY <1>2, <1>5 DEF Placed
  <2>2. off[i - 1] + 1 \in DOMAIN whole /\ off[p - 1] + 1 \in DOMAIN whole
    BY <1>2, <1>5, <2>1 DEF Placed
  <2>3. off[i - 1] + 1 < off[p - 1] + 1
    BY <1>2, <1>5, <1>6, <2>1 DEF Placed
  <2> QED
    BY <1>4, <2>1, <2>2, <2>3
<1>7. \A i, p \in Holders(messages) : i = p
  <2>1. \A i \in Holders(messages) : i \in Nat
    <3>1. DOMAIN blocks = 1 .. Len(blocks)
      BY <1>3, SequenceFacts
    <3> QED
      BY <1>5, <3>1
  <2> QED
    BY <1>6, <2>1
<1>8. ASSUME NEW i \in Holders(messages) PROVE Len(blocks[i]) = 1
  <2> SUFFICES ASSUME Len(blocks[i]) # 1 PROVE FALSE
    OBVIOUS
  <2>3. Len(blocks[i]) \in Nat /\ Len(blocks[i]) # 0 /\ Len(blocks[i]) # 1
        /\ DOMAIN blocks[i] = 1 .. Len(blocks[i])
    BY <1>5
  <2>1. 1 \in DOMAIN blocks[i] /\ 2 \in DOMAIN blocks[i] /\ off[i - 1] \in Nat
    <3>2. \A n \in Nat : (n # 0 /\ n # 1) => (1 \in 1..n /\ 2 \in 1..n)
      OBVIOUS
    <3>1. 1 \in DOMAIN blocks[i] /\ 2 \in DOMAIN blocks[i]
      BY <2>3, <3>2
    <3> QED
      BY <1>2, <1>5, <3>1 DEF Placed
  <2>2. off[i - 1] + 1 \in DOMAIN whole /\ off[i - 1] + 2 \in DOMAIN whole
    BY <1>2, <1>5, <2>1 DEF Placed
  <2> QED
    BY <1>4, <2>1, <2>2
<1> QED
  BY <1>3, <1>7, <1>8, ShortSequence DEF Holders

-----------------------------------------------------------------------------
(* Calls of the history and their outputs.                                 *)

\* Calls are numbered in the order they are made.
Numbered ==
  /\ \A m \in made : m.call.id \in 1 .. Cardinality(made)
  /\ \A m, k \in made : m.call.id = k.call.id => m = k
  /\ \A i \in DOMAIN batch : batch[i].call.id = Cardinality(made) + i

\* The item is what became of a call.
IsMade(calls, item) == \E m \in calls : m.item = item /\ m.call.id = item.id

\* A call has a number of its own and at most one output, behind it; the calls
\* of an answer come before its outputs.
CallsOnce(items) ==
  /\ \A i, j \in DOMAIN items :
       IsCall(items[i]) /\ IsCall(items[j]) /\ items[i].id = items[j].id => i = j
  /\ \A i, j \in DOMAIN items :
       items[i].type = "output" /\ items[j].type = "output" /\ items[i].id = items[j].id => i = j
  /\ \A j \in DOMAIN items : items[j].type = "output" =>
       \E i \in 1 .. j - 1 : IsCall(items[i]) /\ items[i].id = items[j].id
  /\ \A k, l, b \in DOMAIN items :
       items[k].type = "output" /\ IsCall(items[l]) /\ items[b].type = "output" /\ k < l /\ l < b =>
         \E a \in k + 1 .. b - 1 : IsCall(items[a]) /\ items[a].id = items[b].id

RunsOnce ==
  /\ \A i \in DOMAIN running : IsCall(running[i].item) => IsMade(made, running[i].item)
  /\ \A i, j \in DOMAIN running :
       IsCall(running[i].item) /\ IsCall(running[j].item) /\ running[i].item.id = running[j].item.id
         => i = j
  /\ \A i \in DOMAIN running : running[i].output # NoOutput =>
       IsCall(running[i].item) /\ running[i].output.id = running[i].item.id
  /\ \A i \in DOMAIN running, j \in DOMAIN history :
       IsCall(running[i].item) /\ IsCall(history[j]) => running[i].item.id # history[j].id

HistoryOnce ==
  CallsOnce(history) /\ \A i \in DOMAIN history : IsCall(history[i]) => IsMade(made, history[i])

Orderly == Numbered /\ RunsOnce /\ HistoryOnce

LEMMA OutputsRecordedOf ==
  ASSUME NEW r, GoodRun(r), NEW outs, outs = OutputsRecorded(r)
  PROVE  /\ IsSequence(outs)
         /\ \A j \in DOMAIN outs :
              /\ outs[j].type \in {"output", "additional_tools"} /\ r.output # NoOutput
              /\ outs[j].type = "output" => outs[j] = r.output
         /\ \A j, k \in DOMAIN outs : outs[j].type = "output" /\ outs[k].type = "output" => j = k
         /\ r.output # NoOutput => \E j \in DOMAIN outs : outs[j] = r.output
<1>1. r.output # NoOutput => r.output.type = "output"
  BY DEF GoodRun
<1>2. FoundItem(Deferred).type = "additional_tools"
  BY DEF FoundItem
<1>4. CASE r.output = NoOutput
  <2>1. outs = <<>>
    BY <1>4 DEF OutputsRecorded
  <2> QED
    BY <1>4, <2>1, NoneSequence
<1>5. CASE r.output # NoOutput /\ r.item.type = "tool_search_call"
  <2>1. outs = <<FoundItem(Deferred), r.output>>
    BY <1>5 DEF OutputsRecorded
  <2>2. IsSequence(outs) /\ DOMAIN outs = {1, 2} /\ outs[1] = FoundItem(Deferred) /\ outs[2] = r.output
    BY <2>1, TwoAny
  <2> QED
    BY <1>1, <1>2, <1>5, <2>2
<1>6. CASE r.output # NoOutput /\ r.item.type # "tool_search_call"
  <2>1. outs = <<r.output>>
    BY <1>6 DEF OutputsRecorded
  <2>2. IsSequence(outs) /\ DOMAIN outs = {1} /\ outs[1] = r.output
    BY <2>1, OneAny, OneDomain
  <2> QED
    BY <1>1, <1>6, <2>2
<1> QED
  BY <1>4, <1>5, <1>6

\* Where the parts of a recorded history stand: the items of the answer behind
\* place n, their outputs behind place m.
RecordedAt(whole, n, m) ==
  /\ n \in Nat /\ m \in Nat /\ Len(whole) \in Nat /\ m <= Len(whole) /\ DOMAIN whole = 1 .. Len(whole)
  /\ DOMAIN history = 1..n /\ DOMAIN running = 1 .. m - n /\ n <= m
  /\ \A k \in 1..n : whole[k] = history[k]
  /\ \A i \in DOMAIN running : whole[n + i] = running[i].item
  /\ \A k \in m + 1 .. Len(whole) :
       /\ whole[k].type \in {"output", "additional_tools"}
       /\ whole[k].type = "output" =>
            \E i \in DOMAIN running : running[i].output # NoOutput /\ whole[k] = running[i].output
  /\ \A i \in DOMAIN running : running[i].output # NoOutput =>
       \E k \in m + 1 .. Len(whole) : whole[k] = running[i].output
  /\ \A k, l \in m + 1 .. Len(whole) :
       whole[k].type = "output" /\ whole[l].type = "output" /\ whole[k].id = whole[l].id => k = l

LEMMA RecordedPlaces ==
  ASSUME Good, RunsOnce
  PROVE  \E n, m : RecordedAt(Recorded, n, m)
<1> DEFINE items == [i \in DOMAIN running |-> running[i].item]
           outs == [i \in DOMAIN running |-> OutputsRecorded(running[i])]
           tail == FlattenSeq(outs)
           n == Len(history)
           m == Len(history) + Len(running)
           whole == Recorded
<1>1. /\ whole = (history \o items) \o tail
      /\ IsSequence(items) /\ Len(items) = Len(running) /\ DOMAIN items = DOMAIN running
      /\ IsSequence(outs) /\ Len(outs) = Len(running) /\ DOMAIN outs = DOMAIN running
  BY RecordedParts DEF Good, GoodState, GoodAnswer
<1>2. \A i \in DOMAIN running :
        /\ items[i] = running[i].item /\ outs[i] = OutputsRecorded(running[i]) /\ IsSequence(outs[i])
        /\ \A j \in DOMAIN outs[i] :
              /\ outs[i][j].type \in {"output", "additional_tools"} /\ running[i].output # NoOutput
              /\ outs[i][j].type = "output" => outs[i][j] = running[i].output
        /\ (\A j, k \in DOMAIN outs[i] : outs[i][j].type = "output" /\ outs[i][k].type = "output" => j = k)
        /\ (running[i].output # NoOutput => \E j \in DOMAIN outs[i] : outs[i][j] = running[i].output)
  <2> TAKE i \in DOMAIN running
  <2>1. items[i] = running[i].item /\ outs[i] = OutputsRecorded(running[i]) /\ GoodRun(running[i])
    BY DEF Good, GoodAnswer
  <2> HIDE DEF items, outs
  <2> DEFINE r == running[i]
             o == outs[i]
  <2>2. GoodRun(r) /\ o = OutputsRecorded(r)
    BY <2>1
  <2> HIDE DEF r, o
  <2>3. /\ IsSequence(o)
        /\ \A j \in DOMAIN o :
              /\ o[j].type \in {"output", "additional_tools"} /\ r.output # NoOutput
              /\ o[j].type = "output" => o[j] = r.output
        /\ \A j, k \in DOMAIN o : o[j].type = "output" /\ o[k].type = "output" => j = k
        /\ r.output # NoOutput => \E j \in DOMAIN o : o[j] = r.output
    BY <2>2, OutputsRecordedOf
  <2> QED
    BY <2>1, <2>3 DEF r, o
<1>3. IsSequence(history) /\ IsSequence(running) /\ n \in Nat /\ Len(running) \in Nat /\ m \in Nat
      /\ DOMAIN history = 1..n /\ DOMAIN running = 1 .. Len(running)
  BY SequenceFacts DEF Good, GoodState, GoodItems, GoodAnswer
<1> HIDE DEF items, outs
<1>4. IsSequence(tail) /\ \E off : Placed(outs, tail, off)
  BY <1>1, <1>2, FlattenPlaced
<1>5. PICK off : Placed(outs, tail, off)
  BY <1>4
<1>6. Len(tail) \in Nat /\ DOMAIN tail = 1 .. Len(tail)
  BY <1>4, SequenceFacts
<1> HIDE DEF tail, whole, n, m
<1>7. /\ IsSequence(history \o items) /\ Len(history \o items) = m
      /\ \A k \in 1..n : (history \o items)[k] = history[k]
      /\ \A k \in 1 .. Len(running) : (history \o items)[n + k] = items[k]
  <2>1. /\ IsSequence(history \o items) /\ Len(history \o items) = Len(history) + Len(items)
        /\ \A k \in 1 .. Len(history) : (history \o items)[k] = history[k]
        /\ \A k \in 1 .. Len(items) : (history \o items)[Len(history) + k] = items[k]
    <3>1. IsSequence(history) /\ IsSequence(items)
      BY <1>1, <1>3
    <3> QED
      BY ONLY <3>1, ConcatAny
  <2> QED
    BY <1>1, <2>1 DEF n, m
<1>8. /\ IsSequence(whole) /\ Len(whole) = m + Len(tail)
      /\ \A k \in 1..m : whole[k] = (history \o items)[k]
      /\ \A k \in 1 .. Len(tail) : whole[m + k] = tail[k]
  BY <1>1, <1>4, <1>7, ConcatAny
<1>9. m = n + Len(running)
  BY DEF n, m
<1>10. Len(whole) \in Nat /\ m <= Len(whole) /\ DOMAIN whole = 1 .. Len(whole)
  BY <1>3, <1>6, <1>8, SequenceFacts
<1>11. DOMAIN running = 1 .. m - n /\ n <= m
  BY <1>3, <1>9
<1>12. \A k \in 1..n : whole[k] = history[k]
  BY <1>3, <1>7, <1>8, <1>9
<1>13. \A i \in DOMAIN running : whole[n + i] = running[i].item
  <2> TAKE i \in DOMAIN running
  <2>1. i \in 1 .. Len(running) /\ n + i \in 1..m
    BY <1>3, <1>9
  <2>2. whole[n + i] = (history \o items)[n + i]
    BY <1>8, <2>1
  <2>3. (history \o items)[n + i] = items[i]
    BY <1>7, <2>1
  <2> QED
    BY <1>2, <2>2, <2>3
<1>14. ASSUME NEW k \in m + 1 .. Len(whole)
       PROVE  /\ k - m \in DOMAIN tail
              /\ \E i \in DOMAIN running : \E j \in DOMAIN outs[i] :
                   k - m = off[i - 1] + j /\ whole[k] = outs[i][j]
  <2>1. k - m \in 1 .. Len(tail) /\ m + (k - m) = k
    BY <1>3, <1>6, <1>8
  <2>2. whole[k] = tail[k - m] /\ k - m \in DOMAIN tail
    BY <1>6, <1>8, <2>1
  <2>3. PICK i \in DOMAIN outs : \E j \in DOMAIN outs[i] : k - m = off[i - 1] + j /\ tail[k - m] = outs[i][j]
    BY <1>5, <2>2 DEF Placed
  <2> QED
    BY <1>1, <2>2, <2>3
<1>15. ASSUME NEW k \in m + 1 .. Len(whole)
       PROVE  /\ whole[k].type \in {"output", "additional_tools"}
              /\ whole[k].type = "output" =>
                   \E i \in DOMAIN running : running[i].output # NoOutput /\ whole[k] = running[i].output
  BY <1>2, <1>14
<1>16. ASSUME NEW i \in DOMAIN running, running[i].output # NoOutput
       PROVE  \E k \in m + 1 .. Len(whole) : whole[k] = running[i].output
  <2>1. PICK j \in DOMAIN outs[i] : outs[i][j] = running[i].output
    BY <1>2, <1>16
  <2>2. off[i - 1] + j \in DOMAIN tail /\ tail[off[i - 1] + j] = outs[i][j]
    BY <1>1, <1>5, <2>1 DEF Placed
  <2>3. m + (off[i - 1] + j) \in m + 1 .. Len(whole)
    BY <1>3, <1>6, <1>8, <2>2
  <2> QED
    BY <1>6, <1>8, <2>1, <2>2, <2>3
<1>17. ASSUME NEW k \in m + 1 .. Len(whole), NEW l \in m + 1 .. Len(whole),
              whole[k].type = "output", whole[l].type = "output", whole[k].id = whole[l].id
       PROVE  k = l
  <2>1. PICK i \in DOMAIN running : \E j \in DOMAIN outs[i] :
          k - m = off[i - 1] + j /\ whole[k] = outs[i][j]
    BY <1>14
  <2>2. PICK j \in DOMAIN outs[i] : k - m = off[i - 1] + j /\ whole[k] = outs[i][j]
    BY <2>1
  <2>3. PICK p \in DOMAIN running : \E q \in DOMAIN outs[p] :
          l - m = off[p - 1] + q /\ whole[l] = outs[p][q]
    BY <1>14
  <2>4. PICK q \in DOMAIN outs[p] : l - m = off[p - 1] + q /\ whole[l] = outs[p][q]
    BY <2>3
  <2>5. outs[i][j] = running[i].output /\ outs[p][q] = running[p].output
        /\ running[i].output # NoOutput /\ running[p].output # NoOutput
    BY <1>2, <1>17, <2>2, <2>4
  <2>6. i = p
    BY <1>17, <2>2, <2>4, <2>5 DEF RunsOnce
  <2>7. j = q
    BY <1>2, <1>17, <2>2, <2>4, <2>6
  <2> QED
    BY <1>3, <2>2, <2>4, <2>6, <2>7
<1>18. RecordedAt(whole, n, m)
  BY <1>3, <1>10, <1>11, <1>12, <1>13, <1>15, <1>16, <1>17 DEF RecordedAt
<1> QED
  BY <1>18 DEF whole

\* One item more.
LongerBy(whole, items, x) ==
  /\ IsSequence(items) /\ IsSequence(whole) /\ Len(whole) = Len(items) + 1
  /\ \A k \in 1 .. Len(items) : whole[k] = items[k]
  /\ whole[Len(items) + 1] = x

LEMMA LongerDomain ==
  ASSUME NEW whole, NEW items, NEW x, LongerBy(whole, items, x)
  PROVE  /\ Len(items) \in Nat /\ DOMAIN items = 1 .. Len(items)
         /\ DOMAIN whole = 1 .. Len(items) + 1
         /\ \A k \in DOMAIN items : k \in DOMAIN whole /\ whole[k] = items[k]
         /\ Len(items) + 1 \in DOMAIN whole /\ whole[Len(items) + 1] = x
         /\ \A k \in DOMAIN whole : k \in DOMAIN items \/ k = Len(items) + 1
<1>1. /\ Len(items) \in Nat /\ DOMAIN items = 1 .. Len(items)
      /\ DOMAIN whole = 1 .. Len(whole) /\ Len(whole) = Len(items) + 1
  BY SequenceFacts DEF LongerBy
<1> QED
  BY <1>1 DEF LongerBy

LEMMA ConcatOne ==
  ASSUME NEW s, IsSequence(s), NEW x
  PROVE  LongerBy(s \o <<x>>, s, x)
<1>1. /\ IsSequence(s \o <<x>>) /\ Len(s \o <<x>>) = Len(s) + Len(<<x>>)
      /\ \A i \in 1 .. Len(s) : (s \o <<x>>)[i] = s[i]
      /\ \A i \in 1 .. Len(<<x>>) : (s \o <<x>>)[Len(s) + i] = <<x>>[i]
  BY OneAny, ConcatAny
<1>2. Len(<<x>>) = 1 /\ <<x>>[1] = x /\ 1 \in 1..1
  OBVIOUS
<1> QED
  BY <1>1, <1>2 DEF LongerBy

LEMMA ConcatNone ==
  ASSUME NEW s, IsSequence(s)
  PROVE  s \o <<>> = s
<1>1. PICK S : s \in Seq(S)
  BY DEF IsSequence
<1> QED
  BY <1>1

LEMMA ConcatTwo ==
  ASSUME NEW s, IsSequence(s), NEW x, NEW y
  PROVE  LongerBy(s \o <<x>>, s, x) /\ LongerBy(s \o <<x, y>>, s \o <<x>>, y)
<1>1. LongerBy(s \o <<x>>, s, x)
  BY ConcatOne
<1>2. /\ IsSequence(s \o <<x, y>>) /\ Len(s \o <<x, y>>) = Len(s) + Len(<<x, y>>)
      /\ \A i \in 1 .. Len(s) : (s \o <<x, y>>)[i] = s[i]
      /\ \A i \in 1 .. Len(<<x, y>>) : (s \o <<x, y>>)[Len(s) + i] = <<x, y>>[i]
  BY TwoAny, ConcatAny
<1>3. Len(<<x, y>>) = 2 /\ <<x, y>>[1] = x /\ <<x, y>>[2] = y /\ 1 \in 1..2 /\ 2 \in 1..2
  OBVIOUS
<1>4. Len(s) \in Nat
  BY SequenceFacts
<1>5. (s \o <<x, y>>)[Len(s) + 1] = x /\ (s \o <<x, y>>)[Len(s) + 2] = y
      /\ Len(s \o <<x, y>>) = Len(s) + 2
  BY <1>2, <1>3
<1>6. IsSequence(s \o <<x>>) /\ Len(s \o <<x>>) = Len(s) + 1 /\ (s \o <<x>>)[Len(s) + 1] = x
      /\ \A i \in 1 .. Len(s) : (s \o <<x>>)[i] = s[i]
  BY <1>1 DEF LongerBy
<1> DEFINE one == s \o <<x>>
           two == s \o <<x, y>>
<1>7. /\ IsSequence(one) /\ Len(one) = Len(s) + 1 /\ one[Len(s) + 1] = x
      /\ \A i \in 1 .. Len(s) : one[i] = s[i]
      /\ IsSequence(two) /\ Len(two) = Len(s) + 2 /\ two[Len(s) + 1] = x /\ two[Len(s) + 2] = y
      /\ \A i \in 1 .. Len(s) : two[i] = s[i]
  BY <1>2, <1>5, <1>6
<1> HIDE DEF one, two
<1>8. LongerBy(two, one, y)
  <2>1. \A k \in 1 .. Len(one) : two[k] = one[k]
    <3> TAKE k \in 1 .. Len(one)
    <3>1. k \in 1 .. Len(s) \/ k = Len(s) + 1
      BY <1>4, <1>7
    <3> QED
      BY <1>7, <3>1
  <2>2. Len(two) = Len(one) + 1 /\ two[Len(one) + 1] = y
    BY <1>4, <1>7
  <2> QED
    BY <1>7, <2>1, <2>2 DEF LongerBy
<1> QED
  BY <1>1, <1>8 DEF one, two

\* The user's message.
AskItem == MessageItem("user", {"ask"}, <<>>)

\* An ask adds one message after the other.
LEMMA AskAdds ==
  ASSUME Good, NEW moved \in BOOLEAN, NEW mode, Ask(moved, mode)
  PROVE  \E one, two :
           /\ \/ one = history
              \/ LongerBy(one, history, MessageItem("developer", {"collaboration mode: " \o mode}, <<>>))
           /\ \/ ~moved /\ two = one
              \/ moved /\ LongerBy(two, one, MessageItem("user", {}, <<asks.count + 1>>))
           /\ LongerBy(history', two, AskItem)
<1> DEFINE note == MessageItem("developer", {"collaboration mode: " \o mode}, <<>>)
           context == MessageItem("user", {}, <<asks.count + 1>>)
           modes == IF mode = asks.mode THEN <<>> ELSE <<note>>
           envs == IF moved THEN <<context>> ELSE <<>>
           one == history \o modes
           two == one \o envs
<1>1. history' = two \o <<AskItem>>
  <2>1. moved => MessageItem("user", {}, <<IF moved THEN asks.count + 1 ELSE asks.env>>) = context
    OBVIOUS
  <2> QED
    BY <2>1 DEF Ask, AskItem
<1>2. IsSequence(history)
  BY DEF Good, GoodState, GoodItems
<1> HIDE DEF note, context
<1>3. one = history \/ LongerBy(one, history, note)
  BY <1>2, ConcatOne, ConcatNone
<1>4. IsSequence(one)
  BY <1>2, <1>3 DEF LongerBy
<1> HIDE DEF modes, one
<1>5. \/ ~moved /\ two = one
      \/ moved /\ LongerBy(two, one, context)
  BY <1>4, ConcatOne, ConcatNone
<1>6. IsSequence(two)
  BY <1>4, <1>5 DEF LongerBy
<1> HIDE DEF envs, two
<1>7. LongerBy(history', two, AskItem)
  BY <1>1, <1>6, ConcatOne
<1> QED
  BY <1>3, <1>5, <1>7 DEF note, context

\* An answer adds its reasoning and its text.
LEMMA ReplyAdds ==
  ASSUME Good, NEW calls, NEW reasoned, Reply(calls, reasoned)
  PROVE  LET text == MessageItem("assistant", {"text"}, <<>>) IN
         \/ ~reasoned /\ history' = history
         \/ ~reasoned /\ calls = <<>> /\ LongerBy(history', history, text)
         \/ reasoned /\ \E one : LongerBy(one, history, ReasoningItem(Len(history) + 1))
                                 /\ LongerBy(history', one, text)
<1> DEFINE text == MessageItem("assistant", {"text"}, <<>>)
           thought == ReasoningItem(Len(history) + 1)
<1>1. IsSequence(history)
  BY DEF Good, GoodState, GoodItems
<1>2. CASE reasoned
  <2>1. history' = history \o <<thought, text>>
    BY <1>2 DEF Reply, Thought
  <2> HIDE DEF text, thought
  <2>2. LongerBy(history \o <<thought>>, history, thought) /\ LongerBy(history', history \o <<thought>>, text)
    BY <1>1, <2>1, ConcatTwo
  <2> QED
    BY <1>2, <2>2 DEF text, thought
<1>3. CASE ~reasoned /\ calls = <<>>
  <2>1. history' = history \o <<text>>
    BY <1>3 DEF Reply
  <2> HIDE DEF text
  <2>2. LongerBy(history', history, text)
    BY <1>1, <2>1, ConcatOne
  <2> QED
    BY <1>3, <2>2 DEF text
<1>4. CASE ~reasoned /\ calls # <<>>
  <2>1. history' = history \o <<>>
    BY <1>4 DEF Reply
  <2> QED
    BY <1>1, <1>4, <2>1, ConcatNone
<1> QED
  BY <1>2, <1>3, <1>4

LEMMA OnceFrom ==
  ASSUME NEW items, NEW L, DOMAIN items = 1..L,
         \A i, j \in 1..L : IsCall(items[i]) /\ IsCall(items[j]) /\ items[i].id = items[j].id => i = j,
         \A i, j \in 1..L :
           items[i].type = "output" /\ items[j].type = "output" /\ items[i].id = items[j].id => i = j,
         \A j \in 1..L : items[j].type = "output" =>
           \E i \in 1 .. j - 1 : IsCall(items[i]) /\ items[i].id = items[j].id,
         \A k, l, b \in 1..L :
           items[k].type = "output" /\ IsCall(items[l]) /\ items[b].type = "output" /\ k < l /\ l < b =>
             \E a \in k + 1 .. b - 1 : IsCall(items[a]) /\ items[a].id = items[b].id
  PROVE  CallsOnce(items)
BY DEF CallsOnce

LEMMA CallsComeFirst ==
  ASSUME NEW items, CallsOnce(items), NEW k \in DOMAIN items, NEW l \in DOMAIN items, NEW b \in DOMAIN items,
         items[k].type = "output", IsCall(items[l]), items[b].type = "output", k < l, l < b
  PROVE  \E a \in k + 1 .. b - 1 : IsCall(items[a]) /\ items[a].id = items[b].id
BY DEF CallsOnce

\* No call and no output is new.
Quieter(whole, items) ==
  /\ CallsOnce(items) => CallsOnce(whole)
  /\ \A i \in DOMAIN whole : IsCall(whole[i]) => i \in DOMAIN items /\ whole[i] = items[i]

LEMMA LongerIsQuieter ==
  ASSUME NEW whole, NEW items, NEW x, LongerBy(whole, items, x), ~IsCall(x), x.type # "output"
  PROVE  Quieter(whole, items)
<1> DEFINE N == Len(items)
<1>1. N \in Nat /\ DOMAIN items = 1..N /\ DOMAIN whole = 1 .. N + 1
  BY LongerDomain
<1>2. /\ \A k \in 1..N : k \in 1 .. N + 1 /\ whole[k] = items[k]
      /\ whole[N + 1] = x
  BY <1>1 DEF LongerBy
<1> HIDE DEF N
<1>3. \A k \in 1 .. N + 1 : IsCall(whole[k]) \/ whole[k].type = "output" => k \in 1..N /\ whole[k] = items[k]
  <2> TAKE k \in 1 .. N + 1
  <2>1. k \in 1..N \/ k = N + 1
    BY <1>1
  <2> QED
    BY <1>2, <2>1
<1>4. ASSUME CallsOnce(items) PROVE CallsOnce(whole)
  <2>1. ASSUME NEW i \in 1 .. N + 1, NEW j \in 1 .. N + 1,
               IsCall(whole[i]), IsCall(whole[j]), whole[i].id = whole[j].id PROVE i = j
    BY <1>1, <1>3, <1>4, <2>1 DEF CallsOnce
  <2>2. ASSUME NEW i \in 1 .. N + 1, NEW j \in 1 .. N + 1,
               whole[i].type = "output", whole[j].type = "output", whole[i].id = whole[j].id PROVE i = j
    BY <1>1, <1>3, <1>4, <2>2 DEF CallsOnce
  <2>3. ASSUME NEW j \in 1 .. N + 1, whole[j].type = "output"
        PROVE  \E i \in 1 .. j - 1 : IsCall(whole[i]) /\ whole[i].id = whole[j].id
    <3>1. j \in 1..N /\ whole[j] = items[j]
      BY <1>3, <2>3
    <3>2. PICK i \in 1 .. j - 1 : IsCall(items[i]) /\ items[i].id = items[j].id
      BY <1>1, <1>4, <2>3, <3>1 DEF CallsOnce
    <3>3. i \in 1..N
      BY <1>1, <3>1
    <3> QED
      BY <1>2, <3>1, <3>2, <3>3
  <2>4. ASSUME NEW k \in 1 .. N + 1, NEW l \in 1 .. N + 1, NEW b \in 1 .. N + 1,
               whole[k].type = "output", IsCall(whole[l]), whole[b].type = "output", k < l, l < b
        PROVE  \E a \in k + 1 .. b - 1 : IsCall(whole[a]) /\ whole[a].id = whole[b].id
    <3>1. k \in 1..N /\ l \in 1..N /\ b \in 1..N
          /\ whole[k] = items[k] /\ whole[l] = items[l] /\ whole[b] = items[b]
      BY <1>3, <2>4
    <3>2. PICK a \in k + 1 .. b - 1 : IsCall(items[a]) /\ items[a].id = items[b].id
      BY <1>1, <1>4, <2>4, <3>1 DEF CallsOnce
    <3>3. a \in 1..N
      BY <1>1, <3>1
    <3> QED
      BY <1>2, <3>1, <3>2, <3>3
  <2>5. DOMAIN whole = 1 .. N + 1
    BY <1>1
  <2>6. \A i, j \in 1 .. N + 1 :
          IsCall(whole[i]) /\ IsCall(whole[j]) /\ whole[i].id = whole[j].id => i = j
    BY <2>1
  <2>7. \A i, j \in 1 .. N + 1 :
          whole[i].type = "output" /\ whole[j].type = "output" /\ whole[i].id = whole[j].id => i = j
    BY <2>2
  <2>8. \A j \in 1 .. N + 1 : whole[j].type = "output" =>
          \E i \in 1 .. j - 1 : IsCall(whole[i]) /\ whole[i].id = whole[j].id
    BY <2>3
  <2>9. \A k, l, b \in 1 .. N + 1 :
          whole[k].type = "output" /\ IsCall(whole[l]) /\ whole[b].type = "output" /\ k < l /\ l < b =>
            \E a \in k + 1 .. b - 1 : IsCall(whole[a]) /\ whole[a].id = whole[b].id
    BY <2>4
  <2> QED
    BY ONLY <2>5, <2>6, <2>7, <2>8, <2>9, OnceFrom
<1> QED
  BY <1>1, <1>3, <1>4 DEF Quieter

LEMMA QuieterChain ==
  ASSUME NEW a, NEW b, NEW c, Quieter(b, a), Quieter(c, b)
  PROVE  Quieter(c, a)
BY DEF Quieter

LEMMA MessageIsQuiet ==
  ASSUME NEW role, NEW body, NEW blocks
  PROVE  /\ MessageItem(role, body, blocks).type = "message"
         /\ ~IsCall(MessageItem(role, body, blocks)) /\ MessageItem(role, body, blocks).type # "output"
BY CallIsNoMessage DEF MessageItem

LEMMA ReasoningIsQuiet ==
  ASSUME NEW text
  PROVE  /\ ReasoningItem(text).type = "reasoning" /\ ReasoningItem(text).text = text
         /\ ~IsCall(ReasoningItem(text)) /\ ReasoningItem(text).type # "output"
BY CallIsNoMessage DEF ReasoningItem

LEMMA AskIsQuiet ==
  ASSUME Good, NEW moved \in BOOLEAN, NEW mode, Ask(moved, mode)
  PROVE  Quieter(history', history)
<1>1. PICK one, two :
           /\ \/ one = history
              \/ LongerBy(one, history, MessageItem("developer", {"collaboration mode: " \o mode}, <<>>))
           /\ \/ ~moved /\ two = one
              \/ moved /\ LongerBy(two, one, MessageItem("user", {}, <<asks.count + 1>>))
           /\ LongerBy(history', two, AskItem)
  BY AskAdds
<1>2. \A items : Quieter(items, items)
  BY DEF Quieter
<1>3. Quieter(one, history)
  BY <1>1, <1>2, LongerIsQuieter, MessageIsQuiet
<1>4. Quieter(two, one)
  BY <1>1, <1>2, LongerIsQuieter, MessageIsQuiet
<1>5. Quieter(history', two)
  BY <1>1, LongerIsQuieter, MessageIsQuiet DEF AskItem
<1> QED
  BY <1>3, <1>4, <1>5, QuieterChain

LEMMA ReplyIsQuiet ==
  ASSUME Good, NEW calls, NEW reasoned, Reply(calls, reasoned)
  PROVE  Quieter(history', history)
<1> DEFINE text == MessageItem("assistant", {"text"}, <<>>)
           thought == ReasoningItem(Len(history) + 1)
<1>1. \/ history' = history
      \/ LongerBy(history', history, text)
      \/ \E one : LongerBy(one, history, thought) /\ LongerBy(history', one, text)
  BY ReplyAdds
<1>2. /\ ~IsCall(text) /\ text.type # "output" /\ ~IsCall(thought) /\ thought.type # "output"
      /\ Quieter(history, history)
  BY MessageIsQuiet, ReasoningIsQuiet DEF Quieter
<1> HIDE DEF text, thought
<1> QED
  BY <1>1, <1>2, LongerIsQuieter, QuieterChain

LEMMA QuietKeeps ==
  ASSUME HistoryOnce, Quieter(history', history), made' = made
  PROVE  /\ HistoryOnce'
         /\ \A i \in DOMAIN history' : IsCall(history'[i]) => i \in DOMAIN history /\ history'[i] = history[i]
BY DEF HistoryOnce, Quieter, IsMade

LEMMA OrderlyAsk ==
  ASSUME Good, Orderly, NEW moved \in BOOLEAN, NEW mode, Ask(moved, mode)
  PROVE  Orderly'
<1>1. made' = made /\ running' = running /\ batch' = batch
  BY DEF Ask
<1>2. HistoryOnce'
      /\ \A i \in DOMAIN history' : IsCall(history'[i]) => i \in DOMAIN history /\ history'[i] = history[i]
  BY <1>1, AskIsQuiet, QuietKeeps DEF Orderly
<1>3. Numbered'
  BY <1>1 DEF Orderly, Numbered
<1>4. RunsOnce'
  BY <1>1, <1>2 DEF Orderly, RunsOnce, IsMade
<1> QED
  BY <1>2, <1>3, <1>4 DEF Orderly

LEMMA OrderlyReply ==
  ASSUME Good, Orderly, NEW calls \in Batches, NEW reasoned \in BOOLEAN, Reply(calls, reasoned)
  PROVE  Orderly'
<1>1. made' = made /\ running' = running
  BY DEF Reply
<1>2. HistoryOnce'
      /\ \A i \in DOMAIN history' : IsCall(history'[i]) => i \in DOMAIN history /\ history'[i] = history[i]
  BY <1>1, ReplyIsQuiet, QuietKeeps DEF Orderly
<1>3. \A i \in DOMAIN batch' : batch'[i].call.id = Cardinality(made) + i
  <2> DEFINE made1(i) == [call    |-> [id |-> Cardinality(made) + i, up |-> calls[i].up, args |-> calls[i].args],
                          thought |-> IF reasoned THEN Thought ELSE NoReasoning]
  <2>1. batch' = [i \in DOMAIN calls |-> made1(i)]
    BY DEF Reply
  <2>2. \A i : made1(i).call.id = Cardinality(made) + i
    OBVIOUS
  <2> HIDE DEF made1
  <2> QED
    BY <2>1, <2>2
<1>5. Numbered'
  BY <1>1, <1>3 DEF Orderly, Numbered
<1>4. RunsOnce'
  BY <1>1, <1>2 DEF Orderly, RunsOnce, IsMade
<1> QED
  BY <1>2, <1>5, <1>4 DEF Orderly

\* What translating a call adds.
LEMMA EmitAdds ==
  ASSUME Good, Orderly, Emit
  PROVE  \E m, r :
           /\ made' = made \cup {m} /\ m \notin made /\ m.call.id = Cardinality(made) + 1
           /\ m.call = batch[1].call /\ m.thought = batch[1].thought
           /\ Cardinality(made') = Cardinality(made) + 1 /\ Cardinality(made) \in Nat
           /\ running' = Append(running, r) /\ r.item = m.item /\ r.output = NoOutput
           /\ IsCall(r.item) => r.item.id = m.call.id
           /\ batch' = Tail(batch) /\ batch # <<>> /\ IsSequence(batch)
           /\ history' = history
<1> DEFINE call == Head(batch).call
           item == responseItemFromToolCall(call, request.offered, disk)
           record == [call |-> call, thought |-> Head(batch).thought, item |-> item, disk |-> disk,
                      known |-> Has(request.offered, call.up)]
           run == [item |-> item, output |-> NoOutput]
<1>1. /\ running' = Append(running, run) /\ made' = made \cup {record}
      /\ batch' = Tail(batch) /\ batch # <<>> /\ history' = history
  BY DEF Emit
<1>2. IsCall(item) => item.id = call.id
  BY ItemFromCall, CallIsNoMessage DEF MessageItem
<1>3. Head(batch) = batch[1] /\ 1 \in DOMAIN batch
  BY <1>1, TailAny DEF Good, GoodAnswer
<1>4. call.id = Cardinality(made) + 1
  BY <1>3 DEF Orderly, Numbered
<1>5. record.call = call /\ record.thought = Head(batch).thought /\ record.item = item
      /\ run.item = item /\ run.output = NoOutput
  OBVIOUS
<1> HIDE DEF item, record, call, run
<1>6. Cardinality(made) \in Nat /\ IsFiniteSet(made)
  BY FS_CardinalityType DEF Good, GoodAnswer
<1>7. record \notin made
  BY <1>4, <1>5, <1>6 DEF Orderly, Numbered
<1>8. Cardinality(made') = Cardinality(made) + 1
  BY <1>1, <1>6, <1>7, FS_AddElement
<1>9. IsSequence(batch)
  BY DEF Good, GoodAnswer
<1> QED
  BY <1>1, <1>2, <1>3, <1>4, <1>5, <1>6, <1>7, <1>8, <1>9 DEF call

LEMMA OrderlyEmit ==
  ASSUME Good, Orderly, Emit
  PROVE  Orderly'
<1> DEFINE N == Cardinality(made)
<1>1. PICK m, r :
           /\ made' = made \cup {m} /\ m \notin made /\ m.call.id = Cardinality(made) + 1
           /\ m.call = batch[1].call /\ m.thought = batch[1].thought
           /\ Cardinality(made') = Cardinality(made) + 1 /\ Cardinality(made) \in Nat
           /\ running' = Append(running, r) /\ r.item = m.item /\ r.output = NoOutput
           /\ IsCall(r.item) => r.item.id = m.call.id
           /\ batch' = Tail(batch) /\ batch # <<>> /\ IsSequence(batch)
           /\ history' = history
  BY EmitAdds
<1>2. /\ \A k \in made : k.call.id \in 1..N /\ N \in Nat
      /\ \A k, l \in made : k.call.id = l.call.id => k = l
  BY <1>1 DEF Orderly, Numbered
<1>3. \A i \in DOMAIN batch' : batch'[i].call.id = (N + 1) + i
  <2>1. /\ IsSequence(batch') /\ Len(batch') = Len(batch) - 1 /\ Len(batch) \in Nat
        /\ \A i \in 1 .. Len(batch') : batch'[i] = batch[i + 1]
    BY <1>1, TailAny
  <2>2. DOMAIN batch = 1 .. Len(batch) /\ DOMAIN batch' = 1 .. Len(batch) - 1
    BY <1>1, <2>1, SequenceFacts
  <2>3. \A i \in DOMAIN batch' : i + 1 \in DOMAIN batch /\ batch'[i] = batch[i + 1] /\ i \in Nat
    BY <2>1, <2>2
  <2>4. \A i \in DOMAIN batch' : batch'[i].call.id = N + (i + 1)
    BY <2>3 DEF Orderly, Numbered
  <2> QED
    BY <1>2, <1>1, <2>3, <2>4
<1>4. Numbered'
  <2>1. \A k \in made' : k.call.id \in 1 .. N + 1
    BY <1>1, <1>2
  <2>2. \A k, l \in made' : k.call.id = l.call.id => k = l
    BY <1>1, <1>2
  <2>3. Cardinality(made') = N + 1
    BY <1>1
  <2> HIDE DEF N
  <2> QED
    BY <1>3, <2>1, <2>2, <2>3 DEF Numbered
<1>5. \A item : IsMade(made, item) => IsMade(made', item) /\ item.id \in 1..N
  BY <1>1, <1>2 DEF IsMade
<1>6. HistoryOnce'
  <2>1. history' = history
    BY <1>1
  <2> QED
    BY <1>5, <2>1 DEF Orderly, HistoryOnce
<1>7. /\ IsSequence(running) /\ Len(running) \in Nat /\ DOMAIN running = 1 .. Len(running)
      /\ DOMAIN running' = 1 .. Len(running) + 1
      /\ \A i \in 1 .. Len(running) : running'[i] = running[i]
      /\ running'[Len(running) + 1] = r
  <2>1. IsSequence(running)
    BY DEF Good, GoodAnswer
  <2> QED
    BY <1>1, <2>1, AppendAny, SequenceFacts
<1>8. \A i \in DOMAIN running' : (i \in DOMAIN running /\ running'[i] = running[i])
                                 \/ (i = Len(running) + 1 /\ running'[i] = r)
  BY <1>7
<1>9. IsCall(r.item) => IsMade(made', r.item) /\ r.item.id = N + 1
  BY <1>1 DEF IsMade
<1>10. N + 1 \notin 1..N
  BY <1>1
<1> HIDE DEF N
<1>11. \A i \in DOMAIN running' : IsCall(running'[i].item) => IsMade(made', running'[i].item)
  BY <1>5, <1>8, <1>9 DEF Orderly, RunsOnce
<1>12. ASSUME NEW i \in DOMAIN running', NEW j \in DOMAIN running',
              IsCall(running'[i].item), IsCall(running'[j].item), running'[i].item.id = running'[j].item.id
       PROVE  i = j
  <2>1. CASE i \in DOMAIN running /\ running'[i] = running[i] /\ j \in DOMAIN running /\ running'[j] = running[j]
    BY <1>12, <2>1 DEF Orderly, RunsOnce
  <2>2. CASE i \in DOMAIN running /\ running'[i] = running[i] /\ j = Len(running) + 1 /\ running'[j] = r
    BY <1>5, <1>9, <1>10, <1>12, <2>2 DEF Orderly, RunsOnce
  <2>3. CASE j \in DOMAIN running /\ running'[j] = running[j] /\ i = Len(running) + 1 /\ running'[i] = r
    BY <1>5, <1>9, <1>10, <1>12, <2>3 DEF Orderly, RunsOnce
  <2> QED
    BY <1>8, <2>1, <2>2, <2>3
<1>13. ASSUME NEW i \in DOMAIN running', running'[i].output # NoOutput
       PROVE  IsCall(running'[i].item) /\ running'[i].output.id = running'[i].item.id
  <2>1. i \in DOMAIN running /\ running'[i] = running[i]
    BY <1>1, <1>8, <1>13
  <2> QED
    BY <1>13, <2>1 DEF Orderly, RunsOnce
<1>14. ASSUME NEW i \in DOMAIN running', NEW j \in DOMAIN history,
              IsCall(running'[i].item), IsCall(history[j])
       PROVE  running'[i].item.id # history[j].id
  <2>1. CASE i \in DOMAIN running /\ running'[i] = running[i]
    BY <1>14, <2>1 DEF Orderly, RunsOnce
  <2>2. CASE running'[i] = r
    <3>1. history[j].id \in 1..N
      BY <1>5, <1>14 DEF Orderly, HistoryOnce
    <3> QED
      BY <1>9, <1>10, <1>14, <2>2, <3>1
  <2> QED
    BY <1>8, <2>1, <2>2
<1>15. RunsOnce'
  <2>1. history' = history
    BY <1>1
  <2> QED
    BY <1>11, <1>12, <1>13, <1>14, <2>1 DEF RunsOnce
<1> QED
  BY <1>4, <1>6, <1>15 DEF Orderly

\* What running a call changes.
LEMMA RunChanges ==
  ASSUME Good, NEW i, NEW output \in Outputs, Run(i, output)
  PROVE  /\ i \in DOMAIN running /\ IsCall(running[i].item) /\ running[i].output = NoOutput
         /\ DOMAIN running' = DOMAIN running
         /\ \A k \in DOMAIN running : k # i => running'[k] = running[k]
         /\ running'[i].item = running[i].item /\ running'[i].output # NoOutput
         /\ running'[i].output.id = running[i].item.id
         /\ (running'[i].output.blocks = <<>> \/ \E o \in Outputs : running'[i].output.blocks = o.blocks)
         /\ UNCHANGED <<profile, history, phase, request, batch, remembered, made, asks>>
<1>1. i \in DOMAIN running /\ IsCall(running[i].item) /\ running[i].output = NoOutput
  BY RunOutput
<1>2. PICK body, blocks :
        /\ (blocks = <<>> \/ \E o \in Outputs : blocks = o.blocks)
        /\ running' = [running EXCEPT ![i] =
                         [item |-> running[i].item,
                          output |-> OutputItem(running[i].item.id, body, blocks)]]
  BY RunOutput
<1> DEFINE r == [item |-> running[i].item, output |-> OutputItem(running[i].item.id, body, blocks)]
<1>3. r.item = running[i].item /\ r.output = OutputItem(running[i].item.id, body, blocks)
  OBVIOUS
<1>4. running' = [running EXCEPT ![i] = r]
  BY <1>2
<1> HIDE DEF r
<1>5. DOMAIN running' = DOMAIN running /\ \A k \in DOMAIN running : k # i => running'[k] = running[k]
  BY <1>4
<1>6. running'[i] = r
  BY <1>1, <1>4
<1>7. UNCHANGED <<profile, history, phase, request, batch, remembered, made, asks>>
  BY DEF Run
<1> QED
  BY <1>1, <1>2, <1>3, <1>5, <1>6, <1>7, OutputKinds

LEMMA OrderlyRun ==
  ASSUME Good, Orderly, NEW i, NEW output \in Outputs, Run(i, output)
  PROVE  Orderly'
<1>1. /\ i \in DOMAIN running /\ IsCall(running[i].item)
      /\ DOMAIN running' = DOMAIN running
      /\ \A k \in DOMAIN running : running'[k].item = running[k].item
      /\ \A k \in DOMAIN running : k # i => running'[k] = running[k]
      /\ running'[i].output.id = running[i].item.id
      /\ history' = history /\ batch' = batch /\ made' = made
  BY RunChanges
<1>2. Numbered' /\ HistoryOnce'
  BY <1>1 DEF Orderly, Numbered, HistoryOnce, IsMade
<1>3. \A k \in DOMAIN running : IsCall(running'[k].item) => IsMade(made', running'[k].item)
  BY <1>1 DEF Orderly, RunsOnce, IsMade
<1>4. \A k, j \in DOMAIN running' : IsCall(running'[k].item) /\ IsCall(running'[j].item)
         /\ running'[k].item.id = running'[j].item.id => k = j
  BY <1>1 DEF Orderly, RunsOnce
<1>5. \A k \in DOMAIN running' : running'[k].output # NoOutput =>
         IsCall(running'[k].item) /\ running'[k].output.id = running'[k].item.id
  BY <1>1 DEF Orderly, RunsOnce
<1>6. \A k \in DOMAIN running', j \in DOMAIN history' :
       IsCall(running'[k].item) /\ IsCall(history'[j]) => running'[k].item.id # history'[j].id
  BY <1>1 DEF Orderly, RunsOnce
<1> QED
  BY <1>1, <1>2, <1>3, <1>4, <1>5, <1>6 DEF Orderly, RunsOnce

\* The places of calls and outputs in a recorded history.
LEMMA RecordedCalls ==
  ASSUME Good, NEW whole, NEW n, NEW m, RecordedAt(whole, n, m), NEW k \in DOMAIN whole
  PROVE  /\ IsCall(whole[k]) =>
              k \in 1..m /\ \/ k \in 1..n /\ k \in DOMAIN history /\ whole[k] = history[k]
                            \/ k > n /\ k - n \in DOMAIN running /\ whole[k] = running[k - n].item
         /\ whole[k].type = "output" =>
              \/ k \in 1..n /\ k \in DOMAIN history /\ whole[k] = history[k]
              \/ k \in m + 1 .. Len(whole)
<1>1. /\ n \in Nat /\ m \in Nat /\ Len(whole) \in Nat /\ n <= m
      /\ DOMAIN whole = 1 .. Len(whole) /\ DOMAIN history = 1..n /\ DOMAIN running = 1 .. m - n
  BY DEF RecordedAt
<1>2. CASE k \in 1..n
  BY <1>1, <1>2 DEF RecordedAt
<1>3. CASE k \in n + 1 .. m
  <2>1. k - n \in DOMAIN running /\ n + (k - n) = k /\ k > n /\ k \in 1..m
    BY <1>1, <1>3
  <2>2. whole[k] = running[k - n].item
    BY <2>1 DEF RecordedAt
  <2>3. GoodRun(running[k - n])
    BY <2>1 DEF Good, GoodAnswer
  <2>4. whole[k].type # "output"
    BY <2>2, <2>3, CallIsNoMessage DEF GoodRun
  <2> QED
    BY <2>1, <2>2, <2>4
<1>4. CASE k \in m + 1 .. Len(whole)
  BY <1>4, CallIsNoMessage DEF RecordedAt
<1> QED
  BY <1>1, <1>2, <1>3, <1>4

LEMMA RecordedOnce ==
  ASSUME Good, RunsOnce, HistoryOnce, NEW whole, NEW n, NEW m, RecordedAt(whole, n, m)
  PROVE  CallsOnce(whole) /\ \A k \in DOMAIN whole : IsCall(whole[k]) => IsMade(made, whole[k])
<1> DEFINE L == Len(whole)
           Old(k) == k \in 1..n /\ k \in DOMAIN history /\ whole[k] = history[k]
           New(k) == k > n /\ k - n \in DOMAIN running /\ whole[k] = running[k - n].item
<1>1. /\ n \in Nat /\ m \in Nat /\ L \in Nat /\ n <= m /\ m <= L
      /\ DOMAIN whole = 1..L /\ DOMAIN history = 1..n /\ DOMAIN running = 1 .. m - n
  BY DEF RecordedAt
<1>2. \A k \in 1..L : IsCall(whole[k]) => k \in 1..m /\ (Old(k) \/ New(k))
  BY <1>1, RecordedCalls
<1>3. \A k \in 1..L : whole[k].type = "output" => Old(k) \/ k \in m + 1 .. L
  BY <1>1, RecordedCalls
<1>4. \A k \in m + 1 .. L : whole[k].type = "output" =>
        \E i \in 1 .. m - n : /\ n + i \in n + 1 .. m /\ IsCall(whole[n + i])
                              /\ running[i].output # NoOutput /\ whole[k] = running[i].output
                              /\ whole[n + i] = running[i].item /\ whole[n + i].id = whole[k].id
  <2> TAKE k \in m + 1 .. L
  <2> HAVE whole[k].type = "output"
  <2>1. PICK i \in DOMAIN running : running[i].output # NoOutput /\ whole[k] = running[i].output
    BY DEF RecordedAt
  <2>2. i \in 1 .. m - n /\ n + i \in n + 1 .. m
    BY <1>1
  <2>3. whole[n + i] = running[i].item
    BY DEF RecordedAt
  <2>4. IsCall(running[i].item) /\ running[i].output.id = running[i].item.id
    BY <2>1 DEF RunsOnce
  <2> QED
    BY <2>1, <2>2, <2>3, <2>4
<1>5. \A k \in 1..n : k \in 1..L /\ whole[k] = history[k] /\ k \in DOMAIN history
  BY <1>1 DEF RecordedAt
<1>6. \A k \in 1..L : IsCall(whole[k]) => IsMade(made, whole[k])
  BY <1>2 DEF RunsOnce, HistoryOnce
<1>7. ASSUME NEW i \in 1..L, NEW j \in 1..L, IsCall(whole[i]), IsCall(whole[j]), whole[i].id = whole[j].id
      PROVE  i = j
  <2>1. CASE Old(i) /\ Old(j)
    BY <1>7, <2>1 DEF HistoryOnce, CallsOnce
  <2>2. CASE New(i) /\ New(j)
    <3>1. i - n = j - n
      BY <1>7, <2>2 DEF RunsOnce
    <3> QED
      BY <1>1, <3>1
  <2>3. CASE Old(i) /\ New(j)
    BY <1>7, <2>3 DEF RunsOnce
  <2>4. CASE New(i) /\ Old(j)
    BY <1>7, <2>4 DEF RunsOnce
  <2> QED
    BY <1>2, <1>7, <2>1, <2>2, <2>3, <2>4
<1>8. \A j \in 1..n : history[j].type = "output" =>
         \E i \in 1 .. j - 1 : i \in 1..n /\ IsCall(whole[i]) /\ whole[i].id = history[j].id
  <2> TAKE j \in 1..n
  <2> HAVE history[j].type = "output"
  <2>1. PICK i \in 1 .. j - 1 : IsCall(history[i]) /\ history[i].id = history[j].id
    BY <1>1 DEF HistoryOnce, CallsOnce
  <2>2. i \in 1..n
    BY <1>1
  <2> QED
    BY <1>5, <2>1, <2>2
<1> HIDE DEF L, Old, New
<1>9. ASSUME NEW i \in 1..L, NEW j \in 1..L, whole[i].type = "output", whole[j].type = "output",
             whole[i].id = whole[j].id
      PROVE  i = j
  <2>1. CASE Old(i) /\ Old(j)
    BY <1>9, <2>1 DEF HistoryOnce, CallsOnce, Old
  <2>2. CASE i \in m + 1 .. L /\ j \in m + 1 .. L
    BY <1>9, <2>2 DEF RecordedAt, L
  <2>3. ASSUME NEW p \in 1..L, NEW q \in m + 1 .. L, Old(p),
               whole[p].type = "output", whole[q].type = "output", whole[p].id = whole[q].id
        PROVE  FALSE
    <3>1. PICK a \in 1 .. p - 1 : a \in 1..n /\ IsCall(whole[a]) /\ whole[a].id = whole[p].id
      BY <1>8, <2>3 DEF Old
    <3>2. PICK b \in 1 .. m - n : n + b \in n + 1 .. m /\ IsCall(whole[n + b]) /\ whole[n + b].id = whole[q].id
      BY <1>4, <2>3
    <3>3. a \in 1..L /\ n + b \in 1..L
      BY <1>1, <3>1, <3>2
    <3>4. a = n + b
      BY <1>7, <2>3, <3>1, <3>2, <3>3
    <3> QED
      BY <1>1, <3>1, <3>2, <3>4
  <2> QED
    BY <1>3, <1>9, <2>1, <2>2, <2>3
<1>10. ASSUME NEW j \in 1..L, whole[j].type = "output"
       PROVE  \E i \in 1 .. j - 1 : IsCall(whole[i]) /\ whole[i].id = whole[j].id
  <2>1. CASE Old(j)
    BY <1>8, <1>10, <2>1 DEF Old
  <2>2. CASE j \in m + 1 .. L
    <3>1. PICK i \in 1 .. m - n : n + i \in n + 1 .. m /\ IsCall(whole[n + i]) /\ whole[n + i].id = whole[j].id
      BY <1>4, <1>10, <2>2
    <3>2. n + i \in 1 .. j - 1
      BY <1>1, <2>2, <3>1
    <3> QED
      BY <3>1, <3>2
  <2> QED
    BY <1>3, <1>10, <2>1, <2>2
<1>11. ASSUME NEW k \in 1..L, NEW l \in 1..L, NEW b \in 1..L,
              whole[k].type = "output", IsCall(whole[l]), whole[b].type = "output", k < l, l < b
       PROVE  \E a \in k + 1 .. b - 1 : IsCall(whole[a]) /\ whole[a].id = whole[b].id
  <2>1. l \in 1..m
    BY <1>2, <1>11
  <2>2. Old(k)
    BY <1>1, <1>3, <1>11, <2>1
  <2>3. CASE Old(b)
    <3>1. k \in 1..n /\ b \in 1..n /\ l \in 1..n
      BY <1>1, <1>11, <2>2, <2>3 DEF Old
    <3>4. /\ k \in DOMAIN history /\ l \in DOMAIN history /\ b \in DOMAIN history
          /\ history[k].type = "output" /\ IsCall(history[l]) /\ history[b].type = "output"
      BY <1>5, <1>11, <3>1
    <3>2. PICK a \in k + 1 .. b - 1 : IsCall(history[a]) /\ history[a].id = history[b].id
      BY <1>11, <3>4 DEF HistoryOnce, CallsOnce
    <3>3. a \in 1..n
      BY <1>1, <3>1
    <3> QED
      BY <1>5, <3>1, <3>2, <3>3
  <2>4. CASE b \in m + 1 .. L
    <3>1. PICK i \in 1 .. m - n : n + i \in n + 1 .. m /\ IsCall(whole[n + i]) /\ whole[n + i].id = whole[b].id
      BY <1>4, <1>11, <2>4
    <3>2. n + i \in k + 1 .. b - 1
      BY <1>1, <2>2, <2>4, <3>1 DEF Old
    <3> QED
      BY <3>1, <3>2
  <2> QED
    BY <1>3, <1>11, <2>3, <2>4
<1>12. CallsOnce(whole)
  <2>1. DOMAIN whole = 1..L
    BY <1>1
  <2>2. \A i, j \in 1..L : IsCall(whole[i]) /\ IsCall(whole[j]) /\ whole[i].id = whole[j].id => i = j
    BY <1>7
  <2>3. \A i, j \in 1..L :
          whole[i].type = "output" /\ whole[j].type = "output" /\ whole[i].id = whole[j].id => i = j
    BY <1>9
  <2>4. \A j \in 1..L : whole[j].type = "output" =>
          \E i \in 1 .. j - 1 : IsCall(whole[i]) /\ whole[i].id = whole[j].id
    BY <1>10
  <2>5. \A k, l, b \in 1..L :
          whole[k].type = "output" /\ IsCall(whole[l]) /\ whole[b].type = "output" /\ k < l /\ l < b =>
            \E a \in k + 1 .. b - 1 : IsCall(whole[a]) /\ whole[a].id = whole[b].id
    BY <1>11
  <2> QED
    BY ONLY <2>1, <2>2, <2>3, <2>4, <2>5, OnceFrom
<1> QED
  BY <1>1, <1>6, <1>12 DEF L

LEMMA OrderlyEnd ==
  ASSUME Good, Orderly, Record \/ Interrupt
  PROVE  Orderly'
<1>1. history' = Recorded /\ running' = <<>> /\ batch' = <<>> /\ made' = made
  BY DEF Record, Interrupt
<1>2. PICK n, m : RecordedAt(history', n, m)
  BY <1>1, RecordedPlaces DEF Orderly
<1>3. CallsOnce(history') /\ \A k \in DOMAIN history' : IsCall(history'[k]) => IsMade(made, history'[k])
  BY <1>2, RecordedOnce DEF Orderly
<1>4. HistoryOnce'
  BY <1>1, <1>3 DEF HistoryOnce
<1>5. RunsOnce'
  BY <1>1, NoneSequence DEF RunsOnce
<1>6. Numbered'
  BY <1>1, NoneSequence DEF Orderly, Numbered
<1> QED
  BY <1>4, <1>5, <1>6 DEF Orderly

LEMMA OrderlyInit == Init => Orderly
<1> SUFFICES ASSUME Init PROVE Orderly
  OBVIOUS
<1>1. history = <<>> /\ running = <<>> /\ batch = <<>> /\ made = {}
  BY DEF Init
<1>2. Cardinality(made) = 0
  BY <1>1, FS_EmptySet
<1> QED
  BY <1>1, NoneSequence DEF Orderly, Numbered, RunsOnce, HistoryOnce, CallsOnce

LEMMA OrderlyNext ==
  ASSUME Good, Orderly, [Next]_vars
  PROVE  Orderly'
<1>1. ASSUME UNCHANGED <<history, running, batch, made>> PROVE Orderly'
  BY <1>1 DEF Orderly, Numbered, RunsOnce, HistoryOnce
<1>2. CASE UNCHANGED vars \/ Send \/ Interfere \/ Switch \/ Restart
  BY <1>1, <1>2 DEF vars, Send, Interfere, Switch, Restart
<1>3. CASE \E moved \in BOOLEAN, mode \in Modes : Ask(moved, mode)
  BY <1>3, OrderlyAsk
<1>4. CASE \E calls \in Batches, reasoned \in BOOLEAN : Reply(calls, reasoned)
  BY <1>4, OrderlyReply
<1>5. CASE Emit
  BY <1>5, OrderlyEmit
<1>6. CASE \E i \in DOMAIN running, output \in Outputs : Run(i, output)
  BY <1>6, OrderlyRun
<1>7. CASE Record \/ Interrupt
  BY <1>7, OrderlyEnd
<1> QED
  BY <1>2, <1>3, <1>4, <1>5, <1>6, <1>7 DEF Next

\* Every call Codex has received is one the bridge has translated, it is run at
\* most once, and its output stands behind it in the history.
LEMMA AlwaysOrderly == Spec => [](Good /\ Orderly)
BY GoodInit, GoodNext, OrderlyInit, OrderlyNext, PTL DEF Spec

-----------------------------------------------------------------------------
(* Messages of the user.                                                   *)

\* What the user has asked for, and the environment contexts sent, last the
\* one of env: places of the history.
AsksIn(items) == {i \in DOMAIN items : items[i] = AskItem}
HeldIn(items) == {i \in DOMAIN items : items[i].type = "message" /\ items[i].blocks # <<>>}

UserItem(item) ==
  item.type = "message" =>
    \/ item = AskItem
    \/ item.role = "user" /\ item.body = {} /\ \E e \in Nat \ {0} : item.blocks = <<e>>
    \/ item.role # "user" /\ item.blocks = <<>>

\* An item that is none of the user's.
NotUsers(item) == item.type = "message" => item.role # "user" /\ item.blocks = <<>>

AskedIn(items, count, env) ==
  /\ IsSequence(items) /\ count \in Nat /\ env \in Nat
  /\ \A i \in DOMAIN items : UserItem(items[i])
  /\ Cardinality(AsksIn(items)) = count
  /\ env = 0 => HeldIn(items) = {}
  /\ env # 0 => \E h \in HeldIn(items) : items[h].blocks = <<env>> /\ \A k \in HeldIn(items) : k <= h

Asked ==
  /\ asks = [count |-> asks.count, env |-> asks.env, mode |-> asks.mode,
             switched |-> asks.switched, edited |-> asks.edited]
  /\ AskedIn(history, asks.count, asks.env)
  /\ \A i \in DOMAIN running : NotUsers(running[i].item)

LEMMA AskItemIs ==
  /\ AskItem.type = "message" /\ AskItem.role = "user" /\ AskItem.body = {"ask"} /\ AskItem.blocks = <<>>
  /\ UserItem(AskItem)
BY DEF AskItem, MessageItem, UserItem

LEMMA NotUsersIs ==
  ASSUME NEW item, NotUsers(item)
  PROVE  UserItem(item) /\ item # AskItem /\ ~(item.type = "message" /\ item.blocks # <<>>)
BY AskItemIs DEF NotUsers, UserItem

LEMMA AskedNoMore ==
  ASSUME NEW items, NEW whole, NEW count, NEW env, AskedIn(items, count, env), IsSequence(whole),
         DOMAIN items \subseteq DOMAIN whole, \A k \in DOMAIN items : whole[k] = items[k],
         \A k \in DOMAIN whole \ DOMAIN items : NotUsers(whole[k])
  PROVE  AskedIn(whole, count, env)
<1>1. AsksIn(whole) = AsksIn(items)
  BY NotUsersIs DEF AsksIn
<1>2. HeldIn(whole) = HeldIn(items) /\ \A k \in HeldIn(items) : whole[k] = items[k]
  BY NotUsersIs DEF HeldIn
<1>3. \A i \in DOMAIN whole : UserItem(whole[i])
  BY NotUsersIs DEF AskedIn
<1> QED
  BY <1>1, <1>2, <1>3 DEF AskedIn

LEMMA AskedLonger ==
  ASSUME NEW items, NEW whole, NEW x, NEW count, NEW env, AskedIn(items, count, env), LongerBy(whole, items, x)
  PROVE  /\ NotUsers(x) => AskedIn(whole, count, env)
         /\ x = AskItem => AskedIn(whole, count + 1, env)
         /\ \A e \in Nat \ {0} : x = MessageItem("user", {}, <<e>>) => AskedIn(whole, count, e)
<1> DEFINE N == Len(items)
<1>1. /\ N \in Nat /\ DOMAIN items = 1..N /\ DOMAIN whole = 1 .. N + 1
      /\ \A k \in 1..N : k \in 1 .. N + 1 /\ whole[k] = items[k] /\ k <= N + 1
      /\ \A k \in 1 .. N + 1 : k \in 1..N \/ k = N + 1
      /\ whole[N + 1] = x /\ IsSequence(whole) /\ N + 1 \in 1 .. N + 1 /\ N + 1 \notin 1..N
  BY LongerDomain DEF LongerBy
<1> HIDE DEF N
<1>2. ASSUME NotUsers(x) PROVE AskedIn(whole, count, env)
  BY <1>1, <1>2, AskedNoMore
<1>3. ASSUME x = AskItem PROVE AskedIn(whole, count + 1, env)
  <2>1. AsksIn(whole) = AsksIn(items) \cup {N + 1} /\ N + 1 \notin AsksIn(items)
    BY <1>1, <1>3 DEF AsksIn
  <2>2. IsFiniteSet(AsksIn(items))
    <3>1. AsksIn(items) \subseteq 1..N
      BY <1>1 DEF AsksIn
    <3>2. IsFiniteSet(1..N)
      BY <1>1, FS_Interval
    <3> QED
      BY <3>1, <3>2, FS_Subset
  <2>3. Cardinality(AsksIn(whole)) = count + 1
    BY <2>1, <2>2, FS_AddElement DEF AskedIn
  <2>4. HeldIn(whole) = HeldIn(items) /\ \A k \in HeldIn(items) : whole[k] = items[k]
    BY <1>1, <1>3, AskItemIs DEF HeldIn
  <2>5. \A i \in DOMAIN whole : UserItem(whole[i])
    BY <1>1, <1>3, AskItemIs DEF AskedIn
  <2> QED
    BY <1>1, <2>3, <2>4, <2>5 DEF AskedIn
<1>4. ASSUME NEW e \in Nat \ {0}, x = MessageItem("user", {}, <<e>>) PROVE AskedIn(whole, count, e)
  <2>1. x.type = "message" /\ x.role = "user" /\ x.body = {} /\ x.blocks = <<e>> /\ <<e>> # <<>> /\ x # AskItem
    <3>1. {} # {"ask"}
      OBVIOUS
    <3> QED
      BY <1>4, <3>1, AskItemIs DEF MessageItem
  <2>2. AsksIn(whole) = AsksIn(items)
    BY <1>1, <2>1 DEF AsksIn
  <2>3. HeldIn(whole) \subseteq 1 .. N + 1 /\ N + 1 \in HeldIn(whole)
    BY <1>1, <2>1 DEF HeldIn
  <2>4. \A i \in DOMAIN whole : UserItem(whole[i])
    BY <1>1, <2>1 DEF AskedIn, UserItem
  <2>5. \A k \in HeldIn(whole) : k <= N + 1
    BY <1>1, <2>3
  <2> QED
    BY <1>1, <2>1, <2>2, <2>3, <2>4, <2>5 DEF AskedIn
<1> QED
  BY <1>2, <1>3, <1>4

LEMMA AskedInit == Init => Asked
<1> SUFFICES ASSUME Init PROVE Asked
  OBVIOUS
<1>1. history = <<>> /\ running = <<>> /\ asks.count = 0 /\ asks.env = 0
      /\ asks = [count |-> asks.count, env |-> asks.env, mode |-> asks.mode,
                 switched |-> asks.switched, edited |-> asks.edited]
  BY DEF Init
<1>2. AsksIn(history) = {} /\ HeldIn(history) = {}
  BY <1>1, NoneSequence DEF AsksIn, HeldIn
<1> QED
  BY <1>1, <1>2, NoneSequence, FS_EmptySet DEF Asked, AskedIn

LEMMA AskedAsk ==
  ASSUME Good, Asked, NEW moved \in BOOLEAN, NEW mode, Ask(moved, mode)
  PROVE  Asked'
<1>1. PICK one, two :
           /\ \/ one = history
              \/ LongerBy(one, history, MessageItem("developer", {"collaboration mode: " \o mode}, <<>>))
           /\ \/ ~moved /\ two = one
              \/ moved /\ LongerBy(two, one, MessageItem("user", {}, <<asks.count + 1>>))
           /\ LongerBy(history', two, AskItem)
  BY AskAdds
<1> DEFINE env == IF moved THEN asks.count + 1 ELSE asks.env
<1>2. NotUsers(MessageItem("developer", {"collaboration mode: " \o mode}, <<>>))
  BY DEF NotUsers, MessageItem
<1>3. AskedIn(one, asks.count, asks.env)
  BY <1>1, <1>2, AskedLonger DEF Asked
<1>4. asks.count + 1 \in Nat \ {0}
  BY DEF Asked, AskedIn
<1>5. AskedIn(two, asks.count, env)
  <2>1. CASE ~moved
    BY <1>1, <1>3, <2>1
  <2>2. CASE moved
    <3>1. LongerBy(two, one, MessageItem("user", {}, <<asks.count + 1>>)) /\ env = asks.count + 1
      BY <1>1, <2>2
    <3> HIDE DEF env
    <3> QED
      BY <1>3, <1>4, <3>1, AskedLonger
  <2> QED
    BY <2>1, <2>2
<1> HIDE DEF env
<1>6. AskedIn(history', asks.count + 1, env)
  BY <1>1, <1>5, AskedLonger
<1>7. asks' = [asks EXCEPT !.count = @ + 1, !.env = env, !.mode = mode] /\ running' = running
  BY DEF Ask, env
<1>8. /\ asks'.count = asks.count + 1 /\ asks'.env = env
      /\ asks' = [count |-> asks'.count, env |-> asks'.env, mode |-> asks'.mode,
                  switched |-> asks'.switched, edited |-> asks'.edited]
  BY <1>7 DEF Asked
<1> QED
  BY <1>6, <1>7, <1>8 DEF Asked

LEMMA AskedReply ==
  ASSUME Good, Asked, NEW calls, NEW reasoned, Reply(calls, reasoned)
  PROVE  Asked'
<1> DEFINE text == MessageItem("assistant", {"text"}, <<>>)
           thought == ReasoningItem(Len(history) + 1)
<1>1. \/ history' = history
      \/ LongerBy(history', history, text)
      \/ \E one : LongerBy(one, history, thought) /\ LongerBy(history', one, text)
  BY ReplyAdds
<1>2. NotUsers(text) /\ NotUsers(thought)
  BY DEF NotUsers, MessageItem, ReasoningItem
<1> HIDE DEF text, thought
<1>3. AskedIn(history', asks.count, asks.env)
  BY <1>1, <1>2, AskedLonger DEF Asked
<1>4. asks' = asks /\ running' = running
  BY DEF Reply
<1> QED
  BY <1>3, <1>4 DEF Asked

LEMMA AskedEmit ==
  ASSUME Good, Asked, Emit
  PROVE  Asked'
<1> DEFINE item == responseItemFromToolCall(Head(batch).call, request.offered, disk)
           run == [item |-> item, output |-> NoOutput]
<1>1. running' = Append(running, run) /\ history' = history /\ asks' = asks
  BY DEF Emit
<1>2. NotUsers(item)
  <2>1. IsCall(item) \/ \E code : item = MessageItem("assistant", {code}, <<>>)
    BY ItemFromCall
  <2> HIDE DEF item
  <2>2. CASE IsCall(item)
    BY <2>2, CallIsNoMessage DEF NotUsers
  <2>3. CASE \E code : item = MessageItem("assistant", {code}, <<>>)
    BY <2>3 DEF NotUsers, MessageItem
  <2> QED
    BY <2>1, <2>2, <2>3
<1>3. run.item = item
  OBVIOUS
<1> HIDE DEF item, run
<1>4. \A i \in DOMAIN running' : (i \in DOMAIN running /\ running'[i] = running[i]) \/ running'[i] = run
  <2>1. IsSequence(running)
    BY DEF Good, GoodAnswer
  <2> QED
    BY <1>1, <2>1, AppendAny, SequenceFacts
<1>5. \A i \in DOMAIN running' : NotUsers(running'[i].item)
  BY <1>2, <1>3, <1>4 DEF Asked
<1> QED
  BY <1>1, <1>5 DEF Asked

LEMMA AskedEnd ==
  ASSUME Good, RunsOnce, Asked, Record \/ Interrupt
  PROVE  Asked'
<1>1. history' = Recorded /\ running' = <<>> /\ asks' = asks
  BY DEF Record, Interrupt
<1>2. PICK n, m : RecordedAt(history', n, m)
  BY <1>1, RecordedPlaces
<1>3. IsSequence(history')
  BY <1>1, GoodEnd DEF Good, GoodState, GoodItems
<1>4. /\ DOMAIN history = 1..n /\ DOMAIN history' = 1 .. Len(history') /\ n \in Nat /\ m \in Nat
      /\ Len(history') \in Nat /\ n <= Len(history') /\ DOMAIN running = 1 .. m - n
      /\ \A k \in 1..n : history'[k] = history[k]
  BY <1>2 DEF RecordedAt
<1>5. ASSUME NEW k \in DOMAIN history' \ DOMAIN history PROVE NotUsers(history'[k])
  <2>1. CASE k \in n + 1 .. m
    <3>1. k - n \in DOMAIN running /\ n + (k - n) = k
      BY <1>4, <2>1
    <3>2. history'[k] = running[k - n].item
      BY <1>2, <3>1 DEF RecordedAt
    <3> QED
      BY <3>1, <3>2 DEF Asked
  <2>2. CASE k \in m + 1 .. Len(history')
    BY <1>2, <2>2 DEF RecordedAt, NotUsers
  <2> QED
    BY <1>4, <2>1, <2>2
<1>6. AskedIn(history', asks.count, asks.env)
  <2>1. DOMAIN history \subseteq DOMAIN history'
    BY <1>4
  <2> QED
    BY <1>3, <1>4, <1>5, <2>1, AskedNoMore DEF Asked
<1> QED
  BY <1>1, <1>6, NoneSequence DEF Asked

LEMMA AskedNext ==
  ASSUME Good, RunsOnce, Asked, [Next]_vars
  PROVE  Asked'
<1>1. CASE UNCHANGED vars \/ Send \/ Restart
  BY <1>1 DEF vars, Send, Restart, Asked
<1>2. CASE Interfere \/ Switch
  <2>1. history' = history /\ running' = running
        /\ (asks' = [asks EXCEPT !.edited = TRUE] \/ asks' = [asks EXCEPT !.switched = TRUE])
    BY <1>2 DEF Interfere, Switch
  <2>2. /\ asks'.count = asks.count /\ asks'.env = asks.env
        /\ asks' = [count |-> asks'.count, env |-> asks'.env, mode |-> asks'.mode,
                    switched |-> asks'.switched, edited |-> asks'.edited]
    BY <2>1 DEF Asked
  <2> QED
    BY <2>1, <2>2 DEF Asked
<1>3. CASE \E moved \in BOOLEAN, mode \in Modes : Ask(moved, mode)
  BY <1>3, AskedAsk
<1>4. CASE \E calls \in Batches, reasoned \in BOOLEAN : Reply(calls, reasoned)
  BY <1>4, AskedReply
<1>5. CASE Emit
  BY <1>5, AskedEmit
<1>6. CASE \E i \in DOMAIN running, output \in Outputs : Run(i, output)
  <2>1. PICK i \in DOMAIN running, output \in Outputs : Run(i, output)
    BY <1>6
  <2>2. DOMAIN running' = DOMAIN running /\ (\A k \in DOMAIN running : running'[k].item = running[k].item)
        /\ history' = history /\ asks' = asks
    BY <2>1, RunChanges
  <2> QED
    BY <2>2 DEF Asked
<1>7. CASE Record \/ Interrupt
  BY <1>7, AskedEnd
<1> QED
  BY <1>1, <1>2, <1>3, <1>4, <1>5, <1>6, <1>7 DEF Next

-----------------------------------------------------------------------------
(* What the user has asked for, in the messages.                           *)

AsksFor(m) == m.role = "user" /\ "ask" \in m.body
AsksShown(messages) == {p \in DOMAIN messages : AsksFor(messages[p])}
UserHolders(messages) == {p \in Holders(messages) : messages[p].role = "user"}

SeenIn(messages, count, env) ==
  /\ Cardinality(AsksShown(messages)) = count
  /\ env = 0 => UserHolders(messages) = {}
  /\ env # 0 => \E h \in UserHolders(messages) :
       messages[h].blocks = <<env>> /\ \A k \in UserHolders(messages) : k <= h

\* The same of the first n items.
AskedBy(items, n, count, env) ==
  /\ count \in Nat /\ env \in Nat
  /\ Cardinality({i \in 1..n : items[i] = AskItem}) = count
  /\ LET held == {i \in 1..n : items[i].type = "message" /\ items[i].blocks # <<>>} IN
     /\ env = 0 => held = {}
     /\ env # 0 => \E h \in held : items[h].blocks = <<env>> /\ \A k \in held : k <= h

\* A text with an environment context is the user's, unless a tool's output
\* quotes one.
Quoting(items) == \E j \in DOMAIN items : items[j].type = "output" /\ items[j].blocks # <<>>
HeldByUser(messages, items) ==
  \A p \in Holders(messages) : messages[p].role = "user" \/ Quoting(items)

CallsApart(calls) == \A k, l \in DOMAIN calls : calls[k].id = calls[l].id => k = l
MessagesApart(messages) == \A p \in DOMAIN messages : CallsApart(messages[p].calls)

LEMMA AppendLonger ==
  ASSUME NEW s, IsSequence(s), NEW x
  PROVE  LongerBy(Append(s, x), s, x)
BY AppendAny DEF LongerBy

\* A message with neither a request nor a context of the user.
LEMMA SeenQuiet ==
  ASSUME NEW messages, NEW whole, NEW m, LongerBy(whole, messages, m),
         NEW count, NEW env, SeenIn(messages, count, env), m.role # "user"
  PROVE  SeenIn(whole, count, env)
<1> DEFINE N == Len(messages)
<1>1. /\ N \in Nat /\ DOMAIN messages = 1..N /\ DOMAIN whole = 1 .. N + 1
      /\ \A k \in 1..N : k \in 1 .. N + 1 /\ whole[k] = messages[k]
      /\ \A k \in 1 .. N + 1 : k \in 1..N \/ k = N + 1
      /\ whole[N + 1] = m
  BY LongerDomain DEF LongerBy
<1> HIDE DEF N
<1>2. AsksShown(whole) = AsksShown(messages)
  BY <1>1 DEF AsksShown, AsksFor
<1>3. UserHolders(whole) = UserHolders(messages) /\ \A k \in UserHolders(messages) : whole[k] = messages[k]
  BY <1>1 DEF UserHolders, Holders
<1> QED
  BY <1>2, <1>3 DEF SeenIn

LEMMA SeenMore ==
  ASSUME NEW messages, NEW whole, NEW m, LongerBy(whole, messages, m), m.role = "user",
         NEW count \in Nat, NEW env, SeenIn(messages, count, env)
  PROVE  /\ ("ask" \in m.body /\ m.blocks = <<>>) => SeenIn(whole, count + 1, env)
         /\ \A e \in Nat \ {0} : ("ask" \notin m.body /\ m.blocks = <<e>>) => SeenIn(whole, count, e)
<1> DEFINE N == Len(messages)
<1>1. /\ N \in Nat /\ DOMAIN messages = 1..N /\ DOMAIN whole = 1 .. N + 1
      /\ \A k \in 1..N : k \in 1 .. N + 1 /\ whole[k] = messages[k] /\ k <= N + 1
      /\ \A k \in 1 .. N + 1 : k \in 1..N \/ k = N + 1
      /\ whole[N + 1] = m /\ N + 1 \in 1 .. N + 1 /\ N + 1 \notin 1..N
  BY LongerDomain DEF LongerBy
<1> HIDE DEF N
<1>2. ASSUME "ask" \in m.body, m.blocks = <<>> PROVE SeenIn(whole, count + 1, env)
  <2>1. AsksShown(whole) = AsksShown(messages) \cup {N + 1} /\ N + 1 \notin AsksShown(messages)
    BY <1>1, <1>2 DEF AsksShown, AsksFor
  <2>2. IsFiniteSet(AsksShown(messages))
    <3>1. AsksShown(messages) \subseteq 1..N /\ IsFiniteSet(1..N)
      BY <1>1, FS_Interval DEF AsksShown
    <3> QED
      BY <3>1, FS_Subset
  <2>3. Cardinality(AsksShown(whole)) = count + 1
    BY <2>1, <2>2, FS_AddElement DEF SeenIn
  <2>4. UserHolders(whole) = UserHolders(messages) /\ \A k \in UserHolders(messages) : whole[k] = messages[k]
    BY <1>1, <1>2 DEF UserHolders, Holders
  <2> QED
    BY <2>3, <2>4 DEF SeenIn
<1>3. ASSUME NEW e \in Nat \ {0}, "ask" \notin m.body, m.blocks = <<e>> PROVE SeenIn(whole, count, e)
  <2>1. AsksShown(whole) = AsksShown(messages)
    BY <1>1, <1>3 DEF AsksShown, AsksFor
  <2>2. UserHolders(whole) \subseteq 1 .. N + 1
    BY <1>1 DEF UserHolders, Holders
  <2>3. <<e>> # <<>>
    OBVIOUS
  <2>4. N + 1 \in UserHolders(whole) /\ whole[N + 1].blocks = <<e>>
    BY <1>1, <1>3, <2>3 DEF UserHolders, Holders
  <2>5. \A k \in UserHolders(whole) : k <= N + 1
    BY <1>1, <2>2
  <2> QED
    BY <2>1, <2>4, <2>5 DEF SeenIn
<1> QED
  BY <1>2, <1>3

\* One item more is read.
LEMMA AskedByNext ==
  ASSUME NEW items, NEW n \in Nat, NEW count, NEW env, AskedBy(items, n, count, env)
  PROVE  /\ NotUsers(items[n + 1]) => AskedBy(items, n + 1, count, env)
         /\ items[n + 1] = AskItem => AskedBy(items, n + 1, count + 1, env)
         /\ \A e \in Nat \ {0} : (items[n + 1].type = "message" /\ items[n + 1] # AskItem
                                  /\ items[n + 1].blocks = <<e>>) => AskedBy(items, n + 1, count, e)
<1> DEFINE A(k) == {i \in 1..k : items[i] = AskItem}
           H(k) == {i \in 1..k : items[i].type = "message" /\ items[i].blocks # <<>>}
<1>1. /\ \A k \in 1 .. n + 1 : k \in 1..n \/ k = n + 1
      /\ \A k \in 1..n : k \in 1 .. n + 1 /\ k <= n + 1
      /\ n + 1 \in 1 .. n + 1 /\ n + 1 \notin 1..n
  OBVIOUS
<1>2. ASSUME items[n + 1] # AskItem PROVE A(n + 1) = A(n)
  BY <1>1, <1>2
<1>3. ASSUME ~(items[n + 1].type = "message" /\ items[n + 1].blocks # <<>>) PROVE H(n + 1) = H(n)
  BY <1>1, <1>3
<1>4. \A k : (AskedBy(items, k, count, env) <=>
               /\ count \in Nat /\ env \in Nat /\ Cardinality(A(k)) = count
               /\ env = 0 => H(k) = {}
               /\ env # 0 => \E h \in H(k) : items[h].blocks = <<env>> /\ \A j \in H(k) : j <= h)
  BY DEF AskedBy
<1>5. ASSUME items[n + 1] = AskItem PROVE AskedBy(items, n + 1, count + 1, env)
  <2>1. A(n + 1) = A(n) \cup {n + 1} /\ n + 1 \notin A(n)
    BY <1>1, <1>5
  <2>2. IsFiniteSet(A(n))
    <3>1. A(n) \subseteq 1..n /\ IsFiniteSet(1..n)
      BY FS_Interval
    <3> QED
      BY <3>1, FS_Subset
  <2>3. H(n + 1) = H(n)
    BY <1>3, <1>5, AskItemIs
  <2>4. Cardinality(A(n + 1)) = count + 1 /\ count + 1 \in Nat
    <3> HIDE DEF A, H
    <3> QED
      BY <1>4, <2>1, <2>2, FS_AddElement
  <2>5. /\ env \in Nat
        /\ env = 0 => H(n + 1) = {}
        /\ env # 0 => \E h \in H(n + 1) : items[h].blocks = <<env>> /\ \A j \in H(n + 1) : j <= h
    BY <2>3 DEF AskedBy
  <2> QED
    BY <2>4, <2>5 DEF AskedBy
<1>6. ASSUME NEW e \in Nat \ {0}, items[n + 1].type = "message", items[n + 1] # AskItem,
             items[n + 1].blocks = <<e>>
      PROVE  AskedBy(items, n + 1, count, e)
  <2>1. A(n + 1) = A(n)
    BY <1>2, <1>6
  <2>2. n + 1 \in H(n + 1)
    <3>1. <<e>> # <<>>
      OBVIOUS
    <3> QED
      BY <1>1, <1>6, <3>1
  <2>3. \A j \in H(n + 1) : j <= n + 1
    BY <1>1
  <2>4. Cardinality(A(n + 1)) = count /\ count \in Nat
    BY <2>1 DEF AskedBy
  <2>5. \E h \in H(n + 1) : items[h].blocks = <<e>> /\ \A j \in H(n + 1) : j <= h
    <3> HIDE DEF H
    <3> QED
      BY <1>6, <2>2, <2>3
  <2> QED
    BY <2>4, <2>5 DEF AskedBy
<1>7. ASSUME NotUsers(items[n + 1]) PROVE AskedBy(items, n + 1, count, env)
  <2>1. A(n + 1) = A(n) /\ H(n + 1) = H(n)
    BY <1>2, <1>3, <1>7, NotUsersIs
  <2> HIDE DEF A, H
  <2> QED
    BY <1>4, <2>1
<1> QED
  BY <1>5, <1>6, <1>7

\* What an item does to the messages and to the calls not yet in a message.
Adds(s, item, r) ==
  \/ item.type # "message" /\ r.messages = s.messages /\ r.pending = s.pending
  \/ /\ IsCall(item) /\ r.messages = s.messages
     /\ \E call : call.id = item.id /\ r.pending = Append(s.pending, call)
  \/ item.type = "output" /\ r.messages = flush(s).messages /\ r.pending = <<>>
  \/ /\ r.pending = <<>>
     /\ \E m : /\ r.messages = Append(flush(s).messages, m)
               /\ \/ /\ item.type = "message"
                     /\ m = ChatMessage(normalizeRole(item.role, item.body), item.body, item.blocks)
                  \/ item.type # "message" /\ \E body : m = ChatMessage("system", body, <<>>)
                  \/ item.type = "output" /\ \E body : m = ToolMessage(item.id, body, item.blocks)

LEMMA ConvertAdds ==
  ASSUME NEW s, IsReading(s), NEW item, NEW settings, NEW registry, NEW calls,
         NEW r, r = convertItem(s, item, settings, registry, calls)
  PROVE  Adds(s, item, r)
<1>1. CASE item.type = "message"
  BY <1>1, ConvertMessage DEF Adds, Says
<1>2. CASE item.type = "output"
  <2>1. \/ r = s \/ r = flush(s)
        \/ \E body : Says(s, r, ChatMessage("system", body, <<>>))
        \/ \E body : Says(s, r, ToolMessage(item.id, body, item.blocks))
    BY <1>2, ConvertOutput
  <2>2. CASE r = s
    BY <1>2, <2>2 DEF Adds
  <2>3. CASE r = flush(s)
    BY <1>2, <2>3, FlushFields DEF Adds
  <2>4. CASE \E body : Says(s, r, ChatMessage("system", body, <<>>))
    BY <1>2, <2>4 DEF Adds, Says
  <2>5. CASE \E body : Says(s, r, ToolMessage(item.id, body, item.blocks))
    BY <1>2, <2>5 DEF Adds, Says
  <2> QED
    BY <2>1, <2>2, <2>3, <2>4, <2>5
<1>3. CASE item.type = "reasoning"
  <2>1. r = [s EXCEPT !.reasoning = item.text] \/ r = s
    BY <1>3, ConvertReasoning
  <2>2. r.messages = s.messages /\ r.pending = s.pending
    BY <2>1 DEF IsReading
  <2> QED
    BY <1>3, <2>2 DEF Adds
<1>4. CASE IsCall(item)
  <2>1. item.type # "message"
    BY <1>4, CallIsNoMessage
  <2>2. CASE r = [s EXCEPT !.hidden = @ \cup {item.id}]
    <3>1. r.messages = s.messages /\ r.pending = s.pending
      BY <2>2 DEF IsReading
    <3> QED
      BY <2>1, <3>1 DEF Adds
  <2>3. CASE HidesEdit(s, item, r)
    BY <2>1, <2>3 DEF HidesEdit, Says, Adds
  <2>4. CASE \E call : call.id = item.id /\ r = showCall(s, call)
    <3>1. PICK call : call.id = item.id /\ r = showCall(s, call)
      BY <2>4
    <3>2. showCall(s, call).messages = s.messages /\ showCall(s, call).pending = Append(s.pending, call)
      BY ShowCallFields
    <3>3. r.messages = s.messages /\ r.pending = Append(s.pending, call)
      BY ONLY <3>1, <3>2
    <3> QED
      BY <1>4, <3>1, <3>3 DEF Adds
  <2> QED
    BY <1>4, <2>2, <2>3, <2>4, ConvertCall
<1>5. CASE ~IsCall(item) /\ item.type \notin {"message", "output", "reasoning"}
  <2>1. r = s
    BY <1>5, ConvertOther
  <2> QED
    BY <1>5, <2>1 DEF Adds
<1> QED
  BY <1>1, <1>2, <1>3, <1>4, <1>5

\* What holds of a reading of the first n items.
SeenBy(s, items, n) ==
  /\ \E count, env : AskedBy(items, n, count, env) /\ SeenIn(s.messages, count, env)
  /\ HeldByUser(s.messages, items)
  /\ MessagesApart(s.messages) /\ CallsApart(s.pending)
  /\ \A k \in DOMAIN s.pending : \E i \in 1..n : IsCall(items[i]) /\ items[i].id = s.pending[k].id

LEMMA ChatMessageFields ==
  ASSUME NEW role, NEW body, NEW blocks
  PROVE  /\ ChatMessage(role, body, blocks).role = role /\ ChatMessage(role, body, blocks).body = body
         /\ ChatMessage(role, body, blocks).blocks = blocks /\ ChatMessage(role, body, blocks).calls = <<>>
         /\ ChatMessage(role, body, blocks).reasoning = NoReasoning
         /\ ChatMessage(role, body, blocks).answers = 0
BY DEF ChatMessage

LEMMA ApartLonger ==
  ASSUME NEW messages, NEW whole, NEW m, LongerBy(whole, messages, m), NEW items,
         MessagesApart(messages), HeldByUser(messages, items), CallsApart(m.calls),
         m.blocks # <<>> => m.role = "user" \/ Quoting(items)
  PROVE  MessagesApart(whole) /\ HeldByUser(whole, items)
<1>1. \A k \in DOMAIN whole : (k \in DOMAIN messages /\ whole[k] = messages[k]) \/ whole[k] = m
  BY LongerDomain
<1> QED
  BY <1>1 DEF MessagesApart, HeldByUser, Holders

LEMMA FlushSeen ==
  ASSUME NEW s, GoodReading(s), NEW items, NEW n, SeenBy(s, items, n)
  PROVE  SeenBy(flush(s), items, n)
<1> DEFINE f == flush(s)
           m == CallsMessage(s.reasoning, s.pending)
<1>1. f.pending = <<>> /\ (f.messages = s.messages \/ f.messages = Append(s.messages, m))
  BY FlushFields DEF GoodReading
<1>2. m.role # "user" /\ m.blocks = <<>> /\ m.calls = s.pending
  BY CallsMessageFields
<1> HIDE DEF f, m
<1>3. CASE f.messages = s.messages
  BY <1>1, <1>3, NoneSequence DEF SeenBy, CallsApart, f
<1>4. CASE f.messages = Append(s.messages, m)
  <2>1. LongerBy(f.messages, s.messages, m)
    BY <1>4, AppendLonger DEF GoodReading, GoodMessages
  <2>2. \E count, env : AskedBy(items, n, count, env) /\ SeenIn(f.messages, count, env)
    BY <1>2, <2>1, SeenQuiet DEF SeenBy
  <2>3. MessagesApart(f.messages) /\ HeldByUser(f.messages, items)
    BY <1>2, <2>1, ApartLonger DEF SeenBy
  <2> QED
    BY <1>1, <2>2, <2>3, NoneSequence DEF SeenBy, CallsApart, f
<1> QED
  BY <1>1, <1>3, <1>4

LEMMA ConvertSeen ==
  ASSUME NEW items, GoodItems(items), CallsOnce(items), \A i \in DOMAIN items : UserItem(items[i]),
         NEW n \in Nat, n + 1 \in DOMAIN items, NEW s, GoodReading(s), SeenBy(s, items, n),
         NEW settings, NEW registry, NEW calls,
         NEW r, r = convertItem(s, items[n + 1], settings, registry, calls)
  PROVE  SeenBy(r, items, n + 1)
<1> DEFINE item == items[n + 1]
           f == flush(s)
<1>1. Adds(s, item, r)
  BY ConvertAdds DEF GoodReading
<1>2. /\ \A i \in 1..n : i \in 1 .. n + 1 /\ i \in DOMAIN items /\ i # n + 1
      /\ n + 1 \in 1 .. n + 1
  <2>1. DOMAIN items = 1 .. Len(items) /\ Len(items) \in Nat
    BY SequenceFacts DEF GoodItems
  <2> QED
    BY <2>1
<1>3. UserItem(item) /\ GoodItem(item)
  BY DEF GoodItems
<1>4. SeenBy(f, items, n) /\ f.pending = <<>> /\ IsSequence(f.messages)
  BY FlushSeen, FlushFields, FlushGood DEF GoodReading, GoodMessages
<1> HIDE DEF item, f
<1>5. ASSUME item.type # "message", NEW t, SeenBy(t, items, n)
      PROVE  \E count, env : AskedBy(items, n + 1, count, env) /\ SeenIn(t.messages, count, env)
  <2>1. NotUsers(item)
    BY <1>5 DEF NotUsers
  <2> QED
    BY <1>5, <2>1, AskedByNext DEF SeenBy, item
<1>6. CASE item.type # "message" /\ r.messages = s.messages /\ r.pending = s.pending
  <2>1. \E count, env : AskedBy(items, n + 1, count, env) /\ SeenIn(r.messages, count, env)
    BY <1>5, <1>6
  <2> QED
    BY <1>2, <1>6, <2>1 DEF SeenBy
<1>7. CASE /\ IsCall(item) /\ r.messages = s.messages
           /\ \E call : call.id = item.id /\ r.pending = Append(s.pending, call)
  <2>1. PICK call : call.id = item.id /\ r.pending = Append(s.pending, call)
    BY <1>7
  <2>2. LongerBy(r.pending, s.pending, call)
    BY <2>1, AppendLonger DEF GoodReading
  <2>3. \E count, env : AskedBy(items, n + 1, count, env) /\ SeenIn(r.messages, count, env)
    BY <1>5, <1>7, CallIsNoMessage
  <2>4. \A k \in DOMAIN s.pending : s.pending[k].id # call.id
    <3> TAKE k \in DOMAIN s.pending
    <3>1. PICK i \in 1..n : IsCall(items[i]) /\ items[i].id = s.pending[k].id
      BY DEF SeenBy
    <3> QED
      BY <1>2, <1>7, <2>1, <3>1 DEF CallsOnce, item
  <2>5. CallsApart(r.pending)
    BY <2>2, <2>4, LongerDomain DEF CallsApart, SeenBy
  <2>6. \A k \in DOMAIN r.pending : (k \in DOMAIN s.pending /\ r.pending[k] = s.pending[k]) \/ r.pending[k] = call
    BY <2>2, LongerDomain
  <2>7. \A k \in DOMAIN r.pending : \E i \in 1 .. n + 1 : IsCall(items[i]) /\ items[i].id = r.pending[k].id
    BY <1>2, <1>7, <2>1, <2>6 DEF SeenBy, item
  <2> QED
    BY <1>7, <2>3, <2>5, <2>7 DEF SeenBy
<1>8. CASE item.type = "output" /\ r.messages = f.messages /\ r.pending = <<>>
  <2>1. \E count, env : AskedBy(items, n + 1, count, env) /\ SeenIn(r.messages, count, env)
    BY <1>4, <1>5, <1>8
  <2> QED
    BY <1>4, <1>8, <2>1, NoneSequence DEF SeenBy, CallsApart
<1>9. ASSUME NEW m, r.pending = <<>>, r.messages = Append(f.messages, m), m.calls = <<>>,
             m.blocks # <<>> => m.role = "user" \/ Quoting(items),
             \E count, env : AskedBy(items, n + 1, count, env) /\ SeenIn(r.messages, count, env)
      PROVE  SeenBy(r, items, n + 1)
  <2>1. LongerBy(r.messages, f.messages, m)
    BY <1>4, <1>9, AppendLonger
  <2>2. CallsApart(m.calls) /\ CallsApart(r.pending)
    BY <1>9, NoneSequence DEF CallsApart
  <2>3. MessagesApart(r.messages) /\ HeldByUser(r.messages, items)
    BY <1>4, <1>9, <2>1, <2>2, ApartLonger DEF SeenBy
  <2> QED
    BY <1>9, <2>2, <2>3, NoneSequence DEF SeenBy
<1>10. ASSUME item.type # "message", NEW m, r.pending = <<>>, r.messages = Append(f.messages, m),
              m.calls = <<>>, m.role # "user", m.blocks # <<>> => Quoting(items)
       PROVE  SeenBy(r, items, n + 1)
  <2>1. LongerBy(r.messages, f.messages, m)
    BY <1>4, <1>10, AppendLonger
  <2>2. PICK count, env : AskedBy(items, n + 1, count, env) /\ SeenIn(f.messages, count, env)
    BY <1>4, <1>5, <1>10
  <2>3. SeenIn(r.messages, count, env)
    BY <1>10, <2>1, <2>2, SeenQuiet
  <2> QED
    BY <1>9, <1>10, <2>2, <2>3
<1>11. CASE item.type # "message" /\ r.pending = <<>>
            /\ \E m : r.messages = Append(f.messages, m)
                      /\ \/ \E body : m = ChatMessage("system", body, <<>>)
                         \/ item.type = "output" /\ \E body : m = ToolMessage(item.id, body, item.blocks)
  <2>1. PICK m : r.messages = Append(f.messages, m)
                 /\ \/ \E body : m = ChatMessage("system", body, <<>>)
                    \/ item.type = "output" /\ \E body : m = ToolMessage(item.id, body, item.blocks)
    BY <1>11
  <2>2. CASE \E body : m = ChatMessage("system", body, <<>>)
    <3>1. m.role # "user" /\ m.calls = <<>> /\ m.blocks = <<>>
      BY <2>2, ChatMessageFields
    <3> QED
      BY <1>10, <1>11, <2>1, <3>1
  <2>3. CASE item.type = "output" /\ \E body : m = ToolMessage(item.id, body, item.blocks)
    <3>1. m.role # "user" /\ m.calls = <<>> /\ m.blocks = item.blocks
      BY <2>3, ToolMessageFields
    <3>2. m.blocks # <<>> => Quoting(items)
      BY <2>3, <3>1 DEF Quoting, item
    <3> QED
      BY <1>10, <1>11, <2>1, <3>1, <3>2
  <2> QED
    BY <2>1, <2>2, <2>3
<1>12. CASE item.type = "message" /\ r.pending = <<>>
            /\ r.messages = Append(f.messages, ChatMessage(normalizeRole(item.role, item.body), item.body, item.blocks))
  <2> DEFINE m == ChatMessage(normalizeRole(item.role, item.body), item.body, item.blocks)
  <2>1. /\ m.role = normalizeRole(item.role, item.body) /\ m.body = item.body /\ m.blocks = item.blocks
        /\ m.calls = <<>> /\ r.messages = Append(f.messages, m)
    BY <1>12, ChatMessageFields
  <2>2. m.role = "user" <=> item.role = "user" /\ "# AGENTS.md instructions" \notin item.body
    <3>1. item.role \in {"developer", "user", "assistant"}
      BY <1>3, <1>12 DEF GoodItem
    <3> QED
      BY <2>1, <3>1, normalizeRoleOf
  <2> HIDE DEF m
  <2>3. LongerBy(r.messages, f.messages, m)
    BY <1>4, <2>1, AppendLonger
  <2>4. PICK count, env : AskedBy(items, n, count, env) /\ SeenIn(f.messages, count, env)
    BY <1>4 DEF SeenBy
  <2>5. count \in Nat
    BY <2>4 DEF AskedBy
  <2>6. CASE item = AskItem
    <3>1. m.role = "user" /\ "ask" \in m.body /\ m.blocks = <<>>
      BY <2>1, <2>2, <2>6, AskItemIs
    <3>2. SeenIn(r.messages, count + 1, env)
      BY <2>3, <2>4, <2>5, <3>1, SeenMore
    <3>3. AskedBy(items, n + 1, count + 1, env)
      BY <2>4, <2>6, AskedByNext DEF item
    <3> QED
      BY <1>9, <1>12, <2>1, <3>1, <3>2, <3>3
  <2>7. CASE item.role = "user" /\ item.body = {} /\ \E e \in Nat \ {0} : item.blocks = <<e>>
    <3>1. PICK e \in Nat \ {0} : item.blocks = <<e>>
      BY <2>7
    <3>2. m.role = "user" /\ "ask" \notin m.body /\ m.blocks = <<e>> /\ item # AskItem
      BY <2>1, <2>2, <2>7, <3>1, AskItemIs
    <3>3. SeenIn(r.messages, count, e)
      BY <2>3, <2>4, <2>5, <3>2, SeenMore
    <3>4. AskedBy(items, n + 1, count, e)
      BY <1>12, <2>4, <3>1, <3>2, AskedByNext DEF item
    <3> QED
      BY <1>9, <1>12, <2>1, <3>2, <3>3, <3>4
  <2>8. CASE item.role # "user" /\ item.blocks = <<>>
    <3>1. NotUsers(item) /\ m.role # "user" /\ m.blocks = <<>>
      BY <2>1, <2>2, <2>8 DEF NotUsers
    <3>2. SeenIn(r.messages, count, env)
      BY <2>3, <2>4, <3>1, SeenQuiet
    <3>3. AskedBy(items, n + 1, count, env)
      BY <2>4, <3>1, AskedByNext DEF item
    <3> QED
      BY <1>9, <1>12, <2>1, <3>1, <3>2, <3>3
  <2> QED
    BY <1>3, <1>12, <2>6, <2>7, <2>8 DEF UserItem
<1> QED
  BY <1>1, <1>6, <1>7, <1>8, <1>11, <1>12 DEF Adds, f

LEMMA NothingSeen ==
  ASSUME NEW items
  PROVE  SeenBy(NothingRead, items, 0)
<1>1. NothingRead.messages = <<>> /\ NothingRead.pending = <<>>
  BY DEF NothingRead
<1>2. 1..0 = {}
  OBVIOUS
<1>3. AskedBy(items, 0, 0, 0)
  BY <1>2, FS_EmptySet DEF AskedBy
<1>4. SeenIn(NothingRead.messages, 0, 0)
  <2>1. AsksShown(<<>>) = {} /\ UserHolders(<<>>) = {}
    BY NoneSequence DEF AsksShown, UserHolders, Holders
  <2> QED
    BY <1>1, <2>1, FS_EmptySet DEF SeenIn
<1>5. \E count, env : AskedBy(items, 0, count, env) /\ SeenIn(NothingRead.messages, count, env)
  BY <1>3, <1>4
<1> QED
  BY <1>1, <1>5, NoneSequence DEF SeenBy, HeldByUser, Holders, MessagesApart, CallsApart

LEMMA ReadingsSeen ==
  ASSUME NEW items, GoodItems(items), CallsOnce(items), \A i \in DOMAIN items : UserItem(items[i]),
         NEW settings, NEW registry, NEW calls
  PROVE  \A n \in 0 .. Len(items) : SeenBy(Readings(items, settings, registry, calls)[n], items, n)
<1> DEFINE read == Readings(items, settings, registry, calls)
           G == {n \in Nat : n <= Len(items) => SeenBy(read[n], items, n)}
<1>0. Len(items) \in Nat /\ DOMAIN items = 1 .. Len(items)
  BY SequenceFacts DEF GoodItems
<1>1. read[0] = NothingRead
      /\ \A n \in 1 .. Len(items) : read[n] = convertItem(read[n - 1], items[n], settings, registry, calls)
  BY <1>0, ReadingsLoop
<1>5. \A n \in 0 .. Len(items) : GoodReading(read[n])
  BY ReadingsGood
<1> HIDE DEF read
<1>2. 0 \in G
  BY <1>1, NothingSeen
<1>3. ASSUME NEW n \in Nat, n \in G PROVE n + 1 \in G
  <2> SUFFICES ASSUME n + 1 <= Len(items) PROVE SeenBy(read[n + 1], items, n + 1)
    OBVIOUS
  <2>1. n + 1 \in 1 .. Len(items) /\ (n + 1) - 1 = n /\ SeenBy(read[n], items, n)
        /\ n \in 0 .. Len(items)
    BY <1>0, <1>3
  <2>2. read[n + 1] = convertItem(read[n], items[n + 1], settings, registry, calls) /\ GoodReading(read[n])
    BY <1>1, <1>5, <2>1
  <2> QED
    BY <1>0, <2>1, <2>2, ConvertSeen
<1>4. Nat \subseteq G
  <2> HIDE DEF G
  <2> QED
    BY <1>2, <1>3, SetInduction
<1> QED
  BY <1>0, <1>4 DEF read

\* Where contexts and requests are after pieces have been joined.
LEMMA FlattenHolders ==
  ASSUME NEW ss, IsSequence(ss), \A i \in DOMAIN ss : GoodMessages(ss[i]),
         NEW whole, whole = FlattenSeq(ss)
  PROVE  /\ \A p \in DOMAIN whole : \E i \in DOMAIN ss : \E j \in DOMAIN ss[i] : whole[p] = ss[i][j]
         /\ \A i \in DOMAIN ss : \A j \in Holders(ss[i]) : \E p \in Holders(whole) : whole[p] = ss[i][j]
         /\ (\A i, k \in DOMAIN ss : \A j \in Holders(ss[i]), l \in Holders(ss[k]) : i = k /\ j = l)
              => \A p, q \in Holders(whole) : p = q
<1>1. \A i \in DOMAIN ss : IsSequence(ss[i])
  BY DEF GoodMessages
<1>2. PICK off : Placed(ss, whole, off)
  BY <1>1, FlattenPlaced
<1>3. \A p \in DOMAIN whole : \E i \in DOMAIN ss : \E j \in DOMAIN ss[i] :
        p = off[i - 1] + j /\ whole[p] = ss[i][j]
  BY <1>2 DEF Placed
<1>4. ASSUME NEW i \in DOMAIN ss, NEW j \in Holders(ss[i])
      PROVE  \E p \in Holders(whole) : whole[p] = ss[i][j]
  <2>1. off[i - 1] + j \in DOMAIN whole /\ whole[off[i - 1] + j] = ss[i][j]
    BY <1>2 DEF Placed, Holders
  <2> QED
    BY <2>1 DEF Holders
<1>5. ASSUME \A i, k \in DOMAIN ss : \A j \in Holders(ss[i]), l \in Holders(ss[k]) : i = k /\ j = l,
             NEW p \in Holders(whole), NEW q \in Holders(whole)
      PROVE  p = q
  <2>1. PICK i \in DOMAIN ss : \E j \in DOMAIN ss[i] : p = off[i - 1] + j /\ whole[p] = ss[i][j]
    BY <1>3 DEF Holders
  <2>2. PICK j \in DOMAIN ss[i] : p = off[i - 1] + j /\ whole[p] = ss[i][j]
    BY <2>1
  <2>3. PICK k \in DOMAIN ss : \E l \in DOMAIN ss[k] : q = off[k - 1] + l /\ whole[q] = ss[k][l]
    BY <1>3 DEF Holders
  <2>4. PICK l \in DOMAIN ss[k] : q = off[k - 1] + l /\ whole[q] = ss[k][l]
    BY <2>3
  <2>5. j \in Holders(ss[i]) /\ l \in Holders(ss[k])
    BY <2>2, <2>4 DEF Holders
  <2> QED
    BY <1>5, <2>2, <2>4, <2>5
<1> QED
  BY <1>3, <1>4, <1>5

LEMMA FlattenAsks ==
  ASSUME NEW ss, IsSequence(ss), \A i \in DOMAIN ss : GoodMessages(ss[i]),
         NEW whole, whole = FlattenSeq(ss), NEW Q \in SUBSET DOMAIN ss,
         \A i \in Q : DOMAIN ss[i] = {1} /\ AsksFor(ss[i][1]),
         \A i \in DOMAIN ss \ Q : \A j \in DOMAIN ss[i] : ~AsksFor(ss[i][j])
  PROVE  Cardinality(AsksShown(whole)) = Cardinality(Q)
<1> DEFINE E == {ss[i][1] : i \in Q}
<1>1. \A i \in DOMAIN ss : IsSequence(ss[i])
  BY DEF GoodMessages
<1>2. \A e \in E : AsksFor(e)
  OBVIOUS
<1>3. \A i \in Q : ss[i][1] \in E
  OBVIOUS
<1>4. AsksShown(whole) = {k \in DOMAIN whole : whole[k] \in E}
  <2>1. ASSUME NEW k \in DOMAIN whole, AsksFor(whole[k]) PROVE whole[k] \in E
    <3>1. PICK i \in DOMAIN ss : \E j \in DOMAIN ss[i] : whole[k] = ss[i][j]
      BY FlattenHolders
    <3>2. PICK j \in DOMAIN ss[i] : whole[k] = ss[i][j]
      BY <3>1
    <3>3. i \in Q
      BY <2>1, <3>2
    <3> QED
      BY <3>2, <3>3
  <2> HIDE DEF E
  <2> QED
    BY <1>2, <2>1 DEF AsksShown
<1> HIDE DEF E
<1>5. \A i \in DOMAIN ss \ Q : \A j \in DOMAIN ss[i] : ss[i][j] \notin E
  BY <1>2
<1>6. Cardinality({k \in DOMAIN whole : whole[k] \in E}) = Cardinality(Q)
  <2>1. Q \in SUBSET DOMAIN ss /\ IsSequence(ss) /\ whole = FlattenSeq(ss)
    OBVIOUS
  <2>2. \A i \in Q : DOMAIN ss[i] = {1} /\ ss[i][1] \in E
    BY <1>3
  <2> QED
    BY ONLY <1>1, <1>5, <2>1, <2>2, FlattenCount
<1> QED
  BY <1>4, <1>6

\* One context at most is in the texts.
Single(messages) ==
  /\ \A p, q \in Holders(messages) : p = q
  /\ \A p \in Holders(messages) : \E e : messages[p].blocks = <<e>>

LEMMA SingleShort ==
  ASSUME NEW messages, GoodMessages(messages), Single(messages)
  PROVE  Len(Contexts(messages)) <= 1
<1>1. CASE Holders(messages) = {}
  <2>1. Contexts(messages) = <<>>
    BY <1>1, ContextsOfNone
  <2> QED
    BY <2>1
<1>2. CASE Holders(messages) # {}
  <2>1. PICK h \in Holders(messages) : TRUE
    BY <1>2
  <2>2. Holders(messages) = {h}
    BY <2>1 DEF Single
  <2>3. PICK e : messages[h].blocks = <<e>>
    BY <2>1 DEF Single
  <2>4. Contexts(messages) = <<e>>
    BY <2>2, <2>3, ContextsOfOne
  <2> QED
    BY <2>4
<1> QED
  BY <1>1, <1>2

LEMMA ShortSingle ==
  ASSUME NEW messages, GoodMessages(messages), Len(Contexts(messages)) <= 1
  PROVE  Single(messages)
BY ContextsShort DEF Single

\* The texts hold the one context of env, or none.
Latest(messages, env) ==
  /\ env = 0 => Holders(messages) = {}
  /\ env # 0 => \E h : Holders(messages) = {h} /\ messages[h].blocks = <<env>> /\ messages[h].role = "user"

LEMMA SeenSingle ==
  ASSUME NEW messages, Single(messages), NEW count, NEW env, SeenIn(messages, count, env),
         \A p \in Holders(messages) : messages[p].role = "user"
  PROVE  Latest(messages, env)
<1>1. UserHolders(messages) = Holders(messages)
  BY DEF UserHolders
<1>2. ASSUME env # 0
      PROVE  \E h : Holders(messages) = {h} /\ messages[h].blocks = <<env>> /\ messages[h].role = "user"
  <2>1. PICK h \in Holders(messages) : messages[h].blocks = <<env>>
    BY <1>1, <1>2 DEF SeenIn
  <2>2. Holders(messages) = {h}
    BY <2>1 DEF Single
  <2> QED
    BY <2>1, <2>2
<1> QED
  BY <1>1, <1>2 DEF Latest, SeenIn

LEMMA KeepSeen ==
  ASSUME NEW messages, GoodMessages(messages), NEW count, NEW env, SeenIn(messages, count, env),
         MessagesApart(messages), NEW items, HeldByUser(messages, items),
         NEW kept, kept = keepLatestEnvironmentContext(messages)
  PROVE  /\ GoodMessages(kept) /\ Single(kept) /\ Cardinality(AsksShown(kept)) = count
         /\ MessagesApart(kept) /\ (~Quoting(items) => Latest(kept, env))
<1>0. GoodMessages(kept)
  BY KeepGood
<1>1. CASE Len(Contexts(messages)) <= 1
  <2>1. kept = messages
    BY <1>1 DEF keepLatestEnvironmentContext
  <2>2. Single(messages)
    BY <1>1, ShortSingle
  <2>3. ~Quoting(items) => Latest(messages, env)
    BY <2>2, SeenSingle DEF HeldByUser
  <2> QED
    BY <1>0, <2>1, <2>2, <2>3 DEF SeenIn
<1>2. CASE ~(Len(Contexts(messages)) <= 1)
  <2> DEFINE L == Max(Holders(messages))
             last == <<Last(messages[L].blocks)>>
             ss == [i \in DOMAIN messages |-> keptMessage(messages, i)]
  <2>1. kept = FlattenSeq(ss)
    BY <1>2 DEF keepLatestEnvironmentContext
  <2>2. Holders(messages) # {}
    BY <1>2, ContextsHeld, SequenceFacts
  <2>3. L \in Holders(messages) /\ L \in DOMAIN messages /\ \A i \in Holders(messages) : i <= L
    BY <2>2, LastHolder DEF Holders
  <2>4. /\ IsSequence(ss) /\ DOMAIN ss = DOMAIN messages
        /\ \A i \in DOMAIN ss : ss[i] = keptMessage(messages, i) /\ GoodMessages(ss[i])
    BY <2>2, KeptPieces
  <2>5. ASSUME NEW i \in DOMAIN messages
        PROVE  \/ ss[i] = <<>> /\ messages[i].role = "user" /\ messages[i].body = {} /\ i # L
               \/ \E k : /\ ss[i] = <<k>> /\ k.role = messages[i].role /\ k.body = messages[i].body
                         /\ k.calls = messages[i].calls
                         /\ k.blocks = IF i = L THEN last ELSE <<>>
    <3> DEFINE b == IF i = L THEN <<Last(messages[i].blocks)>> ELSE <<>>
    <3>1. b = IF i = L THEN last ELSE <<>>
      OBVIOUS
    <3>2. i = L => b # <<>>
      OBVIOUS
    <3>3. IsMessage(messages[i])
      BY DEF GoodMessages, GoodMessage
    <3> HIDE DEF last, b
    <3>4. \/ /\ keptMessage(messages, i) = <<>> /\ b = <<>>
             /\ messages[i].role = "user" /\ messages[i].body = {}
          \/ \E k : /\ keptMessage(messages, i) = <<k>> /\ k = [messages[i] EXCEPT !.blocks = b]
                    /\ GoodMessage(k)
      BY <2>2, Kept DEF b
    <3>5. CASE keptMessage(messages, i) = <<>> /\ b = <<>>
               /\ messages[i].role = "user" /\ messages[i].body = {}
      BY <3>2, <3>5
    <3>6. CASE \E k : keptMessage(messages, i) = <<k>> /\ k = [messages[i] EXCEPT !.blocks = b]
      <4>1. PICK k : keptMessage(messages, i) = <<k>> /\ k = [messages[i] EXCEPT !.blocks = b]
        BY <3>6
      <4>2. k.role = messages[i].role /\ k.body = messages[i].body /\ k.calls = messages[i].calls /\ k.blocks = b
        BY <3>3, <4>1, BlocksChanged
      <4> QED
        BY <3>1, <4>1, <4>2
    <3> QED
      BY <3>4, <3>5, <3>6
  <2> HIDE DEF L, last, ss
  <2>6. \A i \in DOMAIN ss : \A j \in DOMAIN ss[i] :
          /\ j = 1 /\ ss[i] # <<>> /\ DOMAIN ss[i] = {1}
          /\ ss[i][j].role = messages[i].role /\ ss[i][j].body = messages[i].body
          /\ ss[i][j].calls = messages[i].calls /\ ss[i][j].blocks = IF i = L THEN last ELSE <<>>
    <3> TAKE i \in DOMAIN ss
    <3> TAKE j \in DOMAIN ss[i]
    <3>1. ss[i] # <<>>
      BY NoneSequence
    <3>2. PICK k : /\ ss[i] = <<k>> /\ k.role = messages[i].role /\ k.body = messages[i].body
                   /\ k.calls = messages[i].calls /\ k.blocks = IF i = L THEN last ELSE <<>>
      BY <2>4, <2>5, <3>1
    <3>3. DOMAIN ss[i] = {1} /\ ss[i][1] = k
      BY <3>2, OneDomain, OneAny
    <3> QED
      BY <3>1, <3>2, <3>3
  <2>7. \A i \in DOMAIN ss : ss[i] # <<>> => 1 \in DOMAIN ss[i]
    <3> TAKE i \in DOMAIN ss
    <3> HAVE ss[i] # <<>>
    <3>1. \E k : ss[i] = <<k>>
      BY <2>4, <2>5
    <3> QED
      BY <3>1, OneDomain
  <2>8. Cardinality(AsksShown(kept)) = count
    <3> DEFINE Q == AsksShown(messages)
    <3>1. Q \in SUBSET DOMAIN ss
      BY <2>4 DEF AsksShown
    <3>2. \A i \in Q : DOMAIN ss[i] = {1} /\ AsksFor(ss[i][1])
      <4> TAKE i \in Q
      <4>1. i \in DOMAIN messages /\ AsksFor(messages[i])
        BY DEF AsksShown
      <4>2. ss[i] # <<>>
        BY <2>5, <4>1 DEF AsksFor
      <4>3. 1 \in DOMAIN ss[i]
        BY <2>4, <2>7, <4>1, <4>2
      <4> QED
        BY <2>4, <2>6, <4>1, <4>3 DEF AsksFor
    <3>3. \A i \in DOMAIN ss \ Q : \A j \in DOMAIN ss[i] : ~AsksFor(ss[i][j])
      BY <2>4, <2>6 DEF AsksShown, AsksFor
    <3> HIDE DEF Q
    <3>4. Cardinality(AsksShown(kept)) = Cardinality(Q)
      BY <2>1, <2>4, <3>1, <3>2, <3>3, FlattenAsks
    <3> QED
      BY <3>4 DEF Q, SeenIn
  <2>9. \A p \in DOMAIN kept : \E i \in DOMAIN ss : \E j \in DOMAIN ss[i] : kept[p] = ss[i][j]
    BY <2>1, <2>4, FlattenHolders
  <2>10. MessagesApart(kept)
    BY <2>4, <2>6, <2>9 DEF MessagesApart
  <2>11. \A i \in DOMAIN ss : \A j \in Holders(ss[i]) : i = L /\ j = 1
    BY <2>6 DEF Holders
  <2>12. \A p, q \in Holders(kept) : p = q
    BY <2>1, <2>4, <2>11, FlattenHolders
  <2>13. last # <<>> /\ last = <<last[1]>>
    BY DEF last
  <2>14. 1 \in Holders(ss[L])
    <3>1. ss[L] # <<>>
      BY <2>3, <2>5
    <3> QED
      BY <2>3, <2>4, <2>6, <2>7, <2>13, <3>1 DEF Holders
  <2>15. PICK h \in Holders(kept) : kept[h] = ss[L][1]
    BY <2>1, <2>3, <2>4, <2>14, FlattenHolders
  <2>16. Holders(kept) = {h} /\ kept[h].blocks = last /\ kept[h].role = messages[L].role
    BY <2>3, <2>4, <2>6, <2>12, <2>14, <2>15 DEF Holders
  <2>17. Single(kept)
    BY <2>12, <2>13, <2>16 DEF Single
  <2>18. ASSUME ~Quoting(items) PROVE Latest(kept, env)
    <3>1. \A p \in Holders(messages) : messages[p].role = "user"
      BY <2>18 DEF HeldByUser
    <3>2. UserHolders(messages) = Holders(messages)
      BY <3>1 DEF UserHolders
    <3>3. env # 0
      BY <2>2, <3>2 DEF SeenIn
    <3>4. PICK g \in Holders(messages) : messages[g].blocks = <<env>> /\ \A k \in Holders(messages) : k <= g
      BY <3>2, <3>3 DEF SeenIn
    <3>5. DOMAIN messages = 1 .. Len(messages) /\ Len(messages) \in Nat
      BY SequenceFacts DEF GoodMessages
    <3>6. g = L
      BY <2>3, <3>4, <3>5 DEF Holders
    <3>7. last = <<env>>
      <4>1. Last(<<env>>) = env
        BY DEF Last
      <4> QED
        BY <3>4, <3>6, <4>1 DEF last
    <3> QED
      BY <2>3, <2>16, <3>1, <3>3, <3>7 DEF Latest
  <2> QED
    BY <1>0, <2>8, <2>10, <2>17, <2>18
<1> QED
  BY <1>1, <1>2

\* The places of a call with its answer.
LEMMA PairHolders ==
  ASSUME NEW messages, GoodMessages(messages), NEW i \in DOMAIN messages, NEW k \in DOMAIN messages[i].calls,
         NEW j \in Holders(pairs(messages, i)[k])
  PROVE  \E h \in Holders(messages) :
           /\ j = 2 /\ pairs(messages, i)[k][j] = messages[h]
           /\ messages[h].role = "tool" /\ messages[h].answers = messages[i].calls[k].id
           /\ h \in candidates(messages, i)
<1> DEFINE pair == pairs(messages, i)[k]
           call == messages[i].calls[k]
<1>1. DOMAIN pair = {1, 2} /\ pair[1].blocks = <<>> /\ pair[2] = pairedToolMessage(call, messages, i)
  BY PairsOf
<1>2. j = 2 /\ pair[2].blocks # <<>>
  BY <1>1 DEF Holders
<1>3. \/ pair[2] = ToolMessage(call.id, NoResult, <<>>)
      \/ /\ pair[2] = messages[Max(Mine(call, messages, i))]
         /\ Max(Mine(call, messages, i)) \in Mine(call, messages, i)
  BY <1>1, Paired
<1>4. ToolMessage(call.id, NoResult, <<>>).blocks = <<>>
  BY ToolMessageFields
<1> HIDE DEF pair, call
<1>5. PICK h \in Mine(call, messages, i) : pair[2] = messages[h]
  BY <1>2, <1>3, <1>4
<1>6. h \in DOMAIN messages /\ messages[h].role = "tool" /\ messages[h].answers = call.id
  BY <1>5, MineIn
<1>7. h \in candidates(messages, i) /\ h \in Holders(messages)
  BY <1>2, <1>5, <1>6 DEF Mine, Holders
<1> QED
  BY <1>2, <1>5, <1>6, <1>7 DEF pair, call

\* The answers right behind two messages with calls are not the same.
LEMMA CandidatesApart ==
  ASSUME NEW messages, GoodMessages(messages), NEW i \in DOMAIN messages, NEW p \in DOMAIN messages,
         messages[i].role # "tool", messages[p].role # "tool",
         NEW j, j \in candidates(messages, i), j \in candidates(messages, p)
  PROVE  i = p
<1>1. DOMAIN messages = 1 .. Len(messages) /\ Len(messages) \in Nat
  BY SequenceFacts DEF GoodMessages
<1>2. j \in i + 1 .. Len(messages) /\ j \in p + 1 .. Len(messages)
      /\ (\A k \in i + 1 .. j : messages[k].role = "tool")
      /\ (\A k \in p + 1 .. j : messages[k].role = "tool")
  BY DEF candidates
<1>3. ~(i < p) /\ ~(p < i)
  BY <1>1, <1>2
<1> QED
  BY <1>1, <1>3

\* What stands in the pieces of repaired messages.
LEMMA RepairedElements ==
  ASSUME NEW messages, GoodMessages(messages), NEW i \in DOMAIN messages, NEW ss,
         ss = repairedMessage(messages, i)
  PROVE  /\ GoodMessages(ss)
         /\ messages[i].calls = <<>> /\ messages[i].role # "tool" => ss = <<messages[i]>>
         /\ \A j \in DOMAIN ss :
              \/ messages[i].calls = <<>> /\ messages[i].role # "tool" /\ j = 1 /\ ss[j] = messages[i]
              \/ messages[i].calls # <<>> /\ \E k \in DOMAIN messages[i].calls :
                   /\ ss[j].role = "assistant" /\ ss[j].calls = <<messages[i].calls[k]>>
              \/ ss[j].role = "tool" /\ ss[j].calls = <<>>
         /\ \A j \in Holders(ss) : \E h \in Holders(messages) :
              /\ ss[j] = messages[h]
              /\ \/ h = i /\ messages[h].role # "tool"
                 \/ messages[h].role = "tool" /\ messages[i].role # "tool" /\ h \in candidates(messages, i)
<1> DEFINE all == [p \in DOMAIN messages |-> repairedMessage(messages, p)]
<1>1. all[i] = ss
  OBVIOUS
<1>2. /\ GoodMessages(ss)
      /\ messages[i].calls # <<>> => ss = FlattenSeq(pairs(messages, i))
      /\ messages[i].calls = <<>> /\ messages[i].role = "tool" => ss = <<>>
      /\ messages[i].calls = <<>> /\ messages[i].role # "tool" => ss = <<messages[i]>>
  <2>1. i \in DOMAIN all
    OBVIOUS
  <2> HIDE DEF all
  <2>2. \A p \in DOMAIN all :
              /\ all[p] = repairedMessage(messages, p) /\ GoodMessages(all[p])
              /\ messages[p].calls # <<>> => all[p] = FlattenSeq(pairs(messages, p))
              /\ messages[p].calls = <<>> /\ messages[p].role = "tool" => all[p] = <<>>
              /\ messages[p].calls = <<>> /\ messages[p].role # "tool" => all[p] = <<messages[p]>>
    BY RepairPieces DEF all
  <2> QED
    BY <1>1, <2>1, <2>2
<1> HIDE DEF all
<1>3. CASE messages[i].calls = <<>> /\ messages[i].role = "tool"
  BY <1>2, <1>3, NoneSequence DEF Holders
<1>4. CASE messages[i].calls = <<>> /\ messages[i].role # "tool"
  <2>1. ss = <<messages[i]>> /\ DOMAIN ss = {1} /\ ss[1] = messages[i]
    BY <1>2, <1>4, OneDomain, OneAny
  <2>2. \A j \in Holders(ss) : j = 1 /\ i \in Holders(messages)
    BY <2>1 DEF Holders
  <2> QED
    BY <1>2, <1>4, <2>1, <2>2
<1>5. CASE messages[i].calls # <<>>
  <2> DEFINE ps == pairs(messages, i)
             calls == messages[i].calls
  <2>1. /\ IsSequence(ps) /\ DOMAIN ps = DOMAIN calls
        /\ \A k \in DOMAIN calls :
              /\ GoodMessages(ps[k]) /\ DOMAIN ps[k] = {1, 2}
              /\ ps[k][1].calls = <<calls[k]>> /\ ps[k][1].role = "assistant"
              /\ ps[k][2] = pairedToolMessage(calls[k], messages, i)
    BY PairsOf
  <2>2. ss = FlattenSeq(ps)
    BY <1>2, <1>5
  <2>3. messages[i].role = "assistant"
    BY <1>5 DEF GoodMessages, GoodMessage
  <2>4. \A k \in DOMAIN calls : ps[k][2].role = "tool" /\ ps[k][2].calls = <<>>
    <3> TAKE k \in DOMAIN calls
    <3> DEFINE t == pairedToolMessage(calls[k], messages, i)
    <3>1. t.role = "tool" /\ t.calls = <<>>
      BY Paired
    <3> QED
      BY <2>1, <3>1
  <2>5. \A k \in DOMAIN ps : \A j \in Holders(ps[k]) : \E h \in Holders(messages) :
           /\ j = 2 /\ ps[k][j] = messages[h]
           /\ messages[h].role = "tool" /\ messages[h].answers = calls[k].id
           /\ h \in candidates(messages, i)
    BY <2>1, PairHolders
  <2> HIDE DEF ps, calls
  <2>6. \A p \in DOMAIN ss : \E k \in DOMAIN ps : \E j \in DOMAIN ps[k] : ss[p] = ps[k][j]
    BY <2>1, <2>2, FlattenHolders
  <2>7. \A j \in DOMAIN ss : \E k \in DOMAIN calls :
            \/ ss[j].role = "assistant" /\ ss[j].calls = <<calls[k]>>
            \/ ss[j].role = "tool" /\ ss[j].calls = <<>>
    <3> TAKE j \in DOMAIN ss
    <3>1. PICK k \in DOMAIN ps : \E l \in DOMAIN ps[k] : ss[j] = ps[k][l]
      BY <2>6
    <3>2. ss[j] = ps[k][1] \/ ss[j] = ps[k][2]
      BY <2>1, <3>1
    <3> QED
      BY <2>1, <2>4, <3>1, <3>2
  <2>8. \A j \in Holders(ss) : \E h \in Holders(messages) :
          ss[j] = messages[h] /\ messages[h].role = "tool" /\ h \in candidates(messages, i)
    <3> TAKE j \in Holders(ss)
    <3>1. PICK k \in DOMAIN ps : \E l \in DOMAIN ps[k] : ss[j] = ps[k][l]
      BY <2>6 DEF Holders
    <3>2. PICK l \in DOMAIN ps[k] : ss[j] = ps[k][l]
      BY <3>1
    <3>3. l \in Holders(ps[k])
      BY <3>2 DEF Holders
    <3> QED
      BY <2>5, <3>2, <3>3
  <2> QED
    BY <1>2, <1>5, <2>3, <2>7, <2>8 DEF calls
<1> QED
  BY <1>3, <1>4, <1>5

LEMMA RepairedSingle ==
  ASSUME NEW messages, GoodMessages(messages), Single(messages), MessagesApart(messages),
         NEW i \in DOMAIN messages, NEW ss, ss = repairedMessage(messages, i)
  PROVE  \A j, l \in Holders(ss) : j = l
<1>1. CASE messages[i].calls = <<>>
  <2>1. \A j \in DOMAIN ss : j = 1 \/ ss[j].role = "tool"
    BY <1>1, RepairedElements
  <2>2. \/ ss = <<messages[i]>> \/ ss = <<>>
    BY <1>1 DEF repairedMessage
  <2> QED
    BY <2>2, OneDomain, NoneSequence DEF Holders
<1>2. CASE messages[i].calls # <<>>
  <2> DEFINE ps == pairs(messages, i)
  <2>1. IsSequence(ps) /\ DOMAIN ps = DOMAIN messages[i].calls
        /\ \A k \in DOMAIN ps : GoodMessages(ps[k])
    BY PairsOf
  <2>2. ss = FlattenSeq(ps)
    BY <1>2 DEF repairedMessage
  <2>3. \A k \in DOMAIN ps : \A j \in Holders(ps[k]) : \E h \in Holders(messages) :
           j = 2 /\ messages[h].answers = messages[i].calls[k].id
    BY <2>1, PairHolders
  <2> HIDE DEF ps
  <2>4. \A k, p \in DOMAIN ps : \A j \in Holders(ps[k]), l \in Holders(ps[p]) : k = p /\ j = l
    <3> TAKE k, p \in DOMAIN ps
    <3> TAKE j \in Holders(ps[k]), l \in Holders(ps[p])
    <3>1. j = 2 /\ l = 2 /\ messages[i].calls[k].id = messages[i].calls[p].id
      BY <2>3 DEF Single
    <3>2. k = p
      BY <2>1, <3>1 DEF MessagesApart, CallsApart
    <3> QED
      BY <3>1, <3>2
  <2> QED
    BY <2>1, <2>2, <2>4, FlattenHolders
<1> QED
  BY <1>1, <1>2

\* Pairing calls and answers keeps the user's requests and the context.
LEMMA RepairSeen ==
  ASSUME NEW messages, GoodMessages(messages), Single(messages), MessagesApart(messages),
         NEW whole, whole = repairToolPairing(messages)
  PROVE  /\ Single(whole) /\ Cardinality(AsksShown(whole)) = Cardinality(AsksShown(messages))
         /\ \A env : Latest(messages, env) => Latest(whole, env)
<1> DEFINE ss == [i \in DOMAIN messages |-> repairedMessage(messages, i)]
<1>1. whole = FlattenSeq(ss)
  BY DEF repairToolPairing
<1>2. IsSequence(ss) /\ DOMAIN ss = DOMAIN messages
      /\ \A i \in DOMAIN ss : ss[i] = repairedMessage(messages, i) /\ GoodMessages(ss[i])
  BY RepairPieces
<1> HIDE DEF ss
<1>3. /\ \A p \in DOMAIN whole : \E i \in DOMAIN ss : \E j \in DOMAIN ss[i] : whole[p] = ss[i][j]
      /\ \A i \in DOMAIN ss : \A j \in Holders(ss[i]) : \E p \in Holders(whole) : whole[p] = ss[i][j]
      /\ (\A i, k \in DOMAIN ss : \A j \in Holders(ss[i]), l \in Holders(ss[k]) : i = k /\ j = l)
              => \A p, q \in Holders(whole) : p = q
  BY <1>1, <1>2, FlattenHolders
<1>4. \A i \in DOMAIN ss : \A j \in Holders(ss[i]) : \E h \in Holders(messages) :
              /\ ss[i][j] = messages[h]
              /\ \/ h = i /\ messages[h].role # "tool"
                 \/ messages[h].role = "tool" /\ messages[i].role # "tool" /\ h \in candidates(messages, i)
  BY <1>2, RepairedElements
<1>5. \A p, q \in Holders(whole) : p = q
  <2> SUFFICES ASSUME NEW i \in DOMAIN ss, NEW k \in DOMAIN ss,
                      NEW j \in Holders(ss[i]), NEW l \in Holders(ss[k])
               PROVE  i = k /\ j = l
    BY <1>3
  <2>1. PICK h \in Holders(messages) :
              \/ h = i /\ messages[h].role # "tool"
              \/ messages[h].role = "tool" /\ messages[i].role # "tool" /\ h \in candidates(messages, i)
    BY <1>4
  <2>2. PICK g \in Holders(messages) :
              \/ g = k /\ messages[g].role # "tool"
              \/ messages[g].role = "tool" /\ messages[k].role # "tool" /\ g \in candidates(messages, k)
    BY <1>4
  <2>3. g = h
    BY DEF Single
  <2>4. i = k
    BY <1>2, <2>1, <2>2, <2>3, CandidatesApart
  <2> QED
    BY <1>2, <2>4, RepairedSingle
<1>6. \A p \in Holders(whole) : \E h \in Holders(messages) : whole[p] = messages[h]
  <2> TAKE p \in Holders(whole)
  <2>1. PICK i \in DOMAIN ss : \E j \in DOMAIN ss[i] : whole[p] = ss[i][j]
    BY <1>3 DEF Holders
  <2>2. PICK j \in DOMAIN ss[i] : whole[p] = ss[i][j]
    BY <2>1
  <2>3. j \in Holders(ss[i])
    BY <2>2 DEF Holders
  <2> QED
    BY <1>4, <2>2, <2>3
<1>7. Single(whole)
  BY <1>5, <1>6 DEF Single
<1>8. ASSUME NEW env, Latest(messages, env) PROVE Latest(whole, env)
  <2>1. CASE env = 0
    BY <1>6, <1>8, <2>1 DEF Latest
  <2>2. CASE env # 0
    <3>1. PICK h : Holders(messages) = {h} /\ messages[h].blocks = <<env>> /\ messages[h].role = "user"
      BY <1>8, <2>2 DEF Latest
    <3>2. h \in DOMAIN messages /\ messages[h].calls = <<>>
      BY <3>1 DEF Holders, GoodMessages, GoodMessage
    <3>3. ss[h] = <<messages[h]>>
      BY <1>2, <3>1, <3>2 DEF repairedMessage
    <3>4. 1 \in Holders(ss[h]) /\ ss[h][1] = messages[h]
      BY <3>1, <3>3, OneDomain DEF Holders
    <3>5. PICK p \in Holders(whole) : whole[p] = messages[h]
      BY <1>2, <1>3, <3>2, <3>4
    <3>6. Holders(whole) = {p}
      BY <1>5
    <3> QED
      BY <2>2, <3>1, <3>5, <3>6 DEF Latest
  <2> QED
    BY <2>1, <2>2
<1>9. Cardinality(AsksShown(whole)) = Cardinality(AsksShown(messages))
  <2> DEFINE Q == AsksShown(messages)
  <2>1. Q \in SUBSET DOMAIN ss
    BY <1>2 DEF AsksShown
  <2>2. \A i \in Q : DOMAIN ss[i] = {1} /\ AsksFor(ss[i][1])
    <3> TAKE i \in Q
    <3>1. i \in DOMAIN messages /\ AsksFor(messages[i]) /\ messages[i].role = "user"
      BY DEF AsksShown, AsksFor
    <3>2. messages[i].calls = <<>>
      BY <3>1 DEF GoodMessages, GoodMessage
    <3>3. ss[i] = <<messages[i]>>
      BY <1>2, <3>1, <3>2 DEF repairedMessage
    <3> QED
      BY <3>1, <3>3, OneDomain
  <2>3. \A i \in DOMAIN ss \ Q : \A j \in DOMAIN ss[i] : ~AsksFor(ss[i][j])
    <3> TAKE i \in DOMAIN ss \ Q
    <3> TAKE j \in DOMAIN ss[i]
    <3>1. ss[i][j] = messages[i] \/ ss[i][j].role \in {"assistant", "tool"}
      BY <1>2, RepairedElements
    <3>2. ~AsksFor(messages[i])
      BY <1>2 DEF AsksShown
    <3> QED
      BY <3>1, <3>2 DEF AsksFor
  <2> HIDE DEF Q
  <2>4. Cardinality(AsksShown(whole)) = Cardinality(Q)
    BY <1>1, <1>2, <2>1, <2>2, <2>3, FlattenAsks
  <2> QED
    BY <2>4 DEF Q
<1> QED
  BY <1>7, <1>8, <1>9

\* All items have been read.
LEMMA AskedAll ==
  ASSUME NEW items, NEW count, NEW env, AskedIn(items, count, env),
         NEW c, NEW e, AskedBy(items, Len(items), c, e)
  PROVE  c = count /\ e = env
<1>1. DOMAIN items = 1 .. Len(items) /\ Len(items) \in Nat
  BY SequenceFacts DEF AskedIn
<1>2. c = count
  BY <1>1 DEF AskedIn, AskedBy, AsksIn
<1> DEFINE held == {i \in 1 .. Len(items) : items[i].type = "message" /\ items[i].blocks # <<>>}
<1>3. HeldIn(items) = held /\ \A h \in held : h \in Nat
  BY <1>1 DEF HeldIn
<1>4. /\ env = 0 => held = {}
      /\ env # 0 => \E h \in held : items[h].blocks = <<env>> /\ \A k \in held : k <= h
      /\ e = 0 => held = {}
      /\ e # 0 => \E h \in held : items[h].blocks = <<e>> /\ \A k \in held : k <= h
  BY <1>3 DEF AskedIn, AskedBy
<1> HIDE DEF held
<1>5. CASE e = 0
  BY <1>2, <1>4, <1>5
<1>6. CASE e # 0
  <2>1. PICK h \in held : items[h].blocks = <<e>> /\ \A k \in held : k <= h
    BY <1>4, <1>6
  <2>2. PICK g \in held : items[g].blocks = <<env>> /\ \A k \in held : k <= g
    BY <1>4, <2>1
  <2>3. g <= h /\ h <= g /\ g \in Nat /\ h \in Nat
    BY <1>3, <2>1, <2>2
  <2>4. <<e>> = <<env>>
    BY <2>1, <2>2, <2>3
  <2>5. <<e>>[1] = e /\ <<env>>[1] = env
    OBVIOUS
  <2> QED
    BY <1>2, <2>4, <2>5
<1> QED
  BY <1>5, <1>6

\* The messages of a history.
LEMMA ChatSeen ==
  ASSUME NEW items, GoodItems(items), CallsOnce(items), NEW count, NEW env, AskedIn(items, count, env),
         NEW settings, NEW registry, NEW calls,
         NEW whole, whole = PrepareChatRequest(ToChatMessages(items, settings, registry, calls), settings)
  PROVE  /\ Single(whole) /\ Cardinality(AsksShown(whole)) = count
         /\ ~Quoting(items) => Latest(whole, env)
<1> DEFINE s == Readings(items, settings, registry, calls)[Len(items)]
           read == flush(s).messages
           kept == keepLatestEnvironmentContext(read)
<1>1. Len(items) \in 0 .. Len(items)
  BY SequenceFacts DEF GoodItems
<1>2. GoodReading(s) /\ SeenBy(s, items, Len(items))
  BY <1>1, ReadingsGood, ReadingsSeen DEF AskedIn
<1>3. whole = PrepareChatRequest(kept, settings)
  BY DEF ToChatMessages
<1> HIDE DEF s
<1>4. GoodMessages(read) /\ SeenBy(flush(s), items, Len(items))
  BY <1>2, FlushGood, FlushSeen DEF GoodReading
<1>5. SeenIn(read, count, env) /\ MessagesApart(read) /\ HeldByUser(read, items)
  <2>1. PICK c, e : AskedBy(items, Len(items), c, e) /\ SeenIn(read, c, e)
    BY <1>4 DEF SeenBy
  <2>2. c = count /\ e = env
    BY <2>1, AskedAll
  <2> QED
    BY <1>4, <2>1, <2>2 DEF SeenBy
<1> HIDE DEF read
<1>6. /\ GoodMessages(kept) /\ Single(kept) /\ Cardinality(AsksShown(kept)) = count
      /\ MessagesApart(kept) /\ (~Quoting(items) => Latest(kept, env))
  BY <1>4, <1>5, KeepSeen
<1> HIDE DEF kept
<1>7. CASE settings.repair
  <2>1. whole = repairToolPairing(kept)
    BY <1>3, <1>7 DEF PrepareChatRequest
  <2> QED
    BY <1>6, <2>1, RepairSeen
<1>8. CASE ~settings.repair
  <2>1. whole = kept
    BY <1>3, <1>8 DEF PrepareChatRequest
  <2> QED
    BY <1>6, <2>1
<1> QED
  BY <1>7, <1>8

\* The request an answer is awaited for is the one of the history.
Sent ==
  Fresh => \E registry, calls :
    request.messages = PrepareChatRequest(ToChatMessages(history, Settings, registry, calls), Settings)

LEMMA SentNext ==
  ASSUME Good, Sent, [Next]_vars
  PROVE  Sent'
<1>1. CASE Send
  <2> DEFINE registry == RequestTools(Tools, Found(history), Settings.editor)
             messages == ToChatMessages(history, Settings, registry, remembered)
             offered == OfferedTools(registry, collaborationMode(messages), FALSE, FALSE)
             sent == PrepareChatRequest(messages, Settings)
  <2>1. request' = [profile |-> profile, messages |-> sent, offered |-> offered]
        /\ profile' = profile /\ history' = history
    BY <1>1 DEF Send
  <2> HIDE DEF offered, sent
  <2>2. request'.messages = sent /\ Settings' = Settings
    BY <2>1 DEF Settings
  <2>3. request'.messages = PrepareChatRequest(ToChatMessages(history, Settings, registry, remembered), Settings)
    BY <2>2 DEF sent
  <2> HIDE DEF registry
  <2>4. \E r, calls : request'.messages = PrepareChatRequest(ToChatMessages(history', Settings', r, calls), Settings')
    BY <2>1, <2>2, <2>3
  <2> QED
    BY <2>4 DEF Sent
<1>2. ASSUME UNCHANGED <<profile, history, request, phase>> PROVE Sent'
  BY <1>2 DEF Sent, Fresh, Settings
<1>3. ASSUME phase' # "waiting" PROVE Sent'
  BY <1>3 DEF Sent, Fresh
<1>4. CASE UNCHANGED vars
  BY <1>2, <1>4 DEF vars
<1>5. CASE Interfere
  BY <1>2, <1>5 DEF Interfere
<1>6. CASE \E i \in DOMAIN running, output \in Outputs : Run(i, output)
  BY <1>2, <1>6 DEF Run
<1>7. CASE \/ \E moved \in BOOLEAN, mode \in Modes : Ask(moved, mode)
           \/ \E calls \in Batches, reasoned \in BOOLEAN : Reply(calls, reasoned)
           \/ Emit \/ Record \/ Interrupt \/ Switch \/ Restart
  <2>1. phase' # "waiting"
    BY <1>7 DEF Ask, Reply, Emit, Record, Interrupt, Switch, Restart
  <2> QED
    BY <1>3, <2>1
<1> QED
  BY <1>1, <1>4, <1>5, <1>6, <1>7 DEF Next

LEMMA SentInit == Init => Sent
BY DEF Init, Sent, Fresh

Steady == Good /\ Orderly /\ Asked /\ Sent

LEMMA AlwaysSteady == Spec => []Steady
<1>1. Init => Steady
  BY GoodInit, OrderlyInit, AskedInit, SentInit DEF Steady
<1>2. Steady /\ [Next]_vars => Steady'
  BY GoodNext, OrderlyNext, AskedNext, SentNext DEF Steady, Orderly
<1> QED
  BY <1>1, <1>2, PTL DEF Spec

\* The model sees each message of the user once, and of the environment contexts
\* the last one alone unless a tool's output quotes one, however many items the
\* history has and whatever calls and edits stand between them.
THEOREM UserIsSeen == Spec => []UserSeen
<1>1. Steady => UserSeen
  <2> SUFFICES ASSUME Steady, Fresh
               PROVE  LET shown == Contexts(request.messages)
                          asked == {i \in Messages : request.messages[i].role = "user"
                                                     /\ "ask" \in request.messages[i].body}
                          quoted == \E j \in DOMAIN history :
                                      history[j].type = "output" /\ history[j].blocks # <<>>
                      IN  /\ Cardinality(asked) = asks.count
                          /\ Len(shown) <= 1
                          /\ ~quoted => shown = IF asks.env = 0 THEN <<>> ELSE <<asks.env>>
    BY DEF UserSeen
  <2> DEFINE whole == request.messages
  <2>1. PICK registry, calls : whole = PrepareChatRequest(ToChatMessages(history, Settings, registry, calls), Settings)
    BY DEF Steady, Sent
  <2>2. GoodItems(history) /\ CallsOnce(history) /\ AskedIn(history, asks.count, asks.env)
    BY DEF Steady, Good, GoodState, Orderly, HistoryOnce, Asked
  <2> HIDE DEF whole
  <2>3. /\ Single(whole) /\ Cardinality(AsksShown(whole)) = asks.count
        /\ ~Quoting(history) => Latest(whole, asks.env)
    BY <2>1, <2>2, ChatSeen
  <2>4. GoodMessages(whole)
    BY DEF Steady, Good, GoodRequest, whole
  <2>5. Len(Contexts(whole)) <= 1
    BY <2>3, <2>4, SingleShort
  <2>6. ASSUME ~Quoting(history)
        PROVE  Contexts(whole) = IF asks.env = 0 THEN <<>> ELSE <<asks.env>>
    <3>1. Latest(whole, asks.env)
      BY <2>3, <2>6
    <3>2. CASE asks.env = 0
      BY <2>4, <3>1, <3>2, ContextsOfNone DEF Latest
    <3>3. CASE asks.env # 0
      BY <2>4, <3>1, <3>3, ContextsOfOne DEF Latest
    <3> QED
      BY <3>2, <3>3
  <2>7. AsksShown(whole) = {i \in Messages : request.messages[i].role = "user"
                                             /\ "ask" \in request.messages[i].body}
    BY DEF AsksShown, AsksFor, Messages, whole
  <2> QED
    BY <2>3, <2>5, <2>6, <2>7 DEF Quoting, whole
<1> QED
  BY <1>1, AlwaysSteady, PTL

-----------------------------------------------------------------------------
(* Calls and answers in what has been read.                                *)

Calls(m, id) == \E k \in DOMAIN m.calls : m.calls[k].id = id
Shows(messages, id) == \E p \in DOMAIN messages : Calls(messages[p], id)
Waits(s, id) == \E k \in DOMAIN s.pending : s.pending[k].id = id
Knows(s, id) == \E c \in s.known : c.id = id
Edited(s, id) == \E e \in s.edits : e.id = id
Hides(item) == IsPatch(item) /\ CallFromPatch(item.args) = NoCall

\* What one item does to a reading.
Knowing(s, r) == r.known = s.known /\ r.hidden = s.hidden /\ r.edits = s.edits
Leaves(s, r) == r.messages = s.messages /\ r.pending = s.pending

Passes(s, item, r, settings) ==
  /\ ~IsCall(item) /\ item.type \notin {"message", "output"}
  /\ Leaves(s, r) /\ Knowing(s, r)
  /\ r.reasoning = IF item.type = "reasoning" /\ settings.reasoning THEN item.text ELSE s.reasoning
Tells(s, item, r) ==
  item.type = "message" /\ Knowing(s, r)
  /\ Says(s, r, ChatMessage(normalizeRole(item.role, item.body), item.body, item.blocks))
Drops(s, item, r) == item.type = "output" /\ item.id \in s.hidden /\ r = s
Summarises(s, item, r) ==
  item.type = "output" /\ Edited(s, item.id) /\ Knowing(s, r)
  /\ \E body : Says(s, r, ChatMessage("system", body, <<>>))
Answers(s, item, r) ==
  item.type = "output" /\ Knowing(s, r)
  /\ \E body \in {item.body, formatTextEditorToolOutput(item.body)} :
       Says(s, r, ToolMessage(item.id, body, item.blocks))
Flushes(s, item, r) == item.type = "output" /\ ~Knows(s, item.id) /\ r = flush(s)
HidesCall(s, item, r) ==
  /\ IsCall(item) /\ Leaves(s, r) /\ r.reasoning = s.reasoning
  /\ r.known = s.known /\ r.edits = s.edits /\ r.hidden = s.hidden \cup {item.id}
HidesPatch(s, item, r) == IsCall(item) /\ Hides(item) /\ HidesEdit(s, item, r)
ShowsCall(s, item, r) ==
  /\ IsCall(item) /\ r.messages = s.messages /\ r.reasoning = s.reasoning
  /\ r.hidden = s.hidden /\ r.edits = s.edits
  /\ \E call : /\ call.id = item.id /\ r.pending = Append(s.pending, call)
               /\ r.known = {c \in s.known : c.id # item.id} \cup {call}

Reads(s, item, r, settings) ==
  \/ Passes(s, item, r, settings) \/ Tells(s, item, r)
  \/ Drops(s, item, r) \/ Summarises(s, item, r) \/ Answers(s, item, r) \/ Flushes(s, item, r)
  \/ HidesCall(s, item, r) \/ HidesPatch(s, item, r) \/ ShowsCall(s, item, r)

LEMMA ConvertReads ==
  ASSUME NEW s, IsReading(s), NEW item, NEW settings, NEW registry, NEW calls,
         NEW r, r = convertItem(s, item, settings, registry, calls)
  PROVE  Reads(s, item, r, settings)
<1>1. CASE item.type = "message"
  <2>1. Tells(s, item, r)
    BY <1>1, ConvertMessage DEF Tells, Says, Knowing
  <2> QED
    BY <2>1 DEF Reads
<1>2. CASE item.type = "output"
  <2>1. /\ r.edits = s.edits
         /\ \/ item.id \in s.hidden /\ r = s
            \/ /\ item.id \notin s.hidden /\ \E e \in s.edits : e.id = item.id
               /\ \E body : Says(s, r, ChatMessage("system", body, <<>>))
            \/ /\ item.id \notin s.hidden /\ ~ \E e \in s.edits : e.id = item.id
               /\ \E c \in s.known : c.id = item.id
               /\ \E body \in {item.body, formatTextEditorToolOutput(item.body)} :
                    Says(s, r, ToolMessage(item.id, body, item.blocks))
            \/ /\ item.id \notin s.hidden /\ ~ \E c \in s.known : c.id = item.id
               /\ r = flush(s)
    BY <1>2, ConvertOutput
  <2>2. ASSUME NEW m, Says(s, r, m) PROVE Knowing(s, r)
    BY <2>1, <2>2 DEF Says, Knowing
  <2>3. CASE item.id \in s.hidden /\ r = s
    BY <1>2, <2>3 DEF Drops, Reads
  <2>4. CASE (\E e \in s.edits : e.id = item.id) /\ \E body : Says(s, r, ChatMessage("system", body, <<>>))
    <3>1. Summarises(s, item, r)
      BY <1>2, <2>2, <2>4 DEF Summarises, Edited
    <3> QED
      BY <3>1 DEF Reads
  <2>5. CASE \E body \in {item.body, formatTextEditorToolOutput(item.body)} :
                    Says(s, r, ToolMessage(item.id, body, item.blocks))
    <3>1. Answers(s, item, r)
      BY <1>2, <2>2, <2>5 DEF Answers
    <3> QED
      BY <3>1 DEF Reads
  <2>6. CASE (~ \E c \in s.known : c.id = item.id) /\ r = flush(s)
    BY <1>2, <2>6 DEF Flushes, Knows, Reads
  <2> QED
    BY <2>1, <2>3, <2>4, <2>5, <2>6
<1>3. CASE item.type = "reasoning"
  <2>1. r = IF settings.reasoning THEN [s EXCEPT !.reasoning = item.text] ELSE s
    BY <1>3, ConvertReasoning
  <2>2. Leaves(s, r) /\ Knowing(s, r) /\ r.reasoning = IF settings.reasoning THEN item.text ELSE s.reasoning
    BY <2>1 DEF IsReading, Leaves, Knowing
  <2> QED
    BY <1>3, <2>2, CallIsNoMessage DEF Passes, Reads
<1>4. CASE IsCall(item)
  <2>2. CASE r = [s EXCEPT !.hidden = @ \cup {item.id}]
    <3>1. HidesCall(s, item, r)
      BY <1>4, <2>2 DEF IsReading, HidesCall, Leaves
    <3> QED
      BY <3>1 DEF Reads
  <2>3. CASE IsPatch(item) /\ CallFromPatch(item.args) = NoCall /\ HidesEdit(s, item, r)
    BY <1>4, <2>3 DEF HidesPatch, Hides, Reads
  <2>4. CASE \E call : call.id = item.id /\ r = showCall(s, call)
    <3>1. PICK call : call.id = item.id /\ r = showCall(s, call)
      BY <2>4
    <3> DEFINE t == showCall(s, call)
    <3>2. /\ t.pending = Append(s.pending, call)
          /\ t.messages = s.messages /\ t.reasoning = s.reasoning
          /\ t.edits = s.edits /\ t.hidden = s.hidden
          /\ t.known = {c \in s.known : c.id # call.id} \cup {call}
      BY ShowCallFields
    <3> HIDE DEF t
    <3>3. r = t
      BY <3>1 DEF t
    <3>4. ShowsCall(s, item, r)
      BY <1>4, <3>1, <3>2, <3>3 DEF ShowsCall
    <3> QED
      BY <3>4 DEF Reads
  <2> QED
    BY <1>4, <2>2, <2>3, <2>4, ConvertCall
<1>5. CASE ~IsCall(item) /\ item.type \notin {"message", "output", "reasoning"}
  <2>1. r = s
    BY <1>5, ConvertOther
  <2> QED
    BY <1>5, <2>1 DEF Passes, Leaves, Knowing, Reads
<1> QED
  BY <1>1, <1>2, <1>3, <1>4, <1>5

LEMMA ShowsLonger ==
  ASSUME NEW messages, NEW whole, NEW m, LongerBy(whole, messages, m)
  PROVE  \A id : Shows(whole, id) <=> Shows(messages, id) \/ Calls(m, id)
<1>1. /\ \A k \in DOMAIN messages : k \in DOMAIN whole /\ whole[k] = messages[k]
      /\ Len(messages) + 1 \in DOMAIN whole /\ whole[Len(messages) + 1] = m
      /\ \A k \in DOMAIN whole : k \in DOMAIN messages \/ k = Len(messages) + 1
  BY LongerDomain
<1> QED
  BY <1>1 DEF Shows

\* The calls read so far: shown, not yet in a message, or hidden.
ToldCalls(s, items, n) ==
  /\ \A id : Knows(s, id) <=> Shows(s.messages, id) \/ Waits(s, id)
  /\ \A id : Knows(s, id) \/ id \in s.hidden \/ Edited(s, id)
               => \E a \in 1..n : IsCall(items[a]) /\ items[a].id = id
  /\ \A id : Knows(s, id) => id \notin s.hidden /\ ~Edited(s, id)
  /\ \A id : Edited(s, id) => \E a \in 1..n : Hides(items[a]) /\ items[a].id = id
  /\ \A id : \A p, q \in DOMAIN s.messages :
       Calls(s.messages[p], id) /\ Calls(s.messages[q], id) => p = q
  /\ \A id : ~(Waits(s, id) /\ Shows(s.messages, id))

\* No message without calls changes that.
LEMMA ToldSays ==
  ASSUME NEW s, GoodReading(s), NEW items, NEW n, ToldCalls(s, items, n),
         NEW m, m.calls = <<>>, NEW r, Knowing(s, r), r.pending = s.pending,
         r.messages = Append(s.messages, m)
  PROVE  ToldCalls(r, items, n)
<1>1. LongerBy(r.messages, s.messages, m)
  BY AppendLonger DEF GoodReading, GoodMessages
<1>2. \A id : ~Calls(m, id)
  BY NoneSequence DEF Calls
<1>3. \A id : Shows(r.messages, id) <=> Shows(s.messages, id)
  BY <1>1, <1>2, ShowsLonger
<1>4. \A id : (Knows(r, id) <=> Knows(s, id)) /\ (Edited(r, id) <=> Edited(s, id))
              /\ (Waits(r, id) <=> Waits(s, id)) /\ (id \in r.hidden <=> id \in s.hidden)
  BY DEF Knowing, Knows, Edited, Waits
<1>5. \A k \in DOMAIN r.messages : (k \in DOMAIN s.messages /\ r.messages[k] = s.messages[k]) \/ r.messages[k] = m
  BY <1>1, LongerDomain
<1>6. \A id : \A p, q \in DOMAIN r.messages :
       Calls(r.messages[p], id) /\ Calls(r.messages[q], id) => p = q
  BY <1>2, <1>5 DEF ToldCalls
<1> QED
  BY <1>3, <1>4, <1>6 DEF ToldCalls

LEMMA ToldFlush ==
  ASSUME NEW s, GoodReading(s), NEW items, NEW n, ToldCalls(s, items, n)
  PROVE  ToldCalls(flush(s), items, n) /\ Knowing(s, flush(s))
<1> DEFINE r == flush(s)
           m == CallsMessage(s.reasoning, s.pending)
<1>1. /\ r.pending = <<>> /\ Knowing(s, r)
      /\ r.messages = IF s.pending = <<>> THEN s.messages ELSE Append(s.messages, m)
  BY FlushFields DEF GoodReading, Knowing
<1>2. m.calls = s.pending
  BY CallsMessageFields
<1> HIDE DEF r, m
<1>4. \A id : (Knows(r, id) <=> Knows(s, id)) /\ (Edited(r, id) <=> Edited(s, id))
              /\ (id \in r.hidden <=> id \in s.hidden) /\ ~Waits(r, id)
  BY <1>1, NoneSequence DEF Knowing, Knows, Edited, Waits
<1>5. CASE s.pending = <<>>
  <2>1. r.messages = s.messages /\ \A id : ~Waits(s, id)
    BY <1>1, <1>5, NoneSequence DEF Waits
  <2>2. ToldCalls(r, items, n)
    BY <1>4, <2>1 DEF ToldCalls
  <2> QED
    BY <1>1, <2>2 DEF r
<1>6. CASE s.pending # <<>>
  <2>1. LongerBy(r.messages, s.messages, m)
    BY <1>1, <1>6, AppendLonger DEF GoodReading, GoodMessages
  <2>2. \A id : Calls(m, id) <=> Waits(s, id)
    BY <1>2 DEF Calls, Waits
  <2>3. \A id : Shows(r.messages, id) <=> Shows(s.messages, id) \/ Waits(s, id)
    BY <2>1, <2>2, ShowsLonger
  <2>4. \A k \in DOMAIN r.messages : (k \in DOMAIN s.messages /\ r.messages[k] = s.messages[k])
                                     \/ (k = Len(s.messages) + 1 /\ r.messages[k] = m)
    BY <2>1, LongerDomain
  <2>5. \A id : \A p, q \in DOMAIN r.messages :
       Calls(r.messages[p], id) /\ Calls(r.messages[q], id) => p = q
    <3> SUFFICES ASSUME NEW id, NEW p \in DOMAIN r.messages, NEW q \in DOMAIN r.messages,
                        Calls(r.messages[p], id), Calls(r.messages[q], id)
                 PROVE  p = q
      OBVIOUS
    <3>1. \A k \in DOMAIN s.messages : Calls(s.messages[k], id) => ~Waits(s, id)
      BY DEF ToldCalls, Shows
    <3> QED
      BY <2>2, <2>4, <3>1 DEF ToldCalls
  <2>6. ToldCalls(r, items, n)
    BY <1>4, <2>3, <2>5 DEF ToldCalls
  <2> QED
    BY <1>1, <2>6 DEF r
<1> QED
  BY <1>5, <1>6

\* A reading after n items that is the same for the item after.
LEMMA ToldMore ==
  ASSUME NEW s, NEW items, NEW n \in Nat, ToldCalls(s, items, n)
  PROVE  ToldCalls(s, items, n + 1)
<1>1. \A a \in 1..n : a \in 1 .. n + 1
  OBVIOUS
<1> QED
  BY <1>1 DEF ToldCalls

LEMMA ToldSame ==
  ASSUME NEW s, NEW r, Leaves(s, r), Knowing(s, r), NEW items, NEW n, ToldCalls(s, items, n)
  PROVE  ToldCalls(r, items, n)
BY DEF Leaves, Knowing, ToldCalls, Knows, Waits, Edited

\* A message with no call that comes after the calls before it.
LEMMA ToldText ==
  ASSUME NEW s, GoodReading(s), NEW items, NEW n, ToldCalls(s, items, n),
         NEW m, m.calls = <<>>, NEW r, Says(s, r, m), Knowing(s, r)
  PROVE  ToldCalls(r, items, n)
<1> DEFINE f == flush(s)
<1>1. GoodReading(f) /\ ToldCalls(f, items, n) /\ Knowing(s, f) /\ f.pending = <<>>
  BY FlushGood, ToldFlush, FlushFields DEF GoodReading
<1>2. r.messages = Append(f.messages, m) /\ r.pending = <<>>
  BY DEF Says
<1> HIDE DEF f
<1>3. Knowing(f, r)
  BY <1>1 DEF Knowing
<1> QED
  BY <1>1, <1>2, <1>3, ToldSays

\* The item read next is a call none knows yet.
LEMMA NewCall ==
  ASSUME NEW s, NEW items, GoodItems(items), CallsOnce(items), NEW n \in Nat, n + 1 \in DOMAIN items,
         IsCall(items[n + 1]), ToldCalls(s, items, n)
  PROVE  LET id == items[n + 1].id IN
         /\ ~Knows(s, id) /\ id \notin s.hidden /\ ~Edited(s, id)
         /\ ~Shows(s.messages, id) /\ ~Waits(s, id)
<1>1. DOMAIN items = 1 .. Len(items) /\ Len(items) \in Nat
  BY SequenceFacts DEF GoodItems
<1>2. ~ \E a \in 1..n : IsCall(items[a]) /\ items[a].id = items[n + 1].id
  <2> SUFFICES ASSUME NEW a \in 1..n, IsCall(items[a]), items[a].id = items[n + 1].id PROVE FALSE
    OBVIOUS
  <2>1. a \in DOMAIN items /\ a # n + 1
    BY <1>1
  <2> QED
    BY <2>1 DEF CallsOnce
<1> QED
  BY <1>2 DEF ToldCalls

LEMMA ToldNext ==
  ASSUME NEW items, GoodItems(items), CallsOnce(items), NEW n \in Nat, n + 1 \in DOMAIN items,
         NEW s, GoodReading(s), ToldCalls(s, items, n),
         NEW settings, NEW r, Reads(s, items[n + 1], r, settings)
  PROVE  ToldCalls(r, items, n + 1)
<1> DEFINE item == items[n + 1]
<1>0. ToldCalls(s, items, n + 1) /\ n + 1 \in 1 .. n + 1 /\ \A a \in 1..n : a \in 1 .. n + 1
  BY ToldMore
<1> HIDE DEF item
<1>1. CASE Passes(s, item, r, settings)
  BY <1>0, <1>1, ToldSame DEF Passes
<1>2. CASE Tells(s, item, r)
  <2> DEFINE m == ChatMessage(normalizeRole(item.role, item.body), item.body, item.blocks)
  <2>1. m.calls = <<>> /\ Says(s, r, m) /\ Knowing(s, r)
    BY <1>2, ChatMessageFields DEF Tells
  <2> HIDE DEF m
  <2> QED
    BY <1>0, <2>1, ToldText
<1>3. CASE Drops(s, item, r)
  BY <1>0, <1>3 DEF Drops
<1>4. CASE Summarises(s, item, r)
  <2>1. PICK body : Says(s, r, ChatMessage("system", body, <<>>)) /\ Knowing(s, r)
    BY <1>4 DEF Summarises
  <2>2. ChatMessage("system", body, <<>>).calls = <<>>
    BY ChatMessageFields
  <2> QED
    BY <1>0, <2>1, <2>2, ToldText
<1>5. CASE Answers(s, item, r)
  <2>1. PICK body : Says(s, r, ToolMessage(item.id, body, item.blocks)) /\ Knowing(s, r)
    BY <1>5 DEF Answers
  <2>2. ToolMessage(item.id, body, item.blocks).calls = <<>>
    BY ToolMessageFields
  <2> QED
    BY <1>0, <2>1, <2>2, ToldText
<1>6. CASE Flushes(s, item, r)
  BY <1>0, <1>6, ToldFlush DEF Flushes
<1>7. CASE HidesCall(s, item, r)
  <2>1. IsCall(item) /\ ~Knows(s, item.id)
    BY <1>7, NewCall DEF HidesCall, item
  <2>2. \A id : (Knows(r, id) <=> Knows(s, id)) /\ (Edited(r, id) <=> Edited(s, id))
                /\ (Waits(r, id) <=> Waits(s, id)) /\ (id \in r.hidden <=> id \in s.hidden \/ id = item.id)
                /\ r.messages = s.messages
    BY <1>7 DEF HidesCall, Leaves, Knows, Edited, Waits
  <2>3. \A id : Knows(r, id) \/ id \in r.hidden \/ Edited(r, id)
               => \E a \in 1 .. n + 1 : IsCall(items[a]) /\ items[a].id = id
    BY <1>0, <2>1, <2>2 DEF ToldCalls, item
  <2> QED
    BY <1>0, <2>1, <2>2, <2>3 DEF ToldCalls
<1>8. CASE HidesPatch(s, item, r)
  <2>1. IsCall(item) /\ ~Knows(s, item.id) /\ Hides(item)
    BY <1>8, NewCall DEF HidesPatch, item
  <2> DEFINE m == ChatMessage("system", {"edit hidden"}, <<>>)
             u == [r EXCEPT !.edits = s.edits]
  <2>2. m.calls = <<>>
    <3>1. \A body : ChatMessage("system", body, <<>>).calls = <<>>
      BY ChatMessageFields
    <3> QED
      BY <3>1
  <2>3. PICK edit : edit.id = item.id /\ r.edits = {e \in s.edits : e.id # item.id} \cup {edit}
    BY <1>8 DEF HidesPatch, HidesEdit
  <2>4. Says(s, r, m) /\ IsReading(r)
    BY <1>8 DEF HidesPatch, HidesEdit, Says
  <2> HIDE DEF m
  <2>5. u.messages = r.messages /\ u.pending = r.pending /\ u.known = r.known /\ u.hidden = r.hidden
        /\ u.edits = s.edits /\ u.reasoning = r.reasoning /\ IsReading(u)
    BY <2>4 DEF IsReading
  <2>6. Says(s, u, m) /\ Knowing(s, u)
    BY <2>4, <2>5 DEF Says, Knowing
  <2> HIDE DEF u
  <2>7. ToldCalls(u, items, n + 1)
    BY <1>0, <2>2, <2>6, ToldText
  <2>8. \A id : (Knows(r, id) <=> Knows(u, id)) /\ (Edited(r, id) <=> Edited(u, id) \/ id = item.id)
                /\ (Waits(r, id) <=> Waits(u, id)) /\ (id \in r.hidden <=> id \in u.hidden)
                /\ r.messages = u.messages
    BY <2>3, <2>5 DEF Knows, Edited, Waits
  <2>9. ~Knows(u, item.id)
    BY <2>1, <2>6 DEF Knowing, Knows
  <2>10. \A id : Edited(r, id) => \E a \in 1 .. n + 1 : Hides(items[a]) /\ items[a].id = id
    BY <1>0, <2>1, <2>7, <2>8 DEF ToldCalls, item
  <2>11. \A id : Knows(r, id) \/ id \in r.hidden \/ Edited(r, id)
               => \E a \in 1 .. n + 1 : IsCall(items[a]) /\ items[a].id = id
    BY <1>0, <2>1, <2>7, <2>8 DEF ToldCalls, item
  <2> QED
    BY <2>7, <2>8, <2>9, <2>10, <2>11 DEF ToldCalls
<1>9. CASE ShowsCall(s, item, r)
  <2>1. IsCall(item) /\ ~Knows(s, item.id) /\ item.id \notin s.hidden /\ ~Edited(s, item.id)
        /\ ~Shows(s.messages, item.id) /\ ~Waits(s, item.id)
    BY <1>9, NewCall DEF ShowsCall, item
  <2>2. PICK call : /\ call.id = item.id /\ r.pending = Append(s.pending, call)
                    /\ r.known = {c \in s.known : c.id # item.id} \cup {call}
    BY <1>9 DEF ShowsCall
  <2>3. LongerBy(r.pending, s.pending, call)
    BY <2>2, AppendLonger DEF GoodReading
  <2>4. /\ \A k \in DOMAIN s.pending : k \in DOMAIN r.pending /\ r.pending[k] = s.pending[k]
        /\ Len(s.pending) + 1 \in DOMAIN r.pending /\ r.pending[Len(s.pending) + 1] = call
        /\ \A k \in DOMAIN r.pending : k \in DOMAIN s.pending \/ k = Len(s.pending) + 1
    BY <2>3, LongerDomain
  <2>5. \A id : Waits(r, id) <=> Waits(s, id) \/ id = item.id
    BY <2>2, <2>4 DEF Waits
  <2>6. \A id : (Knows(r, id) <=> Knows(s, id) \/ id = item.id) /\ (Edited(r, id) <=> Edited(s, id))
                /\ (id \in r.hidden <=> id \in s.hidden) /\ r.messages = s.messages
    BY <1>9, <2>2 DEF ShowsCall, Knows, Edited
  <2>7. \A id : Knows(r, id) \/ id \in r.hidden \/ Edited(r, id)
               => \E a \in 1 .. n + 1 : IsCall(items[a]) /\ items[a].id = id
    BY <1>0, <2>1, <2>6 DEF ToldCalls, item
  <2> QED
    BY <1>0, <2>1, <2>5, <2>6, <2>7 DEF ToldCalls
<1> QED
  BY <1>1, <1>2, <1>3, <1>4, <1>5, <1>6, <1>7, <1>8, <1>9 DEF Reads, item

\* The message gives the model the output of a call.
AnswersWith(m, item) ==
  /\ item.type = "output" /\ item.id = m.answers
  /\ m.body \in {item.body, formatTextEditorToolOutput(item.body)}

\* The outputs read so far: each of a call that is known has one message.
ToldAnswers(s, items, n) ==
  /\ \A p \in DOMAIN s.messages : s.messages[p].answers # 0 =>
       \E j \in 1..n : AnswersWith(s.messages[p], items[j])
  /\ \A p, q \in DOMAIN s.messages :
       s.messages[p].answers # 0 /\ s.messages[p].answers = s.messages[q].answers => p = q
  /\ \A j \in 1..n : items[j].type = "output" /\ Knows(s, items[j].id) =>
       \E p \in DOMAIN s.messages : s.messages[p].answers = items[j].id

\* No message that answers nothing changes that, as long as no call becomes known.
LEMMA AnswersQuiet ==
  ASSUME NEW s, GoodReading(s), NEW items, NEW n, ToldAnswers(s, items, n), NEW m, m.answers = 0,
         NEW r, r.messages = s.messages \/ r.messages = Append(s.messages, m),
         \A j \in 1..n : items[j].type = "output" /\ Knows(r, items[j].id) => Knows(s, items[j].id)
  PROVE  ToldAnswers(r, items, n)
<1>1. CASE r.messages = s.messages
  BY <1>1 DEF ToldAnswers
<1>2. CASE r.messages = Append(s.messages, m)
  <2>1. LongerBy(r.messages, s.messages, m)
    BY <1>2, AppendLonger DEF GoodReading, GoodMessages
  <2>2. /\ \A k \in DOMAIN s.messages : k \in DOMAIN r.messages /\ r.messages[k] = s.messages[k]
        /\ \A k \in DOMAIN r.messages : r.messages[k].answers # 0 =>
             k \in DOMAIN s.messages /\ r.messages[k] = s.messages[k]
    BY <2>1, LongerDomain
  <2>3. \A p \in DOMAIN r.messages : r.messages[p].answers # 0 =>
          \E j \in 1..n : AnswersWith(r.messages[p], items[j])
    BY <2>2 DEF ToldAnswers
  <2>4. \A p, q \in DOMAIN r.messages :
          r.messages[p].answers # 0 /\ r.messages[p].answers = r.messages[q].answers => p = q
    BY <2>2 DEF ToldAnswers
  <2>5. \A j \in 1..n : items[j].type = "output" /\ Knows(r, items[j].id) =>
          \E p \in DOMAIN r.messages : r.messages[p].answers = items[j].id
    BY <2>2 DEF ToldAnswers
  <2> QED
    BY <2>3, <2>4, <2>5 DEF ToldAnswers
<1> QED
  BY <1>1, <1>2

LEMMA AnswersFlush ==
  ASSUME NEW s, GoodReading(s), NEW items, NEW n, ToldAnswers(s, items, n)
  PROVE  ToldAnswers(flush(s), items, n)
<1> DEFINE r == flush(s)
           m == CallsMessage(s.reasoning, s.pending)
<1>1. (r.messages = s.messages \/ r.messages = Append(s.messages, m)) /\ r.known = s.known
  BY FlushFields DEF GoodReading
<1>2. m.answers = 0
  BY CallsMessageFields
<1> HIDE DEF r, m
<1>3. \A id : Knows(r, id) <=> Knows(s, id)
  BY <1>1 DEF Knows
<1>4. ToldAnswers(r, items, n)
  BY <1>1, <1>2, <1>3, AnswersQuiet
<1> QED
  BY <1>4 DEF r

LEMMA AnswersText ==
  ASSUME NEW s, GoodReading(s), NEW items, NEW n, ToldAnswers(s, items, n),
         NEW m, m.answers = 0, NEW r, Says(s, r, m)
  PROVE  ToldAnswers(r, items, n)
<1> DEFINE f == flush(s)
<1>1. GoodReading(f) /\ ToldAnswers(f, items, n) /\ f.known = s.known
  BY FlushGood, AnswersFlush, FlushFields DEF GoodReading
<1>2. r.messages = Append(f.messages, m) /\ r.known = s.known
  BY DEF Says
<1> HIDE DEF f
<1>3. \A id : Knows(r, id) <=> Knows(f, id)
  BY <1>1, <1>2 DEF Knows
<1> QED
  BY <1>1, <1>2, <1>3, AnswersQuiet

\* What has been read is the same for an item that is no output of a known call.
LEMMA AnswersMore ==
  ASSUME NEW s, NEW items, NEW n \in Nat, ToldAnswers(s, items, n),
         items[n + 1].type = "output" => ~Knows(s, items[n + 1].id)
  PROVE  ToldAnswers(s, items, n + 1)
<1>1. (\A a \in 1..n : a \in 1 .. n + 1) /\ \A j \in 1 .. n + 1 : j \in 1..n \/ j = n + 1
  OBVIOUS
<1> QED
  BY <1>1 DEF ToldAnswers

LEMMA AnswersNext ==
  ASSUME NEW items, GoodItems(items), CallsOnce(items), NEW n \in Nat, n + 1 \in DOMAIN items,
         NEW s, GoodReading(s), ToldCalls(s, items, n), ToldAnswers(s, items, n),
         NEW settings, NEW r, Reads(s, items[n + 1], r, settings)
  PROVE  ToldAnswers(r, items, n + 1)
<1> DEFINE item == items[n + 1]
<1>0. DOMAIN items = 1 .. Len(items) /\ Len(items) \in Nat
  BY SequenceFacts DEF GoodItems
<1>10. \A id : \A q : Knows(q, id) \in BOOLEAN
  BY DEF Knows
<1> HIDE DEF item
<1>1. CASE Passes(s, item, r, settings)
  <2>1. r.messages = s.messages /\ (\A id : Knows(r, id) <=> Knows(s, id)) /\ item.type # "output"
    BY <1>1 DEF Passes, Leaves, Knowing, Knows
  <2>2. ToldAnswers(r, items, n)
    BY <2>1 DEF ToldAnswers
  <2> QED
    BY <2>1, <2>2, AnswersMore DEF item
<1>2. CASE Tells(s, item, r)
  <2> DEFINE m == ChatMessage(normalizeRole(item.role, item.body), item.body, item.blocks)
  <2>1. m.answers = 0 /\ Says(s, r, m) /\ item.type # "output"
    BY <1>2, ChatMessageFields DEF Tells
  <2> HIDE DEF m
  <2>2. ToldAnswers(r, items, n)
    BY <2>1, AnswersText
  <2> QED
    BY <2>1, <2>2, AnswersMore DEF item
<1>3. CASE Drops(s, item, r)
  <2>1. r = s /\ ~Knows(s, item.id)
    BY <1>3 DEF Drops, ToldCalls
  <2> QED
    BY <2>1, AnswersMore DEF item
<1>4. CASE Summarises(s, item, r)
  <2>1. PICK body : Says(s, r, ChatMessage("system", body, <<>>)) /\ Knowing(s, r)
    BY <1>4 DEF Summarises
  <2>2. ChatMessage("system", body, <<>>).answers = 0
    BY ChatMessageFields
  <2>3. ~Knows(r, item.id)
    <3>1. ~Knows(s, item.id)
      BY <1>4 DEF Summarises, ToldCalls
    <3> QED
      BY <2>1, <3>1 DEF Knowing, Knows
  <2>4. ToldAnswers(r, items, n)
    BY <2>1, <2>2, AnswersText
  <2> QED
    BY <2>3, <2>4, AnswersMore DEF item
<1>5. CASE Answers(s, item, r)
  <2>1. PICK body \in {item.body, formatTextEditorToolOutput(item.body)} :
          Says(s, r, ToolMessage(item.id, body, item.blocks))
    BY <1>5 DEF Answers
  <2> DEFINE f == flush(s)
             m == ToolMessage(item.id, body, item.blocks)
  <2>2. m.answers = item.id /\ m.body = body /\ item.type = "output"
    BY <1>5, ToolMessageFields DEF Answers
  <2>3. GoodReading(f) /\ ToldAnswers(f, items, n) /\ f.known = s.known
    BY FlushGood, AnswersFlush, FlushFields DEF GoodReading
  <2>4. r.messages = Append(f.messages, m) /\ r.known = s.known
    BY <2>1 DEF Says
  <2>5. AnswersWith(m, item)
    BY <2>1, <2>2 DEF AnswersWith
  <2> HIDE DEF f, m
  <2>6. \A id : Knows(r, id) <=> Knows(f, id)
    BY <2>3, <2>4 DEF Knows
  <2>7. LongerBy(r.messages, f.messages, m)
    BY <2>3, <2>4, AppendLonger DEF GoodReading, GoodMessages
  <2>8. /\ \A k \in DOMAIN f.messages : k \in DOMAIN r.messages /\ r.messages[k] = f.messages[k]
        /\ Len(f.messages) + 1 \in DOMAIN r.messages /\ r.messages[Len(f.messages) + 1] = m
        /\ \A k \in DOMAIN r.messages : k \in DOMAIN f.messages \/ k = Len(f.messages) + 1
    BY <2>7, LongerDomain
  <2>9. n + 1 \in 1 .. n + 1 /\ (\A a \in 1..n : a \in 1 .. n + 1) /\ \A j \in 1 .. n + 1 : j \in 1..n \/ j = n + 1
    OBVIOUS
  <2>10. \A p \in DOMAIN r.messages : r.messages[p].answers # 0 =>
           \E j \in 1 .. n + 1 : AnswersWith(r.messages[p], items[j])
    BY <2>3, <2>5, <2>8, <2>9 DEF ToldAnswers, item
  <2>11. \A p \in DOMAIN f.messages : f.messages[p].answers # 0 => f.messages[p].answers # item.id
    <3> SUFFICES ASSUME NEW p \in DOMAIN f.messages, f.messages[p].answers # 0, f.messages[p].answers = item.id
                 PROVE  FALSE
      OBVIOUS
    <3>1. PICK j \in 1..n : items[j].type = "output" /\ items[j].id = item.id
      BY <2>3 DEF ToldAnswers, AnswersWith
    <3>2. j \in DOMAIN items /\ n + 1 \in DOMAIN items /\ j # n + 1
      BY <1>0
    <3> QED
      BY <2>2, <3>1, <3>2 DEF CallsOnce, item
  <2>12. \A p, q \in DOMAIN r.messages :
           r.messages[p].answers # 0 /\ r.messages[p].answers = r.messages[q].answers => p = q
    BY <2>2, <2>3, <2>8, <2>11 DEF ToldAnswers
  <2>13. \A j \in 1 .. n + 1 : items[j].type = "output" /\ Knows(r, items[j].id) =>
           \E p \in DOMAIN r.messages : r.messages[p].answers = items[j].id
    BY <2>2, <2>3, <2>6, <2>8, <2>9 DEF ToldAnswers, item
  <2> QED
    BY <2>10, <2>12, <2>13 DEF ToldAnswers
<1>6. CASE Flushes(s, item, r)
  <2>1. r = flush(s) /\ ~Knows(s, item.id)
    BY <1>6 DEF Flushes
  <2>2. ~Knows(r, item.id)
    <3>1. flush(s).known = s.known
      BY FlushFields DEF GoodReading
    <3> QED
      BY <2>1, <3>1 DEF Knows
  <2>3. ToldAnswers(r, items, n)
    BY <2>1, AnswersFlush
  <2> QED
    BY <2>2, <2>3, AnswersMore DEF item
<1>11. IsCall(item) => item.type # "output"
  BY CallTypesAre DEF IsCall
<1>7. CASE HidesCall(s, item, r)
  <2>1. r.messages = s.messages /\ (\A id : Knows(r, id) <=> Knows(s, id)) /\ item.type # "output"
    BY <1>7, <1>11 DEF HidesCall, Leaves, Knows
  <2>2. ToldAnswers(r, items, n)
    BY <2>1 DEF ToldAnswers
  <2> QED
    BY <2>1, <2>2, AnswersMore DEF item
<1>8. CASE HidesPatch(s, item, r)
  <2> DEFINE m == ChatMessage("system", {"edit hidden"}, <<>>)
  <2>1. m.answers = 0
    <3>1. \A body : ChatMessage("system", body, <<>>).answers = 0
      BY ChatMessageFields
    <3> QED
      BY <3>1
  <2>2. Says(s, r, m) /\ item.type # "output"
    BY <1>8, <1>11 DEF HidesPatch, HidesEdit, Says
  <2> HIDE DEF m
  <2>3. ToldAnswers(r, items, n)
    BY <2>1, <2>2, AnswersText
  <2> QED
    BY <2>2, <2>3, AnswersMore DEF item
<1>9. CASE ShowsCall(s, item, r)
  <2>1. IsCall(item) /\ item.type # "output" /\ r.messages = s.messages
    BY <1>9, <1>11 DEF ShowsCall
  <2>2. \A id : Knows(r, id) => Knows(s, id) \/ id = item.id
    BY <1>9 DEF ShowsCall, Knows
  <2>3. \A j \in 1..n : items[j].type = "output" => items[j].id # item.id
    <3> SUFFICES ASSUME NEW j \in 1..n, items[j].type = "output", items[j].id = item.id PROVE FALSE
      OBVIOUS
    <3>1. j \in DOMAIN items
      BY <1>0
    <3>2. PICK i \in 1 .. j - 1 : IsCall(items[i]) /\ items[i].id = item.id
      BY <3>1 DEF CallsOnce
    <3>3. i \in DOMAIN items /\ n + 1 \in DOMAIN items /\ i # n + 1
      BY <1>0
    <3> QED
      BY <2>1, <3>2, <3>3 DEF CallsOnce, item
  <2>4. ToldAnswers(r, items, n)
    BY <2>1, <2>2, <2>3 DEF ToldAnswers
  <2> QED
    BY <2>1, <2>4, AnswersMore DEF item
<1> QED
  BY <1>1, <1>2, <1>3, <1>4, <1>5, <1>6, <1>7, <1>8, <1>9 DEF Reads, item

\* A text, or a hidden edit or its output, stands between two items.
Cut(items, a, j) ==
  \E k \in a + 1 .. j - 1 :
    \/ items[k].type = "message" \/ Hides(items[k])
    \/ items[k].type = "output" /\ \E b \in DOMAIN items : Hides(items[b]) /\ items[b].id = items[k].id

\* Behind the call stand only answers.
SaidLast(s, id) ==
  s.pending = <<>> /\ \E p \in DOMAIN s.messages :
    Calls(s.messages[p], id) /\ \A k \in p + 1 .. Len(s.messages) : s.messages[k].role = "tool"

\* Between the call and its answer stand only answers.
NearBy(messages, id) ==
  \E p, q \in DOMAIN messages :
    /\ Calls(messages[p], id) /\ messages[q].answers = id
    /\ p < q /\ \A k \in p + 1 .. q : messages[k].role = "tool"

\* Item j is the output of the call a, and nothing cuts it off.
Follows(items, a, j) ==
  /\ j \in a + 1 .. Len(items) /\ IsCall(items[a]) /\ items[j].type = "output" /\ items[a].id = items[j].id
  /\ ~Cut(items, a, j)

\* The call can be answered by the output, or has been.
ToldNear(s, items, n, a, j) ==
  LET id == items[a].id IN
  Knows(s, id) =>
    IF j <= n THEN NearBy(s.messages, id)
    ELSE Waits(s, id) \/ (SaidLast(s, id) /\ \E o \in a + 1 .. n : items[o].type = "output")

LEMMA SaidFlush ==
  ASSUME NEW s, GoodReading(s), NEW id, Waits(s, id) \/ SaidLast(s, id)
  PROVE  SaidLast(flush(s), id)
<1> DEFINE r == flush(s)
           m == CallsMessage(s.reasoning, s.pending)
<1>1. /\ r.pending = <<>>
      /\ r.messages = IF s.pending = <<>> THEN s.messages ELSE Append(s.messages, m)
  BY FlushFields DEF GoodReading
<1>2. m.calls = s.pending
  BY CallsMessageFields
<1> HIDE DEF r, m
<1>3. CASE s.pending = <<>>
  <2>1. r.messages = s.messages /\ SaidLast(s, id)
    BY <1>1, <1>3, NoneSequence DEF Waits
  <2>2. SaidLast(r, id)
    BY <1>1, <2>1 DEF SaidLast
  <2> QED
    BY <2>2 DEF r
<1>4. CASE s.pending # <<>>
  <2>1. LongerBy(r.messages, s.messages, m)
    BY <1>1, <1>4, AppendLonger DEF GoodReading, GoodMessages
  <2>2. Calls(m, id)
    BY <1>2, <1>4 DEF Waits, SaidLast, Calls
  <2>3. /\ Len(s.messages) + 1 \in DOMAIN r.messages /\ r.messages[Len(s.messages) + 1] = m
        /\ Len(r.messages) = Len(s.messages) + 1 /\ Len(s.messages) \in Nat
    BY <2>1, LongerDomain DEF LongerBy
  <2>4. \A k \in (Len(s.messages) + 1) + 1 .. Len(r.messages) : FALSE
    BY <2>3
  <2>5. SaidLast(r, id)
    BY <1>1, <2>2, <2>3, <2>4 DEF SaidLast
  <2> QED
    BY <2>5 DEF r
<1> QED
  BY <1>3, <1>4

LEMMA SaidTool ==
  ASSUME NEW f, GoodReading(f), NEW id, SaidLast(f, id), NEW m, m.role = "tool",
         NEW r, r.messages = Append(f.messages, m), r.pending = <<>>
  PROVE  SaidLast(r, id) /\ (m.answers = id => NearBy(r.messages, id))
<1>1. LongerBy(r.messages, f.messages, m)
  BY AppendLonger DEF GoodReading, GoodMessages
<1>2. /\ Len(f.messages) \in Nat /\ DOMAIN f.messages = 1 .. Len(f.messages)
      /\ Len(r.messages) = Len(f.messages) + 1
      /\ \A k \in DOMAIN f.messages : k \in DOMAIN r.messages /\ r.messages[k] = f.messages[k]
      /\ Len(f.messages) + 1 \in DOMAIN r.messages /\ r.messages[Len(f.messages) + 1] = m
  BY <1>1, LongerDomain DEF LongerBy
<1>3. PICK p \in DOMAIN f.messages :
        Calls(f.messages[p], id) /\ \A k \in p + 1 .. Len(f.messages) : f.messages[k].role = "tool"
  BY DEF SaidLast
<1>4. p \in DOMAIN r.messages /\ Calls(r.messages[p], id) /\ p < Len(f.messages) + 1
  BY <1>2, <1>3
<1>5. \A k \in p + 1 .. Len(f.messages) + 1 : r.messages[k].role = "tool"
  <2> TAKE k \in p + 1 .. Len(f.messages) + 1
  <2>1. k = Len(f.messages) + 1 \/ (k \in DOMAIN f.messages /\ k \in p + 1 .. Len(f.messages))
    BY <1>2
  <2> QED
    BY <1>2, <1>3, <2>1
<1>6. SaidLast(r, id)
  BY <1>2, <1>4, <1>5 DEF SaidLast
<1>7. m.answers = id => NearBy(r.messages, id)
  BY <1>2, <1>4, <1>5 DEF NearBy
<1> QED
  BY <1>6, <1>7

\* Messages are only added.
LEMMA ReadsAdds ==
  ASSUME NEW s, GoodReading(s), NEW item, NEW settings, NEW r, Reads(s, item, r, settings)
  PROVE  \A k \in DOMAIN s.messages : k \in DOMAIN r.messages /\ r.messages[k] = s.messages[k]
<1> DEFINE f == flush(s)
           m == CallsMessage(s.reasoning, s.pending)
<1>1. GoodReading(f) /\ (f.messages = s.messages \/ f.messages = Append(s.messages, m))
  BY FlushGood, FlushFields DEF GoodReading
<1> HIDE DEF f, m
<1>2. \A k \in DOMAIN s.messages : k \in DOMAIN f.messages /\ f.messages[k] = s.messages[k]
  <2>1. CASE f.messages = Append(s.messages, m)
    <3>1. LongerBy(f.messages, s.messages, m)
      BY <2>1, AppendLonger DEF GoodReading, GoodMessages
    <3> QED
      BY <3>1, LongerDomain
  <2> QED
    BY <1>1, <2>1
<1>3. ASSUME NEW x, Says(s, r, x)
      PROVE  \A k \in DOMAIN s.messages : k \in DOMAIN r.messages /\ r.messages[k] = s.messages[k]
  <2>1. r.messages = Append(f.messages, x)
    BY <1>3 DEF Says, f
  <2>2. LongerBy(r.messages, f.messages, x)
    BY <1>1, <2>1, AppendLonger DEF GoodReading, GoodMessages
  <2>3. \A k \in DOMAIN f.messages : k \in DOMAIN r.messages /\ r.messages[k] = f.messages[k]
    BY <2>2, LongerDomain
  <2> QED
    BY <1>2, <2>3
<1>4. CASE r.messages = s.messages
  BY <1>4
<1>5. CASE r = f
  BY <1>2, <1>5
<1>6. CASE Tells(s, item, r)
  BY <1>3, <1>6 DEF Tells
<1>7. CASE Summarises(s, item, r)
  BY <1>3, <1>7 DEF Summarises
<1>8. CASE Answers(s, item, r)
  BY <1>3, <1>8 DEF Answers
<1>9. CASE HidesPatch(s, item, r)
  <2>1. Says(s, r, ChatMessage("system", {"edit hidden"}, <<>>))
    BY <1>9 DEF HidesPatch, HidesEdit, Says
  <2> QED
    BY <1>3, <2>1
<1>10. \/ r.messages = s.messages \/ r = f \/ Tells(s, item, r) \/ Summarises(s, item, r)
       \/ Answers(s, item, r) \/ HidesPatch(s, item, r)
  BY DEF Reads, Passes, Drops, Flushes, HidesCall, ShowsCall, Leaves, f
<1> QED
  BY <1>4, <1>5, <1>6, <1>7, <1>8, <1>9, <1>10

\* Only a call makes itself known.
LEMMA ReadsKnows ==
  ASSUME NEW s, GoodReading(s), NEW item, NEW settings, NEW r, Reads(s, item, r, settings),
         NEW id, Knows(r, id)
  PROVE  Knows(s, id) \/ (id = item.id /\ ShowsCall(s, item, r))
<1>1. CASE r.known = s.known
  BY <1>1 DEF Knows
<1>2. CASE ShowsCall(s, item, r)
  BY <1>2 DEF ShowsCall, Knows
<1>3. flush(s).known = s.known
  BY FlushFields DEF GoodReading
<1>4. r.known = s.known \/ ShowsCall(s, item, r)
  <2>1. HidesPatch(s, item, r) => r.known = s.known
    BY DEF HidesPatch, HidesEdit, Says
  <2> QED
    BY <1>3, <2>1 DEF Reads, Passes, Tells, Drops, Summarises, Answers, Flushes, HidesCall, Knowing
<1> QED
  BY <1>1, <1>2, <1>4

LEMMA NearNext ==
  ASSUME NEW items, GoodItems(items), CallsOnce(items), NEW n \in Nat, n + 1 \in DOMAIN items,
         NEW s, GoodReading(s), ToldCalls(s, items, n),
         NEW settings, NEW r, Reads(s, items[n + 1], r, settings),
         NEW a \in 1 .. n + 1, NEW j, Follows(items, a, j), a <= n => ToldNear(s, items, n, a, j)
  PROVE  ToldNear(r, items, n + 1, a, j)
<1> DEFINE item == items[n + 1]
           id == items[a].id
<1>0. /\ DOMAIN items = 1 .. Len(items) /\ Len(items) \in Nat /\ j \in Nat /\ a \in Nat
      /\ a \in DOMAIN items /\ j \in DOMAIN items /\ a < j
      /\ IsCall(items[a]) /\ items[j].type = "output" /\ items[j].id = id
  BY SequenceFacts DEF GoodItems, Follows
<1> SUFFICES ASSUME Knows(r, id)
             PROVE  IF j <= n + 1 THEN NearBy(r.messages, id)
                    ELSE Waits(r, id) \/ (SaidLast(r, id) /\ \E o \in a + 1 .. n + 1 : items[o].type = "output")
  BY DEF ToldNear
<1>1. CASE a = n + 1
  <2>1. ~Knows(s, id)
    BY <1>0, <1>1, NewCall
  <2>2. ShowsCall(s, item, r)
    BY <1>1, <2>1, ReadsKnows
  <2>3. PICK call : call.id = id /\ r.pending = Append(s.pending, call)
    BY <1>1, <2>2 DEF ShowsCall
  <2>4. LongerBy(r.pending, s.pending, call)
    BY <2>3, AppendLonger DEF GoodReading
  <2>5. Waits(r, id)
    BY <2>3, <2>4, LongerDomain DEF Waits
  <2> QED
    BY <1>0, <1>1, <2>5
<1>2. CASE a <= n
  <2>1. Knows(s, id)
    <3>1. CASE id = item.id /\ ShowsCall(s, item, r)
      <4>1. IsCall(item) /\ n + 1 # a
        BY <1>0, <1>2, <3>1 DEF ShowsCall
      <4> QED
        BY <1>0, <3>1, <4>1 DEF CallsOnce
    <3> QED
      BY <3>1, ReadsKnows
  <2>2. IF j <= n THEN NearBy(s.messages, id)
        ELSE Waits(s, id) \/ (SaidLast(s, id) /\ \E o \in a + 1 .. n : items[o].type = "output")
    BY <1>2, <2>1 DEF ToldNear
  <2>3. CASE j <= n
    <3>1. PICK p, q \in DOMAIN s.messages :
            /\ Calls(s.messages[p], id) /\ s.messages[q].answers = id
            /\ p < q /\ \A k \in p + 1 .. q : s.messages[k].role = "tool"
      BY <2>2, <2>3 DEF NearBy
    <3>2. \A k \in DOMAIN s.messages : k \in DOMAIN r.messages /\ r.messages[k] = s.messages[k]
      BY ReadsAdds
    <3>3. \A k \in p + 1 .. q : k \in DOMAIN s.messages
      <4>1. DOMAIN s.messages = 1 .. Len(s.messages) /\ Len(s.messages) \in Nat
        BY SequenceFacts DEF GoodReading, GoodMessages
      <4> QED
        BY <3>1, <4>1
    <3>4. NearBy(r.messages, id)
      BY <3>1, <3>2, <3>3 DEF NearBy
    <3> QED
      BY <1>0, <2>3, <3>4
  <2> DEFINE f == flush(s)
  <2>4. ASSUME n < j
        PROVE  GoodReading(f) /\ SaidLast(f, id)
    BY <1>0, <2>2, <2>4, FlushGood, SaidFlush
  <2> HIDE DEF f
  <2>5. ASSUME Answers(s, item, r), n < j
        PROVE  SaidLast(r, id) /\ (item.id = id => NearBy(r.messages, id)) /\ item.type = "output"
    <3>1. PICK body : Says(s, r, ToolMessage(item.id, body, item.blocks))
      BY <2>5 DEF Answers
    <3> DEFINE m == ToolMessage(item.id, body, item.blocks)
    <3>2. m.role = "tool" /\ m.answers = item.id
      BY ToolMessageFields
    <3>3. r.messages = Append(f.messages, m) /\ r.pending = <<>>
      BY <3>1 DEF Says, f
    <3> HIDE DEF m
    <3>4. SaidLast(r, id) /\ (m.answers = id => NearBy(r.messages, id))
      BY <2>4, <2>5, <3>2, <3>3, SaidTool
    <3> QED
      BY <2>5, <3>2, <3>4 DEF Answers
  <2>6. CASE j = n + 1
    <3>1. item.type = "output" /\ item.id = id /\ ~IsCall(item) /\ ~Edited(s, id) /\ id \notin s.hidden
      BY <1>0, <2>1, <2>6, CallTypesAre DEF IsCall, ToldCalls
    <3>2. Answers(s, item, r)
      BY <2>1, <3>1 DEF Reads, Passes, Tells, Drops, Summarises, Flushes, HidesCall, HidesPatch, ShowsCall
    <3>3. NearBy(r.messages, id)
      BY <1>0, <2>5, <2>6, <3>1, <3>2
    <3> QED
      BY <1>0, <2>6, <3>3
  <2>7. CASE n + 1 < j
    <3> DEFINE Said == SaidLast(s, id) /\ \E o \in a + 1 .. n : items[o].type = "output"
               After == SaidLast(r, id) /\ \E o \in a + 1 .. n + 1 : items[o].type = "output"
    <3> SUFFICES Waits(r, id) \/ After
      BY <1>0, <2>7
    <3>1. Waits(s, id) \/ Said
      BY <1>0, <2>2, <2>7
    <3>2. /\ item.type # "message" /\ ~Hides(item)
          /\ item.type = "output" => ~ \E b \in DOMAIN items : Hides(items[b]) /\ items[b].id = item.id
      <4>1. n + 1 \in a + 1 .. j - 1
        BY <1>0, <1>2, <2>7
      <4> QED
        BY <4>1 DEF Follows, Cut
    <3>3. \A o \in a + 1 .. n : o \in a + 1 .. n + 1
      OBVIOUS
    <3>4. n + 1 \in a + 1 .. n + 1
      BY <1>0, <1>2
    <3>5. ASSUME Leaves(s, r) PROVE Waits(r, id) \/ After
      BY <3>1, <3>3, <3>5 DEF Leaves, Waits, SaidLast
    <3> HIDE DEF After
    <3>6. CASE Passes(s, item, r, settings)
      BY <3>5, <3>6 DEF Passes
    <3>7. CASE Drops(s, item, r)
      BY <3>5, <3>7 DEF Drops, Leaves
    <3>8. CASE Summarises(s, item, r)
      <4>1. \E b \in 1..n : Hides(items[b]) /\ items[b].id = item.id
        BY <3>8 DEF Summarises, ToldCalls
      <4>2. \A b \in 1..n : b \in DOMAIN items
        BY <1>0
      <4> QED
        BY <3>2, <3>8, <4>1, <4>2 DEF Summarises
    <3>9. CASE Answers(s, item, r)
      BY <1>0, <2>5, <2>7, <3>4, <3>9 DEF After
    <3>10. CASE Flushes(s, item, r)
      BY <1>0, <2>4, <2>7, <3>2, <3>4, <3>10 DEF Flushes, After, f
    <3>11. CASE HidesCall(s, item, r)
      BY <3>5, <3>11 DEF HidesCall
    <3>12. CASE ShowsCall(s, item, r)
      <4>1. ~Said
        <5> SUFFICES ASSUME NEW o \in a + 1 .. n, items[o].type = "output" PROVE FALSE
          OBVIOUS
        <5>1. o \in DOMAIN items /\ o < n + 1 /\ n + 1 < j /\ IsCall(items[n + 1])
          BY <1>0, <2>7, <3>12 DEF ShowsCall
        <5>2. PICK b \in o + 1 .. j - 1 : IsCall(items[b]) /\ items[b].id = items[j].id
          BY <1>0, <5>1, CallsComeFirst
        <5>3. b \in DOMAIN items /\ b # a
          BY <1>0, <5>1
        <5> QED
          BY <1>0, <5>2, <5>3 DEF CallsOnce
      <4>2. PICK call : r.pending = Append(s.pending, call)
        BY <3>12 DEF ShowsCall
      <4>3. LongerBy(r.pending, s.pending, call)
        BY <4>2, AppendLonger DEF GoodReading
      <4>4. \A k \in DOMAIN s.pending : k \in DOMAIN r.pending /\ r.pending[k] = s.pending[k]
        BY <4>3, LongerDomain
      <4>5. Waits(r, id)
        BY <3>1, <4>1, <4>4 DEF Waits
      <4> QED
        BY <4>5
    <3> QED
      BY <3>2, <3>6, <3>7, <3>8, <3>9, <3>10, <3>11, <3>12 DEF Reads, Tells, HidesPatch
  <2> QED
    BY <1>0, <2>3, <2>6, <2>7
<1> QED
  BY <1>1, <1>2

\* What calls and answers have been told after n items.
Told(s, items, n) ==
  /\ ToldCalls(s, items, n) /\ ToldAnswers(s, items, n)
  /\ \A a \in 1..n : \A j \in DOMAIN items : Follows(items, a, j) => ToldNear(s, items, n, a, j)

LEMMA NothingTold ==
  ASSUME NEW items
  PROVE  Told(NothingRead, items, 0)
<1>1. NothingRead.messages = <<>> /\ NothingRead.pending = <<>> /\ NothingRead.known = {}
      /\ NothingRead.edits = {} /\ NothingRead.hidden = {}
  BY DEF NothingRead
<1>2. 1..0 = {}
  OBVIOUS
<1>3. \A id : ~Knows(NothingRead, id) /\ ~Edited(NothingRead, id) /\ ~Waits(NothingRead, id)
              /\ id \notin NothingRead.hidden /\ ~Shows(NothingRead.messages, id)
  BY <1>1, NoneSequence DEF Knows, Edited, Waits, Shows
<1>4. ToldCalls(NothingRead, items, 0)
  BY <1>1, <1>2, <1>3, NoneSequence DEF ToldCalls
<1>5. ToldAnswers(NothingRead, items, 0)
  BY <1>1, <1>2, NoneSequence DEF ToldAnswers
<1> QED
  BY <1>2, <1>4, <1>5 DEF Told

LEMMA ReadingsTold ==
  ASSUME NEW items, GoodItems(items), CallsOnce(items), NEW settings, NEW registry, NEW calls
  PROVE  \A n \in 0 .. Len(items) : Told(Readings(items, settings, registry, calls)[n], items, n)
<1> DEFINE read == Readings(items, settings, registry, calls)
           G == {n \in Nat : n <= Len(items) => Told(read[n], items, n)}
<1>0. Len(items) \in Nat /\ DOMAIN items = 1 .. Len(items)
  BY SequenceFacts DEF GoodItems
<1>1. read[0] = NothingRead
      /\ \A n \in 1 .. Len(items) : read[n] = convertItem(read[n - 1], items[n], settings, registry, calls)
  BY <1>0, ReadingsLoop
<1>5. \A n \in 0 .. Len(items) : GoodReading(read[n])
  BY ReadingsGood
<1> HIDE DEF read
<1>2. 0 \in G
  BY <1>1, NothingTold
<1>3. ASSUME NEW n \in Nat, n \in G PROVE n + 1 \in G
  <2> SUFFICES ASSUME n + 1 <= Len(items) PROVE Told(read[n + 1], items, n + 1)
    OBVIOUS
  <2>1. n + 1 \in 1 .. Len(items) /\ (n + 1) - 1 = n /\ Told(read[n], items, n)
        /\ n \in 0 .. Len(items) /\ n + 1 \in DOMAIN items
    BY <1>0, <1>3
  <2> DEFINE s == read[n]
             r == read[n + 1]
  <2>2. r = convertItem(s, items[n + 1], settings, registry, calls) /\ GoodReading(s)
    BY <1>1, <1>5, <2>1
  <2> HIDE DEF s, r
  <2>3. Reads(s, items[n + 1], r, settings)
    BY <2>2, ConvertReads DEF GoodReading
  <2>4. Told(s, items, n)
    BY <2>1 DEF s
  <2>5. ToldCalls(r, items, n + 1) /\ ToldAnswers(r, items, n + 1)
    BY <2>1, <2>2, <2>3, <2>4, ToldNext, AnswersNext DEF Told
  <2>6. ASSUME NEW a \in 1 .. n + 1, NEW j \in DOMAIN items, Follows(items, a, j)
        PROVE  ToldNear(r, items, n + 1, a, j)
    <3>1. a <= n => ToldNear(s, items, n, a, j)
      BY <2>4, <2>6 DEF Told
    <3> QED
      BY <2>1, <2>2, <2>3, <2>4, <2>6, <3>1, NearNext DEF Told
  <2>7. Told(r, items, n + 1)
    BY <2>5, <2>6 DEF Told
  <2> QED
    BY <2>7 DEF r
<1>4. Nat \subseteq G
  <2> HIDE DEF G
  <2> QED
    BY <1>2, <1>3, SetInduction
<1> QED
  BY <1>0, <1>4 DEF read

\* Messages answer each call shown with its output, as far as it has one.
Answered(messages, items) ==
  /\ \A p \in DOMAIN messages : messages[p].answers # 0 =>
       \E j \in DOMAIN items : AnswersWith(messages[p], items[j])
  /\ \A p, q \in DOMAIN messages :
       messages[p].answers # 0 /\ messages[p].answers = messages[q].answers => p = q
  /\ \A j \in DOMAIN items : items[j].type = "output" /\ Shows(messages, items[j].id) =>
       \E p \in DOMAIN messages : messages[p].answers = items[j].id
  /\ \A a, j \in DOMAIN items : Follows(items, a, j) /\ Shows(messages, items[a].id) =>
       NearBy(messages, items[a].id)
  /\ \A id : \A p, q \in DOMAIN messages : Calls(messages[p], id) /\ Calls(messages[q], id) => p = q
  /\ \A id : Shows(messages, id) => \E a \in DOMAIN items : IsCall(items[a]) /\ items[a].id = id

LEMMA OneShown ==
  ASSUME NEW messages, NEW items, Answered(messages, items), NEW id,
         NEW p \in DOMAIN messages, NEW q \in DOMAIN messages,
         Calls(messages[p], id), Calls(messages[q], id)
  PROVE  p = q
BY DEF Answered

LEMMA AllAnswered ==
  ASSUME NEW items, GoodItems(items), NEW s, GoodReading(s), Told(s, items, Len(items))
  PROVE  Answered(flush(s).messages, items)
<1> DEFINE f == flush(s)
           N == Len(items)
<1>1. N \in Nat /\ DOMAIN items = 1..N
  BY SequenceFacts DEF GoodItems
<1>2. ToldCalls(f, items, N) /\ ToldAnswers(f, items, N) /\ Knowing(s, f)
  BY ToldFlush, AnswersFlush DEF Told
<1>3. f.pending = <<>>
  BY FlushFields DEF GoodReading
<1>4. \A k \in DOMAIN s.messages : k \in DOMAIN f.messages /\ f.messages[k] = s.messages[k]
  <2> DEFINE m == CallsMessage(s.reasoning, s.pending)
  <2>1. f.messages = s.messages \/ f.messages = Append(s.messages, m)
    BY FlushFields DEF GoodReading
  <2> HIDE DEF f, m
  <2>2. CASE f.messages = Append(s.messages, m)
    <3>1. LongerBy(f.messages, s.messages, m)
      BY <2>2, AppendLonger DEF GoodReading, GoodMessages
    <3> QED
      BY <3>1, LongerDomain
  <2> QED
    BY <2>1, <2>2
<1> HIDE DEF f, N
<1>5. \A id : (Knows(f, id) <=> Shows(f.messages, id)) /\ (Knows(f, id) <=> Knows(s, id))
  <2>1. \A id : ~Waits(f, id)
    BY <1>3, NoneSequence DEF Waits
  <2> QED
    BY <1>2, <2>1 DEF ToldCalls, Knowing, Knows
<1>6. ASSUME NEW a \in DOMAIN items, NEW j \in DOMAIN items, Follows(items, a, j),
             Shows(f.messages, items[a].id)
      PROVE  NearBy(f.messages, items[a].id)
  <2> DEFINE id == items[a].id
  <2>1. ToldNear(s, items, N, a, j) /\ j <= N /\ Knows(s, id)
    BY <1>1, <1>5, <1>6 DEF Told, N
  <2>2. NearBy(s.messages, id)
    BY <2>1 DEF ToldNear
  <2>3. PICK p, q \in DOMAIN s.messages :
            /\ Calls(s.messages[p], id) /\ s.messages[q].answers = id
            /\ p < q /\ \A k \in p + 1 .. q : s.messages[k].role = "tool"
    BY <2>2 DEF NearBy
  <2>4. \A k \in p + 1 .. q : k \in DOMAIN s.messages
    <3>1. DOMAIN s.messages = 1 .. Len(s.messages) /\ Len(s.messages) \in Nat
      BY SequenceFacts DEF GoodReading, GoodMessages
    <3> QED
      BY <2>3, <3>1
  <2> QED
    BY <1>4, <2>3, <2>4 DEF NearBy
<1>7. \A j \in DOMAIN items : items[j].type = "output" /\ Shows(f.messages, items[j].id) =>
       \E p \in DOMAIN f.messages : f.messages[p].answers = items[j].id
  BY <1>1, <1>2, <1>5 DEF ToldAnswers
<1>8. \A id : Shows(f.messages, id) => \E a \in DOMAIN items : IsCall(items[a]) /\ items[a].id = id
  BY <1>1, <1>2, <1>5 DEF ToldCalls
<1>9. Answered(f.messages, items)
  BY <1>1, <1>2, <1>6, <1>7, <1>8 DEF Answered, ToldAnswers, ToldCalls
<1> QED
  BY <1>9 DEF f

\* Where the messages that are kept have been.
KeptFrom(kept, messages, from) ==
  /\ \A k \in DOMAIN kept :
       /\ from[k] \in DOMAIN messages
       /\ kept[k].role = messages[from[k]].role /\ kept[k].body = messages[from[k]].body
       /\ kept[k].calls = messages[from[k]].calls /\ kept[k].answers = messages[from[k]].answers
       /\ kept[k].reasoning = messages[from[k]].reasoning
  /\ \A k, l \in DOMAIN kept : k < l => from[k] < from[l]
  /\ \A p \in DOMAIN messages : (\E k \in DOMAIN kept : from[k] = p) \/ messages[p].role = "user"

LEMMA KeptPlaces ==
  ASSUME NEW messages, GoodMessages(messages), NEW kept, kept = keepLatestEnvironmentContext(messages)
  PROVE  \E from : KeptFrom(kept, messages, from)
<1>0. DOMAIN messages = 1 .. Len(messages) /\ Len(messages) \in Nat
  BY SequenceFacts DEF GoodMessages
<1>1. CASE Len(Contexts(messages)) <= 1
  <2>1. kept = messages
    BY <1>1 DEF keepLatestEnvironmentContext
  <2> DEFINE from == [k \in DOMAIN messages |-> k]
  <2>2. KeptFrom(kept, messages, from)
    BY <2>1 DEF KeptFrom
  <2> QED
    BY <2>2
<1>2. CASE ~ (Len(Contexts(messages)) <= 1)
  <2>1. Holders(messages) # {}
    BY <1>2, ContextsHeld, SequenceFacts
  <2> DEFINE ss == [i \in DOMAIN messages |-> keptMessage(messages, i)]
  <2>2. kept = FlattenSeq(ss)
    BY <1>2 DEF keepLatestEnvironmentContext
  <2>3. IsSequence(ss) /\ DOMAIN ss = DOMAIN messages
        /\ \A i \in DOMAIN ss : ss[i] = keptMessage(messages, i) /\ GoodMessages(ss[i])
    BY <2>1, KeptPieces
  <2> HIDE DEF ss
  <2>4. \A i \in DOMAIN messages :
          \/ ss[i] = <<>> /\ messages[i].role = "user"
          \/ /\ DOMAIN ss[i] = {1}
             /\ ss[i][1].role = messages[i].role /\ ss[i][1].body = messages[i].body
             /\ ss[i][1].calls = messages[i].calls /\ ss[i][1].answers = messages[i].answers
             /\ ss[i][1].reasoning = messages[i].reasoning
    <3> TAKE i \in DOMAIN messages
    <3> DEFINE held == IF i = Max(Holders(messages)) THEN <<Last(messages[i].blocks)>> ELSE <<>>
    <3>1. \/ ss[i] = <<>> /\ messages[i].role = "user"
          \/ \E k : ss[i] = <<k>> /\ k = [messages[i] EXCEPT !.blocks = held]
      <4>1. \/ /\ keptMessage(messages, i) = <<>> /\ held = <<>>
               /\ messages[i].role = "user" /\ messages[i].body = {}
            \/ \E k : /\ keptMessage(messages, i) = <<k>> /\ k = [messages[i] EXCEPT !.blocks = held]
                      /\ GoodMessage(k)
        BY <2>1, Kept
      <4>2. ss[i] = keptMessage(messages, i)
        BY <2>3
      <4> HIDE DEF held
      <4> QED
        BY <4>1, <4>2
    <3>2. ASSUME NEW k, ss[i] = <<k>>, k = [messages[i] EXCEPT !.blocks = held]
          PROVE  /\ DOMAIN ss[i] = {1}
                 /\ ss[i][1].role = messages[i].role /\ ss[i][1].body = messages[i].body
                 /\ ss[i][1].calls = messages[i].calls /\ ss[i][1].answers = messages[i].answers
                 /\ ss[i][1].reasoning = messages[i].reasoning
      <4>1. DOMAIN ss[i] = {1} /\ ss[i][1] = k
        BY <3>2, OneDomain, OneAny
      <4>2. IsMessage(messages[i])
        BY DEF GoodMessages, GoodMessage
      <4> HIDE DEF held
      <4>3. k.role = messages[i].role /\ k.body = messages[i].body
            /\ k.calls = messages[i].calls /\ k.answers = messages[i].answers
            /\ k.reasoning = messages[i].reasoning
        BY <3>2, <4>2 DEF IsMessage
      <4> QED
        BY <4>1, <4>3
    <3> QED
      BY <3>1, <3>2
  <2>5. \A i \in DOMAIN ss : IsSequence(ss[i])
    BY <2>3 DEF GoodMessages
  <2>6. IsSequence(kept) /\ \E off : Placed(ss, kept, off)
    BY <2>2, <2>3, <2>5, FlattenPlaced
  <2>7. PICK off : Placed(ss, kept, off)
    BY <2>6
  <2>8. \A i \in DOMAIN ss : off[i - 1] \in Nat
    BY <2>7 DEF Placed
  <2> DEFINE Comes(k, i) == i \in DOMAIN messages /\ DOMAIN ss[i] = {1} /\ k = off[i - 1] + 1 /\ kept[k] = ss[i][1]
             from == [k \in DOMAIN kept |-> CHOOSE i : Comes(k, i)]
  <2>9. \A k \in DOMAIN kept : Comes(k, from[k])
    <3> TAKE k \in DOMAIN kept
    <3>1. PICK i \in DOMAIN ss : \E j \in DOMAIN ss[i] : k = off[i - 1] + j /\ kept[k] = ss[i][j]
      BY <2>7 DEF Placed
    <3>2. PICK j \in DOMAIN ss[i] : k = off[i - 1] + j /\ kept[k] = ss[i][j]
      BY <3>1
    <3>3. DOMAIN ss[i] = {1} /\ j = 1
      BY <2>3, <2>4, <3>2, NoneSequence
    <3>4. Comes(k, i)
      BY <2>3, <3>2, <3>3
    <3> HIDE DEF Comes
    <3> QED
      BY <3>4
  <2> HIDE DEF from
  <2>10. \A k \in DOMAIN kept :
       /\ from[k] \in DOMAIN messages
       /\ kept[k].role = messages[from[k]].role /\ kept[k].body = messages[from[k]].body
       /\ kept[k].calls = messages[from[k]].calls /\ kept[k].answers = messages[from[k]].answers
       /\ kept[k].reasoning = messages[from[k]].reasoning
    BY <2>4, <2>9, NoneSequence
  <2>11. ASSUME NEW i \in DOMAIN messages, NEW p \in DOMAIN messages, i < p,
                DOMAIN ss[i] = {1}, DOMAIN ss[p] = {1}
         PROVE  off[i - 1] + 1 < off[p - 1] + 1
    <3>1. 1 \in DOMAIN ss[i] /\ 1 \in DOMAIN ss[p]
      BY <2>11
    <3> QED
      BY <2>3, <2>7, <2>11, <3>1 DEF Placed
  <2>12. \A k, l \in DOMAIN kept : k < l => from[k] < from[l]
    <3> SUFFICES ASSUME NEW k \in DOMAIN kept, NEW l \in DOMAIN kept, k < l, ~(from[k] < from[l]) PROVE FALSE
      OBVIOUS
    <3>1. from[k] \in DOMAIN messages /\ from[l] \in DOMAIN messages
          /\ DOMAIN ss[from[k]] = {1} /\ DOMAIN ss[from[l]] = {1}
          /\ k = off[from[k] - 1] + 1 /\ l = off[from[l] - 1] + 1
      BY <2>9
    <3>2. from[l] < from[k] \/ from[l] = from[k]
      BY <1>0, <3>1
    <3>3. CASE from[l] < from[k]
      <4>1. l < k
        BY <2>11, <3>1, <3>3
      <4>2. k \in Nat /\ l \in Nat
        BY <2>6, SequenceFacts
      <4> QED
        BY <4>1, <4>2
    <3>4. CASE from[l] = from[k]
      <4>1. k = l /\ k \in Nat
        BY <2>6, <3>1, <3>4, SequenceFacts
      <4> QED
        BY <4>1
    <3> QED
      BY <3>2, <3>3, <3>4
  <2>13. \A p \in DOMAIN messages : (\E k \in DOMAIN kept : from[k] = p) \/ messages[p].role = "user"
    <3> SUFFICES ASSUME NEW p \in DOMAIN messages, messages[p].role # "user"
                 PROVE  \E k \in DOMAIN kept : from[k] = p
      OBVIOUS
    <3>1. DOMAIN ss[p] = {1} /\ 1 \in DOMAIN ss[p]
      BY <2>4
    <3> DEFINE k == off[p - 1] + 1
    <3>2. k \in DOMAIN kept
      BY <2>3, <2>7, <3>1 DEF Placed
    <3>3. from[k] \in DOMAIN messages /\ DOMAIN ss[from[k]] = {1} /\ k = off[from[k] - 1] + 1
      BY <2>9, <3>2
    <3>4. ~(from[k] < p) /\ ~(p < from[k])
      <4>1. off[p - 1] \in Nat /\ off[from[k] - 1] \in Nat
        BY <2>3, <2>8, <3>3
      <4> HIDE DEF k
      <4>2. ~(from[k] < p)
        <5> SUFFICES ASSUME from[k] < p PROVE FALSE
          OBVIOUS
        <5>1. off[from[k] - 1] + 1 < off[p - 1] + 1
          BY <2>11, <3>1, <3>3
        <5> QED
          BY <3>3, <4>1, <5>1 DEF k
      <4>3. ~(p < from[k])
        <5> SUFFICES ASSUME p < from[k] PROVE FALSE
          OBVIOUS
        <5>1. off[p - 1] + 1 < off[from[k] - 1] + 1
          BY <2>11, <3>1, <3>3
        <5> QED
          BY <3>3, <4>1, <5>1 DEF k
      <4> QED
        BY <4>2, <4>3
    <3>5. from[k] = p
      BY <1>0, <3>3, <3>4
    <3> QED
      BY <3>2, <3>5
  <2>14. KeptFrom(kept, messages, from)
    BY <2>10, <2>12, <2>13 DEF KeptFrom
  <2> QED
    BY <2>14
<1> QED
  BY <1>1, <1>2

\* Calls have numbers.
CallsNumbered(items) == \A i \in DOMAIN items : IsCall(items[i]) => items[i].id # 0

LEMMA KeepAnswered ==
  ASSUME NEW items, CallsOnce(items), GoodItems(items), CallsNumbered(items),
         NEW messages, GoodMessages(messages), Answered(messages, items), MessagesApart(messages),
         NEW kept, GoodMessages(kept), NEW from, KeptFrom(kept, messages, from)
  PROVE  Answered(kept, items) /\ MessagesApart(kept)
<1>0. /\ DOMAIN kept = 1 .. Len(kept) /\ Len(kept) \in Nat
      /\ DOMAIN messages = 1 .. Len(messages) /\ Len(messages) \in Nat
  BY SequenceFacts DEF GoodMessages
<1>1. \A k, l \in DOMAIN kept : (from[k] = from[l] => k = l) /\ (from[k] < from[l] => k < l)
  <2> SUFFICES ASSUME NEW k \in DOMAIN kept, NEW l \in DOMAIN kept
               PROVE  (from[k] = from[l] => k = l) /\ (from[k] < from[l] => k < l)
    OBVIOUS
  <2>1. from[k] \in 1 .. Len(messages) /\ from[l] \in 1 .. Len(messages)
    BY <1>0 DEF KeptFrom
  <2>2. k \in Nat /\ l \in Nat /\ (k < l => from[k] < from[l]) /\ (l < k => from[l] < from[k])
    BY <1>0 DEF KeptFrom
  <2> QED
    BY <1>0, <2>1, <2>2
<1>2. \A k \in DOMAIN kept : from[k] \in DOMAIN messages
         /\ (\A id : Calls(kept[k], id) <=> Calls(messages[from[k]], id))
         /\ kept[k].answers = messages[from[k]].answers /\ kept[k].role = messages[from[k]].role
  BY DEF KeptFrom, Calls
<1>3. \A id : Shows(kept, id) => Shows(messages, id)
  BY <1>2 DEF Shows
<1>4. \A p \in DOMAIN kept : kept[p].answers # 0 => \E j \in DOMAIN items : AnswersWith(kept[p], items[j])
  <2> SUFFICES ASSUME NEW p \in DOMAIN kept, kept[p].answers # 0
               PROVE  \E j \in DOMAIN items : AnswersWith(kept[p], items[j])
    OBVIOUS
  <2>1. from[p] \in DOMAIN messages /\ messages[from[p]].answers = kept[p].answers
        /\ messages[from[p]].body = kept[p].body
    BY DEF KeptFrom
  <2>2. PICK j \in DOMAIN items : AnswersWith(messages[from[p]], items[j])
    BY <2>1 DEF Answered
  <2> QED
    BY <2>1, <2>2 DEF AnswersWith
<1>5. \A p, q \in DOMAIN kept : kept[p].answers # 0 /\ kept[p].answers = kept[q].answers => p = q
  BY <1>1, <1>2 DEF Answered
<1>6. \A p \in DOMAIN messages : messages[p].answers # 0 \/ messages[p].calls # <<>> =>
        \E k \in DOMAIN kept : from[k] = p
  <2> TAKE p \in DOMAIN messages
  <2>1. GoodMessage(messages[p])
    BY DEF GoodMessages
  <2> QED
    BY <2>1 DEF GoodMessage, KeptFrom
<1>7. \A j \in DOMAIN items : items[j].type = "output" /\ Shows(kept, items[j].id) =>
        \E p \in DOMAIN kept : kept[p].answers = items[j].id
  <2> SUFFICES ASSUME NEW j \in DOMAIN items, items[j].type = "output", Shows(kept, items[j].id)
               PROVE  \E p \in DOMAIN kept : kept[p].answers = items[j].id
    OBVIOUS
  <2>1. PICK p \in DOMAIN messages : messages[p].answers = items[j].id
    BY <1>3 DEF Answered
  <2>2. items[j].id # 0
    BY <1>3 DEF Answered, CallsNumbered
  <2> QED
    BY <1>2, <1>6, <2>1, <2>2
<1>8. ASSUME NEW id, NearBy(messages, id), id # 0 PROVE NearBy(kept, id)
  <2>1. PICK p, q \in DOMAIN messages :
          /\ Calls(messages[p], id) /\ messages[q].answers = id
          /\ p < q /\ \A k \in p + 1 .. q : messages[k].role = "tool"
    BY <1>8 DEF NearBy
  <2>2. messages[p].calls # <<>>
    BY <2>1, NoneSequence DEF Calls
  <2>3. PICK k \in DOMAIN kept : from[k] = p
    BY <1>6, <2>2
  <2>4. PICK l \in DOMAIN kept : from[l] = q
    BY <1>6, <1>8, <2>1
  <2>5. \A x \in k + 1 .. l : kept[x].role = "tool"
    <3> TAKE x \in k + 1 .. l
    <3>1. x \in DOMAIN kept /\ k < x /\ (x = l \/ x < l)
      BY <1>0
    <3>2. from[x] \in Nat /\ from[k] < from[x] /\ (from[x] = from[l] \/ from[x] < from[l])
      <4>1. from[x] \in DOMAIN messages
        BY <3>1 DEF KeptFrom
      <4>2. (\A y, z \in DOMAIN kept : y < z => from[y] < from[z])
        BY DEF KeptFrom
      <4> QED
        BY <1>0, <3>1, <4>1, <4>2
    <3>3. from[x] \in p + 1 .. q
      BY <1>0, <2>3, <2>4, <3>2
    <3> QED
      BY <1>2, <2>1, <3>1, <3>3
  <2>6. k < l
    BY <1>1, <2>1, <2>3, <2>4
  <2> QED
    BY <1>2, <2>1, <2>3, <2>4, <2>5, <2>6 DEF NearBy
<1>9. \A a, j \in DOMAIN items : Follows(items, a, j) /\ Shows(kept, items[a].id) => NearBy(kept, items[a].id)
  <2> SUFFICES ASSUME NEW a \in DOMAIN items, NEW j \in DOMAIN items, Follows(items, a, j),
                      Shows(kept, items[a].id)
               PROVE  NearBy(kept, items[a].id)
    OBVIOUS
  <2>1. NearBy(messages, items[a].id)
    BY <1>3 DEF Answered
  <2>2. items[a].id # 0
    BY DEF Follows, CallsNumbered
  <2> QED
    BY <1>8, <2>1, <2>2
<1>10. \A id : \A p, q \in DOMAIN kept : Calls(kept[p], id) /\ Calls(kept[q], id) => p = q
  BY <1>1, <1>2 DEF Answered
<1>11. \A id : Shows(kept, id) => \E a \in DOMAIN items : IsCall(items[a]) /\ items[a].id = id
  BY <1>3 DEF Answered
<1>12. Answered(kept, items)
  BY <1>4, <1>5, <1>7, <1>9, <1>10, <1>11 DEF Answered
<1>13. MessagesApart(kept)
  BY DEF MessagesApart, KeptFrom
<1> QED
  BY <1>12, <1>13

\* A repaired call stands at a place of its own, its answer behind it; the
\* messages without calls and answers are the others.
RepairedAt(whole, messages, place) ==
  /\ \A p \in DOMAIN messages : \A c \in DOMAIN messages[p].calls :
       /\ place[p][c] \in DOMAIN whole /\ place[p][c] + 1 \in DOMAIN whole
       /\ whole[place[p][c]] = pairs(messages, p)[c][1]
       /\ whole[place[p][c] + 1] = pairs(messages, p)[c][2]
  /\ \A k \in DOMAIN whole : \E p \in DOMAIN messages :
       \/ messages[p].calls = <<>> /\ messages[p].role # "tool" /\ whole[k] = messages[p]
       \/ \E c \in DOMAIN messages[p].calls : k = place[p][c] \/ k = place[p][c] + 1

LEMMA RepairedPlaces ==
  ASSUME NEW messages, GoodMessages(messages), NEW whole, whole = repairToolPairing(messages)
  PROVE  \E place : RepairedAt(whole, messages, place)
<1> DEFINE ss == [i \in DOMAIN messages |-> repairedMessage(messages, i)]
<1>1. whole = FlattenSeq(ss)
  BY DEF repairToolPairing
<1>2. /\ IsSequence(ss) /\ DOMAIN ss = DOMAIN messages
      /\ \A i \in DOMAIN ss :
           /\ GoodMessages(ss[i])
           /\ messages[i].calls # <<>> => ss[i] = FlattenSeq(pairs(messages, i))
           /\ messages[i].calls = <<>> /\ messages[i].role = "tool" => ss[i] = <<>>
           /\ messages[i].calls = <<>> /\ messages[i].role # "tool" => ss[i] = <<messages[i]>>
  BY RepairPieces
<1> HIDE DEF ss
<1>3. \A i \in DOMAIN ss : IsSequence(ss[i])
  BY <1>2 DEF GoodMessages
<1>4. IsSequence(whole) /\ \E off : Placed(ss, whole, off)
  BY <1>1, <1>2, <1>3, FlattenPlaced
<1>5. PICK off : Placed(ss, whole, off)
  BY <1>4
<1> DEFINE ps(p) == pairs(messages, p)
           in(p) == CHOOSE o : Placed(ps(p), ss[p], o)
           place == [p \in DOMAIN messages |->
                       [c \in DOMAIN messages[p].calls |-> off[p - 1] + (in(p)[c - 1] + 1)]]
<1>6. ASSUME NEW p \in DOMAIN messages, messages[p].calls # <<>>
      PROVE  Placed(ps(p), ss[p], in(p)) /\ DOMAIN ps(p) = DOMAIN messages[p].calls
             /\ \A c \in DOMAIN messages[p].calls : DOMAIN ps(p)[c] = {1, 2}
  <2>1. /\ IsSequence(ps(p)) /\ DOMAIN ps(p) = DOMAIN messages[p].calls
        /\ \A c \in DOMAIN messages[p].calls : GoodMessages(ps(p)[c]) /\ DOMAIN ps(p)[c] = {1, 2}
    BY PairsOf
  <2>2. ss[p] = FlattenSeq(ps(p))
    BY <1>2, <1>6
  <2>3. \A c \in DOMAIN ps(p) : IsSequence(ps(p)[c])
    BY <2>1 DEF GoodMessages
  <2> HIDE DEF ps
  <2>4. \E o : Placed(ps(p), ss[p], o)
    BY <2>1, <2>2, <2>3, FlattenPlaced
  <2> QED
    BY <2>1, <2>4
<1> HIDE DEF ps, in
<1>7. ASSUME NEW p \in DOMAIN messages, NEW c \in DOMAIN messages[p].calls
      PROVE  /\ place[p][c] \in DOMAIN whole /\ place[p][c] + 1 \in DOMAIN whole
             /\ whole[place[p][c]] = pairs(messages, p)[c][1]
             /\ whole[place[p][c] + 1] = pairs(messages, p)[c][2]
  <2>1. messages[p].calls # <<>>
    BY NoneSequence
  <2>2. c \in DOMAIN ps(p) /\ 1 \in DOMAIN ps(p)[c] /\ 2 \in DOMAIN ps(p)[c] /\ Placed(ps(p), ss[p], in(p))
    BY <1>6, <2>1
  <2> DEFINE i == in(p)[c - 1]
             o == off[p - 1]
  <2>3. /\ i \in Nat /\ i + 1 \in DOMAIN ss[p] /\ ss[p][i + 1] = ps(p)[c][1]
        /\ i + 2 \in DOMAIN ss[p] /\ ss[p][i + 2] = ps(p)[c][2]
    BY <2>2 DEF Placed
  <2>4. /\ o \in Nat /\ o + (i + 1) \in DOMAIN whole /\ whole[o + (i + 1)] = ss[p][i + 1]
        /\ o + (i + 2) \in DOMAIN whole /\ whole[o + (i + 2)] = ss[p][i + 2]
    BY <1>2, <1>5, <2>3 DEF Placed
  <2>5. place[p][c] = o + (i + 1)
    OBVIOUS
  <2> HIDE DEF i, o, place
  <2>6. place[p][c] + 1 = o + (i + 2)
    BY <2>3, <2>4, <2>5
  <2> QED
    BY <2>3, <2>4, <2>5, <2>6 DEF ps
<1>8. ASSUME NEW k \in DOMAIN whole
      PROVE  \E p \in DOMAIN messages :
               \/ messages[p].calls = <<>> /\ messages[p].role # "tool" /\ whole[k] = messages[p]
               \/ \E c \in DOMAIN messages[p].calls : k = place[p][c] \/ k = place[p][c] + 1
  <2>1. PICK p \in DOMAIN ss : \E j \in DOMAIN ss[p] : k = off[p - 1] + j /\ whole[k] = ss[p][j]
    BY <1>5 DEF Placed
  <2>2. PICK j \in DOMAIN ss[p] : k = off[p - 1] + j /\ whole[k] = ss[p][j]
    BY <2>1
  <2>3. CASE messages[p].calls = <<>>
    <3>1. ss[p] = <<messages[p]>> /\ messages[p].role # "tool"
      BY <1>2, <2>1, <2>2, <2>3, NoneSequence
    <3>2. j = 1 /\ ss[p][1] = messages[p]
      BY <2>2, <3>1, OneDomain, OneAny
    <3> QED
      BY <1>2, <2>2, <2>3, <3>1, <3>2
  <2>4. CASE messages[p].calls # <<>>
    <3>0. p \in DOMAIN messages
      BY <1>2
    <3>1. Placed(ps(p), ss[p], in(p)) /\ DOMAIN ps(p) = DOMAIN messages[p].calls
          /\ \A c \in DOMAIN messages[p].calls : DOMAIN ps(p)[c] = {1, 2}
      BY <1>6, <2>4, <3>0
    <3>2. PICK c \in DOMAIN messages[p].calls : \E l \in DOMAIN ps(p)[c] : j = in(p)[c - 1] + l
      BY <3>1 DEF Placed
    <3>3. PICK l \in {1, 2} : j = in(p)[c - 1] + l
      BY <3>1, <3>2
    <3> DEFINE i == in(p)[c - 1]
               o == off[p - 1]
    <3>4. i \in Nat /\ o \in Nat
      BY <1>5, <3>1, <3>2 DEF Placed
    <3>5. place[p][c] = o + (i + 1)
      BY <3>0
    <3>6. k = o + (i + l)
      BY <2>2, <3>3
    <3> HIDE DEF i, o, place
    <3>7. k = place[p][c] \/ k = place[p][c] + 1
      BY <3>3, <3>4, <3>5, <3>6
    <3> QED
      BY <3>0, <3>2, <3>7
  <2> QED
    BY <2>3, <2>4
<1> HIDE DEF place
<1>9. RepairedAt(whole, messages, place)
  BY <1>7, <1>8 DEF RepairedAt
<1> QED
  BY <1>9

\* No output is the word that there is none.
LEMMA OutputIsResult ==
  ASSUME NEW m, NEW item, GoodItem(item), AnswersWith(m, item)
  PROVE  m.body # NoResult
<1> DEFINE body == item.body
           note == "no result: the previous turn was interrupted"
<1>1. body \cap NoResult = {} /\ (m.body = body \/ m.body = formatTextEditorToolOutput(body))
  BY DEF GoodItem, AnswersWith
<1>2. NoResult = {note}
  BY DEF NoResult
<1>3. body \subseteq formatTextEditorToolOutput(body)
  BY DEF formatTextEditorToolOutput
<1>4. formatTextEditorToolOutput({}) = {}
  <2>1. ClassifyPatchFailure({}) = "none"
    <3>1. {i \in DOMAIN PatchRules : PatchRules[i].phrases \cap {} # {}} = {}
      OBVIOUS
    <3> QED
      BY <3>1 DEF ClassifyPatchFailure
  <2>2. ~PatchSucceeded({})
    BY DEF PatchSucceeded
  <2> QED
    BY <2>1, <2>2 DEF formatTextEditorToolOutput
<1> HIDE DEF body, note
<1>5. CASE body = {}
  BY <1>1, <1>2, <1>4, <1>5
<1>6. CASE body # {}
  BY <1>1, <1>2, <1>3, <1>6
<1> QED
  BY <1>5, <1>6

OutputsIn(items, id) == {j \in DOMAIN items : items[j].type = "output" /\ items[j].id = id}
AnswersTo(messages, id) == {j \in DOMAIN messages : messages[j].answers = id}

\* Nothing stands between the call and its output.
Uncut(items, id) ==
  \A a, j \in DOMAIN items :
    IsCall(items[a]) /\ items[a].id = id /\ j \in OutputsIn(items, id) /\ a < j => ~Cut(items, a, j)

\* An answer is an output's; a call that is shown has one if it has an output.
LEMMA AnswersAre ==
  ASSUME NEW items, GoodItems(items), CallsOnce(items), CallsNumbered(items),
         NEW messages, GoodMessages(messages), Answered(messages, items),
         NEW id, Shows(messages, id)
  PROVE  /\ id # 0
         /\ \A p \in AnswersTo(messages, id) : OutputsIn(items, id) # {} /\ messages[p].body # NoResult
         /\ OutputsIn(items, id) # {} => Cardinality(AnswersTo(messages, id)) = 1
         /\ OutputsIn(items, id) # {} /\ Uncut(items, id) => NearBy(messages, id)
<1>1. PICK a \in DOMAIN items : IsCall(items[a]) /\ items[a].id = id
  BY DEF Answered
<1>2. id # 0
  BY <1>1 DEF CallsNumbered
<1>3. ASSUME NEW p \in AnswersTo(messages, id)
      PROVE  OutputsIn(items, id) # {} /\ messages[p].body # NoResult
  <2>1. p \in DOMAIN messages /\ messages[p].answers = id
    BY <1>3 DEF AnswersTo
  <2>2. PICK j \in DOMAIN items : AnswersWith(messages[p], items[j])
    BY <1>2, <2>1 DEF Answered
  <2>3. messages[p].body # NoResult
    BY <2>2, OutputIsResult DEF GoodItems
  <2>4. j \in OutputsIn(items, id)
    BY <2>1, <2>2 DEF AnswersWith, OutputsIn
  <2> QED
    BY <2>3, <2>4
<1>4. ASSUME NEW j \in OutputsIn(items, id)
      PROVE  /\ Cardinality(AnswersTo(messages, id)) = 1
             /\ Uncut(items, id) => NearBy(messages, id)
  <2>1. j \in DOMAIN items /\ items[j].type = "output" /\ items[j].id = id
    BY <1>4 DEF OutputsIn
  <2>2. PICK p \in DOMAIN messages : messages[p].answers = id
    BY <2>1 DEF Answered
  <2>3. AnswersTo(messages, id) = {p}
    BY <1>2, <2>2 DEF Answered, AnswersTo
  <2>4. Cardinality(AnswersTo(messages, id)) = 1
    BY <2>3, FS_Singleton
  <2>5. ASSUME Uncut(items, id) PROVE NearBy(messages, id)
    <3>0. DOMAIN items = 1 .. Len(items) /\ Len(items) \in Nat
      BY SequenceFacts DEF GoodItems
    <3>1. PICK i \in 1 .. j - 1 : IsCall(items[i]) /\ items[i].id = id
      BY <2>1 DEF CallsOnce
    <3>2. i \in DOMAIN items /\ i < j /\ j \in i + 1 .. Len(items)
      BY <2>1, <3>0
    <3>3. Follows(items, i, j)
      BY <1>4, <2>1, <2>5, <3>1, <3>2 DEF Uncut, Follows
    <3> QED
      BY <2>1, <3>1, <3>2, <3>3 DEF Answered
  <2> QED
    BY <2>4, <2>5
<1> QED
  BY <1>2, <1>3, <1>4

\* An answer near by is one of those that a call is paired with.
LEMMA NearIsMine ==
  ASSUME NEW messages, GoodMessages(messages), NEW items, Answered(messages, items),
         NEW p \in DOMAIN messages, NEW call, Calls(messages[p], call.id),
         NearBy(messages, call.id)
  PROVE  Mine(call, messages, p) # {}
<1>1. PICK i, q \in DOMAIN messages :
        /\ Calls(messages[i], call.id) /\ messages[q].answers = call.id
        /\ i < q /\ \A k \in i + 1 .. q : messages[k].role = "tool"
  BY DEF NearBy
<1>2. i = p
  BY <1>1 DEF Answered
<1>3. q \in p + 1 .. Len(messages)
  <2>1. DOMAIN messages = 1 .. Len(messages) /\ Len(messages) \in Nat
    BY SequenceFacts DEF GoodMessages
  <2> QED
    BY <1>1, <1>2, <2>1
<1>4. q \in Mine(call, messages, p)
  BY <1>1, <1>2, <1>3 DEF Mine, candidates
<1> QED
  BY <1>4

\* What is asked of the call c that message i shows.
AnsweredAt(whole, items, repair, i, c) ==
  /\ repair => Cardinality(ToSet(whole[i].calls)) = 1 /\ AnswersTo(whole, c.id) = {i + 1}
  /\ Uncut(items, c.id) =>
       /\ \A j \in AnswersTo(whole, c.id) : OutputsIn(items, c.id) = {} <=> whole[j].body = NoResult
       /\ OutputsIn(items, c.id) # {} => Cardinality(AnswersTo(whole, c.id)) = 1

LEMMA RepairAnswered ==
  ASSUME NEW items, GoodItems(items), CallsOnce(items), CallsNumbered(items),
         NEW messages, GoodMessages(messages), Answered(messages, items), MessagesApart(messages),
         NEW whole, whole = repairToolPairing(messages),
         NEW i \in DOMAIN whole, NEW c \in ToSet(whole[i].calls)
  PROVE  AnsweredAt(whole, items, TRUE, i, c)
<1>1. PICK place : RepairedAt(whole, messages, place)
  BY RepairedPlaces
<1>2. \A p \in DOMAIN messages : \A k \in DOMAIN messages[p].calls :
        LET call == messages[p].calls[k] IN
        /\ whole[place[p][k]].calls = <<call>> /\ whole[place[p][k]].answers = 0
        /\ whole[place[p][k] + 1].calls = <<>> /\ whole[place[p][k] + 1].answers = call.id
        /\ Mine(call, messages, p) = {} => whole[place[p][k] + 1] = ToolMessage(call.id, NoResult, <<>>)
        /\ Mine(call, messages, p) # {} =>
             \E h \in Mine(call, messages, p) : whole[place[p][k] + 1] = messages[h]
  <2> TAKE p \in DOMAIN messages
  <2> TAKE k \in DOMAIN messages[p].calls
  <2> DEFINE call == messages[p].calls[k]
             t == pairedToolMessage(call, messages, p)
  <2>1. pairs(messages, p)[k][1].calls = <<call>> /\ pairs(messages, p)[k][1].answers = 0
        /\ pairs(messages, p)[k][2] = t
    BY PairsOf
  <2>2. whole[place[p][k]] = pairs(messages, p)[k][1] /\ whole[place[p][k] + 1] = pairs(messages, p)[k][2]
    BY <1>1 DEF RepairedAt
  <2>3. /\ t.answers = call.id /\ t.calls = <<>>
        /\ \/ Mine(call, messages, p) = {} /\ t = ToolMessage(call.id, NoResult, <<>>)
           \/ /\ Mine(call, messages, p) # {} /\ t = messages[Max(Mine(call, messages, p))]
              /\ Max(Mine(call, messages, p)) \in Mine(call, messages, p)
    BY Paired
  <2> HIDE DEF t, call
  <2>4. /\ whole[place[p][k]].calls = <<call>> /\ whole[place[p][k]].answers = 0
        /\ whole[place[p][k] + 1].calls = <<>> /\ whole[place[p][k] + 1].answers = call.id
        /\ Mine(call, messages, p) = {} => whole[place[p][k] + 1] = ToolMessage(call.id, NoResult, <<>>)
        /\ Mine(call, messages, p) # {} =>
             \E h \in Mine(call, messages, p) : whole[place[p][k] + 1] = messages[h]
    BY <2>1, <2>2, <2>3
  <2> QED
    BY <2>4 DEF call
<1>3. \A k \in DOMAIN whole : \E p \in DOMAIN messages :
        \/ messages[p].calls = <<>> /\ messages[p].answers = 0 /\ whole[k] = messages[p]
        \/ \E l \in DOMAIN messages[p].calls : k = place[p][l] \/ k = place[p][l] + 1
  <2>1. \A p \in DOMAIN messages : messages[p].role # "tool" => messages[p].answers = 0
    BY DEF GoodMessages, GoodMessage
  <2> QED
    BY <1>1, <2>1 DEF RepairedAt
<1>4. whole[i].calls # <<>>
  BY NoneSequence DEF ToSet
<1>5. PICK p \in DOMAIN messages : \E l \in DOMAIN messages[p].calls : i = place[p][l]
  BY <1>2, <1>3, <1>4
<1>6. PICK l \in DOMAIN messages[p].calls : i = place[p][l]
  BY <1>5
<1> DEFINE id == messages[p].calls[l].id
<1>7. ToSet(whole[i].calls) = {c} /\ c = messages[p].calls[l] /\ c.id = id
  <2>1. whole[i].calls = <<messages[p].calls[l]>>
    BY <1>2, <1>6
  <2>2. ToSet(<<messages[p].calls[l]>>) = {messages[p].calls[l]}
    BY OneDomain, OneAny DEF ToSet
  <2> QED
    BY <2>1, <2>2
<1>8. Calls(messages[p], id) /\ Shows(messages, id)
  BY DEF Calls, Shows
<1>9. /\ id # 0
      /\ \A q \in AnswersTo(messages, id) : OutputsIn(items, id) # {} /\ messages[q].body # NoResult
      /\ OutputsIn(items, id) # {} /\ Uncut(items, id) => NearBy(messages, id)
  BY <1>8, AnswersAre
<1>10. i + 1 \in DOMAIN whole /\ whole[i + 1].answers = id
  BY <1>1, <1>2, <1>6 DEF RepairedAt
<1>11. AnswersTo(whole, id) = {i + 1}
  <2>1. ASSUME NEW j \in DOMAIN whole, whole[j].answers = id PROVE j = i + 1
    <3>1. PICK q \in DOMAIN messages : \E k \in DOMAIN messages[q].calls : j = place[q][k] + 1
      BY <1>2, <1>3, <1>9, <2>1
    <3>2. PICK k \in DOMAIN messages[q].calls : j = place[q][k] + 1
      BY <3>1
    <3>3. messages[q].calls[k].id = id
      BY <1>2, <2>1, <3>2
    <3>4. Calls(messages[q], id)
      BY <3>3 DEF Calls
    <3>6. q = p
      BY <1>8, <3>4, OneShown
    <3>5. k = l
      BY <3>3, <3>6 DEF MessagesApart, CallsApart
    <3> QED
      BY <1>6, <3>2, <3>5, <3>6
  <2> QED
    BY <1>10, <2>1 DEF AnswersTo
<1>12. ASSUME Uncut(items, id)
       PROVE  OutputsIn(items, id) = {} <=> whole[i + 1].body = NoResult
  <2> DEFINE call == messages[p].calls[l]
             mine == Mine(call, messages, p)
  <2>1. /\ mine = {} => whole[i + 1] = ToolMessage(call.id, NoResult, <<>>)
        /\ mine # {} => \E h \in mine : whole[i + 1] = messages[h]
    BY <1>2, <1>6
  <2>2. \A h \in mine : h \in AnswersTo(messages, id)
    BY MineIn DEF AnswersTo
  <2>3. OutputsIn(items, id) # {} => mine # {}
    BY <1>8, <1>9, <1>12, NearIsMine
  <2>4. ToolMessage(call.id, NoResult, <<>>).body = NoResult
    BY ToolMessageFields
  <2> HIDE DEF mine
  <2> QED
    BY <1>9, <2>1, <2>2, <2>3, <2>4
<1>13. Cardinality({c}) = 1 /\ Cardinality({i + 1}) = 1
  BY FS_Singleton
<1> HIDE DEF id
<1> QED
  BY <1>7, <1>11, <1>12, <1>13 DEF AnsweredAt

LEMMA RequestAnswered ==
  ASSUME NEW items, GoodItems(items), CallsOnce(items), CallsNumbered(items),
         NEW messages, GoodMessages(messages), Answered(messages, items), MessagesApart(messages),
         NEW settings, NEW whole, whole = PrepareChatRequest(messages, settings),
         NEW i \in DOMAIN whole, NEW c \in ToSet(whole[i].calls)
  PROVE  AnsweredAt(whole, items, settings.repair, i, c)
<1>1. CASE settings.repair
  <2>1. whole = repairToolPairing(messages)
    BY <1>1 DEF PrepareChatRequest
  <2>2. AnsweredAt(whole, items, TRUE, i, c)
    BY <2>1, RepairAnswered
  <2> QED
    BY <1>1, <2>2 DEF AnsweredAt
<1>2. CASE ~settings.repair
  <2>1. whole = messages
    BY <1>2 DEF PrepareChatRequest
  <2>2. Shows(messages, c.id)
    BY <2>1 DEF Shows, Calls, ToSet
  <2>3. /\ \A j \in AnswersTo(messages, c.id) : OutputsIn(items, c.id) # {} /\ messages[j].body # NoResult
        /\ OutputsIn(items, c.id) # {} => Cardinality(AnswersTo(messages, c.id)) = 1
    BY <2>2, AnswersAre
  <2> QED
    BY <1>2, <2>1, <2>3 DEF AnsweredAt
<1> QED
  BY <1>1, <1>2

\* An item of the history that cuts a call off is one of those that CutOff names.
LEMMA HistoryUncut ==
  ASSUME Good, Orderly, NEW id, ~CutOff(id)
  PROVE  Uncut(history, id)
<1> SUFFICES ASSUME NEW a \in DOMAIN history, NEW j \in DOMAIN history,
                    IsCall(history[a]), history[a].id = id, j \in OutputsIn(history, id), a < j,
                    Cut(history, a, j)
             PROVE  FALSE
  BY DEF Uncut
<1>0. DOMAIN history = 1 .. Len(history) /\ Len(history) \in Nat
  BY SequenceFacts DEF Good, GoodState, GoodItems
<1>1. PICK k \in a + 1 .. j - 1 :
        \/ history[k].type = "message" \/ Hides(history[k])
        \/ /\ history[k].type = "output"
           /\ \E b \in DOMAIN history : Hides(history[b]) /\ history[b].id = history[k].id
  BY DEF Cut
<1>2. k \in DOMAIN history /\ a < k /\ k < j /\ j \in OutputsOf(id)
  BY <1>0 DEF OutputsIn, OutputsOf
<1>3. ASSUME NEW b \in DOMAIN history, Hides(history[b])
      PROVE  \E m \in HiddenEdits : m.call.id = history[b].id
  <2>1. IsCall(history[b])
    BY <1>3, CallTypesAre DEF Hides
  <2>2. PICK m \in made : m.item = history[b] /\ m.call.id = history[b].id
    BY <2>1 DEF Orderly, HistoryOnce, IsMade
  <2> QED
    BY <1>3, <2>1, <2>2 DEF HiddenEdits, Hides
<1>4. history[k].type = "message" \/ (history[k].type \in {"custom_tool_call", "output"}
        /\ \E m \in HiddenEdits : m.call.id = history[k].id)
  <2>1. Hides(history[k]) => history[k].type = "custom_tool_call"
    BY DEF Hides, IsPatch
  <2> QED
    BY <1>1, <1>2, <1>3, <2>1
<1> QED
  BY <1>2, <1>4 DEF CutOff

\* Each call shown to the model has the one answer that Codex recorded for it,
\* or, where pairs are repaired, the word that there is none exactly if there is
\* none, right behind it: for any tools, histories, interrupts and profiles.  Of
\* the CutOff calls, those with a hidden edit, a note or a text between them and
\* their output, only the pairing is said: repaired, one answer follows, which may
\* be the word that there is none although there is one (deepseek.go:49).
THEOREM CallsAreAnswered == Spec => []AnsweredByResult
<1>1. Steady => AnsweredByResult
  <2> SUFFICES ASSUME Steady, Fresh, NEW i \in Messages, NEW c \in CallsAt(i)
               PROVE  LET answers == {j \in Messages : request.messages[j].answers = c.id}
                      IN  /\ Settings.repair => Cardinality(CallsAt(i)) = 1 /\ answers = {i + 1}
                          /\ ~CutOff(c.id) =>
                               /\ \A j \in answers :
                                    OutputsOf(c.id) = {} <=> request.messages[j].body = NoResult
                               /\ OutputsOf(c.id) # {} => Cardinality(answers) = 1
    BY DEF AnsweredByResult
  <2> DEFINE whole == request.messages
  <2>1. PICK registry, calls : whole = PrepareChatRequest(ToChatMessages(history, Settings, registry, calls), Settings)
    BY DEF Steady, Sent
  <2>2. GoodItems(history) /\ CallsOnce(history) /\ AskedIn(history, asks.count, asks.env)
    BY DEF Steady, Good, GoodState, Orderly, HistoryOnce, Asked
  <2>3. CallsNumbered(history)
    BY DEF Steady, Good, GoodAnswer, Orderly, HistoryOnce, IsMade, Numbered, CallsNumbered
  <2> HIDE DEF whole
  <2> DEFINE s == Readings(history, Settings, registry, calls)[Len(history)]
             read == flush(s).messages
             kept == keepLatestEnvironmentContext(read)
  <2>4. whole = PrepareChatRequest(kept, Settings)
    BY <2>1 DEF ToChatMessages
  <2>5. Len(history) \in 0 .. Len(history)
    BY <2>2, SequenceFacts DEF GoodItems
  <2>6. GoodReading(s) /\ Told(s, history, Len(history)) /\ SeenBy(s, history, Len(history))
    BY <2>2, <2>5, ReadingsGood, ReadingsTold, ReadingsSeen DEF AskedIn
  <2> HIDE DEF s
  <2>7. GoodMessages(read) /\ Answered(read, history) /\ MessagesApart(read)
    <3>1. SeenBy(flush(s), history, Len(history))
      BY <2>6, FlushSeen DEF GoodReading
    <3> QED
      BY <2>2, <2>6, <3>1, FlushGood, AllAnswered DEF GoodReading, SeenBy
  <2> HIDE DEF read
  <2>8. GoodMessages(kept) /\ \E from : KeptFrom(kept, read, from)
    BY <2>7, KeepGood, KeptPlaces
  <2> HIDE DEF kept
  <2>9. Answered(kept, history) /\ MessagesApart(kept)
    BY <2>2, <2>3, <2>7, <2>8, KeepAnswered
  <2>10. i \in DOMAIN whole /\ c \in ToSet(whole[i].calls) /\ ToSet(whole[i].calls) = CallsAt(i)
    BY DEF Messages, CallsAt, whole
  <2>11. AnsweredAt(whole, history, Settings.repair, i, c)
    BY <2>2, <2>3, <2>4, <2>8, <2>9, <2>10, RequestAnswered
  <2>12. ~CutOff(c.id) => Uncut(history, c.id)
    BY HistoryUncut DEF Steady
  <2>13. /\ AnswersTo(whole, c.id) = {j \in Messages : request.messages[j].answers = c.id}
         /\ OutputsIn(history, c.id) = OutputsOf(c.id)
    BY DEF AnswersTo, OutputsIn, OutputsOf, Messages, whole
  <2> QED
    BY <2>10, <2>11, <2>12, <2>13 DEF AnsweredAt, whole
<1> QED
  BY <1>1, AlwaysSteady, PTL

-----------------------------------------------------------------------------
(* Reasoning in what has been read.                                        *)

\* Behind every call stands a text or its output.
Settled(items, n) ==
  \A a \in 1..n : IsCall(items[a]) =>
    \E k \in a + 1 .. n : items[k].type = "message" \/ (items[k].type = "output" /\ items[k].id = items[a].id)

\* Reasoning comes when nothing is open.
ReasonsSettled(items) ==
  \A t \in DOMAIN items : items[t].type = "reasoning" => items[t] = ReasoningItem(t) /\ Settled(items, t - 1)

\* Between the reasoning and the item stand only texts and calls.
Open(items, t, n) ==
  t \in DOMAIN items /\ items[t].type = "reasoning"
  /\ \A k \in t + 1 .. n : items[k].type = "message" \/ IsCall(items[k])
NoneKnown(s, items, t, n) == \A k \in t + 1 .. n : IsCall(items[k]) => ~Knows(s, items[k].id)

\* A call that waits has neither a text nor its output behind it.
Waiting(s, items, n) ==
  \A a \in 1..n : IsCall(items[a]) /\ Waits(s, items[a].id) =>
    \A k \in a + 1 .. n : items[k].type # "message" /\ ~(items[k].type = "output" /\ items[k].id = items[a].id)

\* The reasoning waits for the first call that is shown.
Thinking(s, items, n) ==
  \A t \in 1..n : Open(items, t, n) /\ NoneKnown(s, items, t, n) => s.reasoning = t /\ s.pending = <<>>

\* It is with that call.
FirstPending(s, id, t) == s.pending # <<>> /\ s.pending[1].id = id /\ s.reasoning = t
FirstOf(messages, id, t) ==
  \E p \in DOMAIN messages :
    messages[p].calls # <<>> /\ messages[p].calls[1].id = id /\ messages[p].reasoning = t
IsOfThought(items, t, a) == IsCall(items[a]) /\ Open(items, t, a - 1)
ThoughtsRead(s, items, n) ==
  \A a \in 1..n : \A t \in 1 .. a - 1 :
    IsOfThought(items, t, a) /\ Knows(s, items[a].id) /\ NoneKnown(s, items, t, a - 1) =>
      FirstPending(s, items[a].id, t) \/ FirstOf(s.messages, items[a].id, t)

\* After an item that is said or flushes, no call waits.
LEMMA ReadsWaits ==
  ASSUME NEW s, GoodReading(s), NEW item, NEW settings, NEW r, Reads(s, item, r, settings)
  PROVE  \/ r.pending = <<>>
         \/ /\ r.pending = s.pending /\ r.messages = s.messages /\ item.type # "message"
            /\ item.type = "output" => item.id \in s.hidden
         \/ ShowsCall(s, item, r)
<1>1. flush(s).pending = <<>>
  BY FlushFields DEF GoodReading
<1>2. HidesPatch(s, item, r) => r.pending = <<>>
  BY DEF HidesPatch, HidesEdit, Says
<1>3. Tells(s, item, r) \/ Summarises(s, item, r) \/ Answers(s, item, r) => r.pending = <<>>
  BY DEF Tells, Summarises, Answers, Says
<1>4. HidesCall(s, item, r) => r.pending = s.pending /\ r.messages = s.messages
                               /\ item.type # "message" /\ item.type # "output"
  BY CallTypesAre DEF HidesCall, Leaves, IsCall
<1> QED
  BY <1>1, <1>2, <1>3, <1>4 DEF Reads, Passes, Drops, Flushes, Leaves

LEMMA WaitingNext ==
  ASSUME NEW items, GoodItems(items), CallsOnce(items), NEW n \in Nat, n + 1 \in DOMAIN items,
         NEW s, GoodReading(s), ToldCalls(s, items, n), Waiting(s, items, n),
         NEW settings, NEW r, Reads(s, items[n + 1], r, settings)
  PROVE  Waiting(r, items, n + 1)
<1> DEFINE item == items[n + 1]
<1>0. DOMAIN items = 1 .. Len(items) /\ Len(items) \in Nat
  BY SequenceFacts DEF GoodItems
<1> SUFFICES ASSUME NEW a \in 1 .. n + 1, IsCall(items[a]), Waits(r, items[a].id),
                    NEW k \in a + 1 .. n + 1
             PROVE  items[k].type # "message" /\ ~(items[k].type = "output" /\ items[k].id = items[a].id)
  BY DEF Waiting
<1> HIDE DEF item
<1>1. a \in 1..n /\ a \in DOMAIN items /\ (k \in a + 1 .. n \/ k = n + 1)
  BY <1>0
<1>2. r.pending # <<>>
  BY NoneSequence DEF Waits
<1>3. CASE r.pending = s.pending /\ item.type # "message" /\ (item.type = "output" => item.id \in s.hidden)
  <2>1. Waits(s, items[a].id)
    BY <1>3 DEF Waits
  <2>2. items[a].id \notin s.hidden
    BY <2>1 DEF ToldCalls
  <2> QED
    BY <1>1, <1>3, <2>1, <2>2 DEF Waiting, item
<1>4. CASE ShowsCall(s, item, r)
  <2>1. PICK call : call.id = item.id /\ r.pending = Append(s.pending, call)
    BY <1>4 DEF ShowsCall
  <2>2. LongerBy(r.pending, s.pending, call)
    BY <2>1, AppendLonger DEF GoodReading
  <2>3. Waits(s, items[a].id) \/ items[a].id = item.id
    BY <2>1, <2>2, LongerDomain DEF Waits
  <2>4. items[a].id # item.id
    <3>1. IsCall(item) /\ a # n + 1
      BY <1>0, <1>1, <1>4 DEF ShowsCall
    <3> QED
      BY <1>1, <3>1 DEF CallsOnce, item
  <2>5. item.type # "message" /\ item.type # "output"
    BY <1>4, CallTypesAre DEF ShowsCall, IsCall
  <2> QED
    BY <1>1, <2>3, <2>4, <2>5 DEF Waiting, item
<1> QED
  BY <1>2, <1>3, <1>4, ReadsWaits DEF item

\* Where everything is settled no call waits.
LEMMA SettledNonePending ==
  ASSUME NEW s, GoodReading(s), NEW items, NEW n, ToldCalls(s, items, n), Waiting(s, items, n),
         Settled(items, n)
  PROVE  s.pending = <<>>
<1>1. \A id : ~Waits(s, id)
  <2> SUFFICES ASSUME NEW id, Waits(s, id) PROVE FALSE
    OBVIOUS
  <2>1. PICK a \in 1..n : IsCall(items[a]) /\ items[a].id = id
    BY DEF ToldCalls
  <2> QED
    BY <2>1 DEF Waiting, Settled
<1>2. DOMAIN s.pending = {}
  BY <1>1 DEF Waits
<1> QED
  BY <1>2, ShortSequence DEF GoodReading

\* What is known stays known.
LEMMA ReadsKeeps ==
  ASSUME NEW s, GoodReading(s), NEW item, NEW settings, NEW r, Reads(s, item, r, settings),
         NEW id, Knows(s, id)
  PROVE  Knows(r, id)
<1>1. flush(s).known = s.known
  BY FlushFields DEF GoodReading
<1>2. HidesPatch(s, item, r) => r.known = s.known
  BY DEF HidesPatch, HidesEdit, Says
<1>3. r.known = s.known \/ ShowsCall(s, item, r)
  BY <1>1, <1>2 DEF Reads, Passes, Tells, Drops, Summarises, Answers, Flushes, HidesCall, Knowing
<1>4. CASE r.known = s.known
  BY <1>4 DEF Knows
<1>5. CASE ShowsCall(s, item, r)
  <2>1. PICK call : call.id = item.id /\ r.known = {c \in s.known : c.id # item.id} \cup {call}
    BY <1>5 DEF ShowsCall
  <2> QED
    BY <2>1 DEF Knows
<1> QED
  BY <1>3, <1>4, <1>5

\* Nothing but reasoning and calls touches the reasoning while no call waits.
LEMMA ReasoningStays ==
  ASSUME NEW s, GoodReading(s), s.pending = <<>>, NEW item, NEW settings, NEW r,
         Reads(s, item, r, settings), item.type # "reasoning", ~ShowsCall(s, item, r)
  PROVE  r.reasoning = s.reasoning /\ r.pending = <<>>
<1>1. flush(s) = s
  BY DEF flush
<1>2. HidesPatch(s, item, r) => r.reasoning = s.reasoning /\ r.pending = <<>>
  BY <1>1 DEF HidesPatch, HidesEdit, Says
<1> QED
  BY <1>1, <1>2 DEF Reads, Passes, Tells, Drops, Summarises, Answers, Flushes, HidesCall, Leaves, Says

LEMMA ThinkingNext ==
  ASSUME NEW items, GoodItems(items), CallsOnce(items), ReasonsSettled(items),
         NEW n \in Nat, n + 1 \in DOMAIN items,
         NEW s, GoodReading(s), ToldCalls(s, items, n), Waiting(s, items, n), Thinking(s, items, n),
         NEW settings, settings.reasoning, NEW r, Reads(s, items[n + 1], r, settings)
  PROVE  Thinking(r, items, n + 1)
<1> DEFINE item == items[n + 1]
<1>0. DOMAIN items = 1 .. Len(items) /\ Len(items) \in Nat
  BY SequenceFacts DEF GoodItems
<1> SUFFICES ASSUME NEW t \in 1 .. n + 1, Open(items, t, n + 1), NoneKnown(r, items, t, n + 1)
             PROVE  r.reasoning = t /\ r.pending = <<>>
  BY DEF Thinking
<1> HIDE DEF item
<1>1. CASE t = n + 1
  <2>1. item.type = "reasoning" /\ item = ReasoningItem(t) /\ Settled(items, n)
    BY <1>1 DEF Open, ReasonsSettled, item
  <2>2. s.pending = <<>>
    BY <2>1, SettledNonePending
  <2>3. Passes(s, item, r, settings)
    BY <2>1, CallTypesAre DEF Reads, Tells, Drops, Summarises, Answers, Flushes, HidesCall, HidesPatch, ShowsCall,
       IsCall, item
  <2>4. item.text = t
    BY <2>1 DEF ReasoningItem
  <2> QED
    BY <2>1, <2>2, <2>3, <2>4 DEF Passes, Leaves
<1>2. CASE t # n + 1
  <2>1. t \in 1..n /\ n + 1 \in t + 1 .. n + 1 /\ \A k \in t + 1 .. n : k \in t + 1 .. n + 1
    BY <1>2
  <2>2. Open(items, t, n) /\ (item.type = "message" \/ IsCall(item))
    BY <2>1 DEF Open, item
  <2>3. NoneKnown(s, items, t, n)
    <3>1. \A k \in t + 1 .. n : Knows(s, items[k].id) => Knows(r, items[k].id)
      BY ReadsKeeps
    <3> QED
      BY <2>1, <3>1 DEF NoneKnown
  <2>4. s.reasoning = t /\ s.pending = <<>>
    BY <2>1, <2>2, <2>3 DEF Thinking
  <2>5. item.type # "reasoning"
    BY <2>2, CallTypesAre DEF IsCall
  <2>6. ~ShowsCall(s, item, r)
    <3> SUFFICES ASSUME ShowsCall(s, item, r) PROVE FALSE
      OBVIOUS
    <3>1. IsCall(item) /\ Knows(r, item.id)
      BY DEF ShowsCall, Knows
    <3> QED
      BY <2>1, <3>1 DEF NoneKnown, item
  <2> QED
    BY <2>4, <2>5, <2>6, ReasoningStays DEF item
<1> QED
  BY <1>1, <1>2

\* Flushed, the reasoning is with the calls that waited.
LEMMA FlushFirst ==
  ASSUME NEW s, GoodReading(s), NEW id, NEW t, FirstPending(s, id, t)
  PROVE  FirstOf(flush(s).messages, id, t)
<1> DEFINE f == flush(s)
           m == CallsMessage(s.reasoning, s.pending)
<1>1. f.messages = Append(s.messages, m)
  BY FlushFields DEF GoodReading, FirstPending
<1>2. m.calls = s.pending /\ m.reasoning = s.reasoning
  BY CallsMessageFields
<1> HIDE DEF f, m
<1>3. LongerBy(f.messages, s.messages, m)
  BY <1>1, AppendLonger DEF GoodReading, GoodMessages
<1>4. Len(s.messages) + 1 \in DOMAIN f.messages /\ f.messages[Len(s.messages) + 1] = m
  BY <1>3, LongerDomain
<1>5. FirstOf(f.messages, id, t)
  BY <1>2, <1>4 DEF FirstOf, FirstPending
<1> QED
  BY <1>5 DEF f

\* What stands in the messages of a flushed reading stands in those read next.
LEMMA ReadsFlushed ==
  ASSUME NEW s, GoodReading(s), NEW item, NEW settings, NEW r, Reads(s, item, r, settings),
         r.pending = <<>>, s.pending # <<>>, NEW id, NEW t, FirstOf(flush(s).messages, id, t)
  PROVE  FirstOf(r.messages, id, t)
<1> DEFINE f == flush(s)
<1>1. GoodReading(f)
  BY FlushGood
<1>2. \/ r = f \/ \E m : Says(s, r, m)
  <2>1. ~ShowsCall(s, item, r)
    <3> SUFFICES ASSUME NEW call, r.pending = Append(s.pending, call) PROVE FALSE
      BY DEF ShowsCall
    <3>1. LongerBy(r.pending, s.pending, call)
      BY AppendLonger DEF GoodReading
    <3> QED
      BY <3>1, LongerDomain, NoneSequence
  <2>2. HidesPatch(s, item, r) => \E m : Says(s, r, m)
    BY DEF HidesPatch, HidesEdit, Says
  <2>3. ~Passes(s, item, r, settings) /\ ~Drops(s, item, r) /\ ~HidesCall(s, item, r)
    BY DEF Passes, Drops, HidesCall, Leaves
  <2> QED
    BY <2>1, <2>2, <2>3 DEF Reads, Tells, Summarises, Answers, Flushes
<1>3. CASE r = f
  BY <1>3
<1>4. CASE \E m : Says(s, r, m)
  <2>1. PICK m : r.messages = Append(f.messages, m)
    BY <1>4 DEF Says
  <2> HIDE DEF f
  <2>2. LongerBy(r.messages, f.messages, m)
    BY <1>1, <2>1, AppendLonger DEF GoodReading, GoodMessages
  <2>3. \A k \in DOMAIN f.messages : k \in DOMAIN r.messages /\ r.messages[k] = f.messages[k]
    BY <2>2, LongerDomain
  <2>4. FirstOf(f.messages, id, t)
    BY DEF f
  <2> QED
    BY <2>3, <2>4 DEF FirstOf
<1> QED
  BY <1>2, <1>3, <1>4

LEMMA ThoughtsNext ==
  ASSUME NEW items, GoodItems(items), CallsOnce(items), ReasonsSettled(items),
         NEW n \in Nat, n + 1 \in DOMAIN items,
         NEW s, GoodReading(s), ToldCalls(s, items, n), Waiting(s, items, n), Thinking(s, items, n),
         ThoughtsRead(s, items, n),
         NEW settings, settings.reasoning, NEW r, Reads(s, items[n + 1], r, settings)
  PROVE  ThoughtsRead(r, items, n + 1)
<1> DEFINE item == items[n + 1]
<1>0. DOMAIN items = 1 .. Len(items) /\ Len(items) \in Nat
  BY SequenceFacts DEF GoodItems
<1> SUFFICES ASSUME NEW a \in 1 .. n + 1, NEW t \in 1 .. a - 1, IsOfThought(items, t, a),
                    Knows(r, items[a].id), NoneKnown(r, items, t, a - 1)
             PROVE  FirstPending(r, items[a].id, t) \/ FirstOf(r.messages, items[a].id, t)
  BY DEF ThoughtsRead
<1> DEFINE id == items[a].id
<1>1. NoneKnown(s, items, t, a - 1)
  <2>1. \A k \in t + 1 .. a - 1 : Knows(s, items[k].id) => Knows(r, items[k].id)
    BY ReadsKeeps
  <2> QED
    BY <2>1 DEF NoneKnown
<1>2. IsCall(items[a]) /\ Open(items, t, a - 1)
  BY DEF IsOfThought
<1>3. CASE a = n + 1
  <2>1. ~Knows(s, id)
    BY <1>2, <1>3, NewCall
  <2>2. ShowsCall(s, item, r)
    BY <1>3, <2>1, ReadsKnows
  <2>3. t \in 1..n /\ a - 1 = n
    BY <1>3
  <2>4. s.reasoning = t /\ s.pending = <<>>
    BY <1>1, <1>2, <2>3 DEF Thinking
  <2>5. PICK call : call.id = id /\ r.pending = Append(s.pending, call) /\ r.reasoning = s.reasoning
    BY <1>3, <2>2 DEF ShowsCall
  <2>6. LongerBy(r.pending, s.pending, call)
    BY <2>5, AppendLonger DEF GoodReading
  <2>7. 1 \in DOMAIN r.pending /\ r.pending[1] = call
    <3>1. Len(s.pending) + 1 = 1
      BY <2>4, NoneSequence
    <3> QED
      BY <2>6, <3>1, LongerDomain
  <2>8. r.pending # <<>>
    BY <2>7, NoneSequence
  <2> QED
    BY <2>4, <2>5, <2>7, <2>8 DEF FirstPending
<1>4. CASE a # n + 1
  <2>1. a \in 1..n /\ a \in DOMAIN items
    BY <1>0, <1>4
  <2>2. Knows(s, id)
    <3>1. CASE id = item.id /\ ShowsCall(s, item, r)
      BY <1>2, <1>4, <2>1, <3>1 DEF CallsOnce, ShowsCall
    <3> QED
      BY <3>1, ReadsKnows
  <2>3. FirstPending(s, id, t) \/ FirstOf(s.messages, id, t)
    BY <1>1, <2>1, <2>2 DEF ThoughtsRead
  <2> HIDE DEF id, item
  <2>4. CASE FirstOf(s.messages, id, t)
    <3>1. \A k \in DOMAIN s.messages : k \in DOMAIN r.messages /\ r.messages[k] = s.messages[k]
      BY ReadsAdds DEF item
    <3>2. FirstOf(r.messages, id, t)
      BY <2>4, <3>1 DEF FirstOf
    <3> QED
      BY <3>2 DEF id
  <2>5. CASE FirstPending(s, id, t)
    <3>1. CASE r.pending = <<>>
      <4>1. s.pending # <<>>
        BY <2>5 DEF FirstPending
      <4>2. FirstOf(r.messages, id, t)
        BY <2>5, <3>1, <4>1, FlushFirst, ReadsFlushed
      <4> QED
        BY <4>2 DEF id
    <3>2. CASE r.pending = s.pending /\ r.pending # <<>> /\ r.messages = s.messages
      <4>1. item.type # "reasoning"
        <5> SUFFICES ASSUME item.type = "reasoning" PROVE FALSE
          OBVIOUS
        <5>1. Settled(items, (n + 1) - 1)
          BY DEF ReasonsSettled, item
        <5>2. s.pending = <<>>
          BY <5>1, SettledNonePending
        <5> QED
          BY <3>2, <5>2
      <4>2. r.reasoning = s.reasoning
        <5>1. flush(s).pending = <<>>
          BY FlushFields DEF GoodReading
        <5>2. ~HidesPatch(s, item, r)
          BY <3>2 DEF HidesPatch, HidesEdit, Says
        <5> QED
          BY <3>2, <4>1, <5>1, <5>2 DEF Reads, Passes, Tells, Drops, Summarises, Answers, Flushes, HidesCall, ShowsCall, Says, item
      <4>3. FirstPending(r, id, t)
        BY <2>5, <3>2, <4>2 DEF FirstPending
      <4> QED
        BY <4>3 DEF id
    <3>3. CASE ShowsCall(s, item, r)
      <4>1. PICK call : r.pending = Append(s.pending, call) /\ r.reasoning = s.reasoning
        BY <3>3 DEF ShowsCall
      <4>2. LongerBy(r.pending, s.pending, call)
        BY <4>1, AppendLonger DEF GoodReading
      <4>3. 1 \in DOMAIN s.pending
        <5>1. DOMAIN s.pending = 1 .. Len(s.pending) /\ Len(s.pending) \in Nat /\ Len(s.pending) # 0
          BY <2>5, SequenceFacts, ShortSequence DEF FirstPending, GoodReading
        <5> QED
          BY <5>1
      <4>4. 1 \in DOMAIN r.pending /\ r.pending[1] = s.pending[1]
        BY <4>2, <4>3, LongerDomain
      <4>5. FirstPending(r, id, t)
        BY <2>5, <4>1, <4>4, NoneSequence DEF FirstPending
      <4> QED
        BY <4>5 DEF id
    <3> QED
      BY <3>1, <3>2, <3>3, ReadsWaits DEF item
  <2> QED
    BY <2>3, <2>4, <2>5
<1> QED
  BY <1>3, <1>4

\* What reasoning has been told after n items.
Reasoned(s, items, n) == Waiting(s, items, n) /\ Thinking(s, items, n) /\ ThoughtsRead(s, items, n)

LEMMA ReadingsReasoned ==
  ASSUME NEW items, GoodItems(items), CallsOnce(items), ReasonsSettled(items),
         NEW settings, settings.reasoning, NEW registry, NEW calls
  PROVE  \A n \in 0 .. Len(items) : Reasoned(Readings(items, settings, registry, calls)[n], items, n)
<1> DEFINE read == Readings(items, settings, registry, calls)
           G == {n \in Nat : n <= Len(items) => Reasoned(read[n], items, n)}
<1>0. Len(items) \in Nat /\ DOMAIN items = 1 .. Len(items)
  BY SequenceFacts DEF GoodItems
<1>1. read[0] = NothingRead
      /\ \A n \in 1 .. Len(items) : read[n] = convertItem(read[n - 1], items[n], settings, registry, calls)
  BY <1>0, ReadingsLoop
<1>5. \A n \in 0 .. Len(items) : GoodReading(read[n]) /\ ToldCalls(read[n], items, n)
  BY ReadingsGood, ReadingsTold DEF Told
<1> HIDE DEF read
<1>2. 0 \in G
  <2>1. 1..0 = {}
    OBVIOUS
  <2> QED
    BY <2>1 DEF Reasoned, Waiting, Thinking, ThoughtsRead
<1>3. ASSUME NEW n \in Nat, n \in G PROVE n + 1 \in G
  <2> SUFFICES ASSUME n + 1 <= Len(items) PROVE Reasoned(read[n + 1], items, n + 1)
    OBVIOUS
  <2>1. n + 1 \in 1 .. Len(items) /\ (n + 1) - 1 = n /\ Reasoned(read[n], items, n)
        /\ n \in 0 .. Len(items) /\ n + 1 \in DOMAIN items
    BY <1>0, <1>3
  <2> DEFINE s == read[n]
             r == read[n + 1]
  <2>2. r = convertItem(s, items[n + 1], settings, registry, calls) /\ GoodReading(s) /\ ToldCalls(s, items, n)
    BY <1>1, <1>5, <2>1
  <2>3. Reasoned(s, items, n)
    BY <2>1
  <2> HIDE DEF s, r
  <2>4. Reads(s, items[n + 1], r, settings)
    BY <2>2, ConvertReads DEF GoodReading
  <2>5. Waiting(r, items, n + 1)
    BY <2>1, <2>2, <2>3, <2>4, WaitingNext DEF Reasoned
  <2>6. Thinking(r, items, n + 1)
    BY <2>1, <2>2, <2>3, <2>4, ThinkingNext DEF Reasoned
  <2>7. ThoughtsRead(r, items, n + 1)
    BY <2>1, <2>2, <2>3, <2>4, ThoughtsNext DEF Reasoned
  <2>8. Reasoned(r, items, n + 1)
    BY <2>5, <2>6, <2>7 DEF Reasoned
  <2> QED
    BY <2>8 DEF r
<1>4. Nat \subseteq G
  <2> HIDE DEF G
  <2> QED
    BY <1>2, <1>3, SetInduction
<1> QED
  BY <1>0, <1>4 DEF read

\* Reasoning is shown with the first call shown of those behind it.
ReasonsShown(messages, items) ==
  \A a \in DOMAIN items : \A t \in 1 .. a - 1 :
    /\ IsOfThought(items, t, a) /\ Shows(messages, items[a].id)
    /\ \A k \in t + 1 .. a - 1 : IsCall(items[k]) => ~Shows(messages, items[k].id)
    => FirstOf(messages, items[a].id, t)

LEMMA AllReasoned ==
  ASSUME NEW items, GoodItems(items), NEW s, GoodReading(s), Told(s, items, Len(items)),
         Reasoned(s, items, Len(items))
  PROVE  ReasonsShown(flush(s).messages, items)
<1> DEFINE f == flush(s)
           N == Len(items)
<1>1. N \in Nat /\ DOMAIN items = 1..N
  BY SequenceFacts DEF GoodItems
<1>2. ToldCalls(f, items, N) /\ Knowing(s, f) /\ f.pending = <<>>
  BY ToldFlush, FlushFields DEF Told, GoodReading
<1>3. \A k \in DOMAIN s.messages : k \in DOMAIN f.messages /\ f.messages[k] = s.messages[k]
  <2> DEFINE m == CallsMessage(s.reasoning, s.pending)
  <2>1. f.messages = s.messages \/ f.messages = Append(s.messages, m)
    BY FlushFields DEF GoodReading
  <2> HIDE DEF f, m
  <2>2. CASE f.messages = Append(s.messages, m)
    <3>1. LongerBy(f.messages, s.messages, m)
      BY <2>2, AppendLonger DEF GoodReading, GoodMessages
    <3> QED
      BY <3>1, LongerDomain
  <2> QED
    BY <2>1, <2>2
<1> SUFFICES ASSUME NEW a \in DOMAIN items, NEW t \in 1 .. a - 1,
                    IsOfThought(items, t, a), Shows(f.messages, items[a].id),
                    \A k \in t + 1 .. a - 1 : IsCall(items[k]) => ~Shows(f.messages, items[k].id)
             PROVE  FirstOf(f.messages, items[a].id, t)
  BY DEF ReasonsShown
<1> DEFINE id == items[a].id
<1>4. FirstPending(s, id, t) => FirstOf(f.messages, id, t)
  BY FlushFirst
<1> HIDE DEF f, N
<1>5. \A x : (Knows(f, x) <=> Shows(f.messages, x)) /\ (Knows(f, x) <=> Knows(s, x))
  <2>1. \A x : ~Waits(f, x)
    BY <1>2, NoneSequence DEF Waits
  <2> QED
    BY <1>2, <2>1 DEF ToldCalls, Knowing, Knows
<1>6. Knows(s, id) /\ NoneKnown(s, items, t, a - 1)
  BY <1>5 DEF NoneKnown
<1>7. FirstPending(s, id, t) \/ FirstOf(s.messages, id, t)
  BY <1>1, <1>6 DEF Reasoned, ThoughtsRead, N
<1>8. FirstOf(s.messages, id, t) => FirstOf(f.messages, id, t)
  BY <1>3 DEF FirstOf
<1> QED
  BY <1>4, <1>7, <1>8

LEMMA KeepReasons ==
  ASSUME NEW items, NEW messages, GoodMessages(messages), ReasonsShown(messages, items),
         NEW kept, NEW from, KeptFrom(kept, messages, from)
  PROVE  ReasonsShown(kept, items)
<1>1. \A p \in DOMAIN messages : messages[p].calls # <<>> => \E k \in DOMAIN kept : from[k] = p
  BY DEF GoodMessages, GoodMessage, KeptFrom
<1>2. \A k \in DOMAIN kept : from[k] \in DOMAIN messages /\ kept[k].calls = messages[from[k]].calls
         /\ kept[k].reasoning = messages[from[k]].reasoning
  BY DEF KeptFrom
<1>3. \A id : Shows(kept, id) <=> Shows(messages, id)
  <2> TAKE id
  <2>1. Shows(kept, id) => Shows(messages, id)
    BY <1>2 DEF Shows, Calls
  <2>2. ASSUME Shows(messages, id) PROVE Shows(kept, id)
    <3>1. PICK p \in DOMAIN messages : Calls(messages[p], id)
      BY <2>2 DEF Shows
    <3>2. messages[p].calls # <<>>
      BY <3>1, NoneSequence DEF Calls
    <3> QED
      BY <1>1, <1>2, <3>1, <3>2 DEF Shows, Calls
  <2> QED
    BY <2>1, <2>2
<1>4. \A id, t : FirstOf(messages, id, t) => FirstOf(kept, id, t)
  <2> SUFFICES ASSUME NEW id, NEW t, NEW p \in DOMAIN messages,
                      messages[p].calls # <<>>, messages[p].calls[1].id = id, messages[p].reasoning = t
               PROVE  FirstOf(kept, id, t)
    BY DEF FirstOf
  <2>1. PICK k \in DOMAIN kept : from[k] = p
    BY <1>1
  <2> QED
    BY <1>2, <2>1 DEF FirstOf
<1> QED
  BY <1>3, <1>4 DEF ReasonsShown

\* Repairing shows the same calls, of each message the first with its reasoning.
LEMMA RepairReasons ==
  ASSUME NEW messages, GoodMessages(messages), NEW whole, whole = repairToolPairing(messages)
  PROVE  /\ \A id : Shows(whole, id) <=> Shows(messages, id)
         /\ \A id, t : FirstOf(messages, id, t) => FirstOf(whole, id, t)
<1>1. PICK place : RepairedAt(whole, messages, place)
  BY RepairedPlaces
<1>2. \A p \in DOMAIN messages : \A k \in DOMAIN messages[p].calls :
        /\ place[p][k] \in DOMAIN whole
        /\ whole[place[p][k]].calls = <<messages[p].calls[k]>> /\ whole[place[p][k] + 1].calls = <<>>
        /\ k = 1 => whole[place[p][k]].reasoning = messages[p].reasoning
  <2> TAKE p \in DOMAIN messages
  <2> TAKE k \in DOMAIN messages[p].calls
  <2> DEFINE call == messages[p].calls[k]
             t == pairedToolMessage(call, messages, p)
  <2>1. pairs(messages, p)[k][1].calls = <<call>> /\ pairs(messages, p)[k][2] = t
        /\ pairs(messages, p)[k][1].reasoning = (IF k = 1 THEN messages[p].reasoning ELSE NoReasoning)
    BY PairsOf
  <2>2. place[p][k] \in DOMAIN whole
        /\ whole[place[p][k]] = pairs(messages, p)[k][1] /\ whole[place[p][k] + 1] = pairs(messages, p)[k][2]
    BY <1>1 DEF RepairedAt
  <2>3. t.calls = <<>>
    BY Paired
  <2> HIDE DEF t
  <2> QED
    BY <2>1, <2>2, <2>3
<1>3. ASSUME NEW id, Shows(whole, id) PROVE Shows(messages, id)
  <2>1. PICK i \in DOMAIN whole : \E k \in DOMAIN whole[i].calls : whole[i].calls[k].id = id
    BY <1>3 DEF Shows, Calls
  <2>2. whole[i].calls # <<>>
    BY <2>1, NoneSequence
  <2>3. PICK p \in DOMAIN messages : \E c \in DOMAIN messages[p].calls : i = place[p][c]
    BY <1>1, <1>2, <2>2 DEF RepairedAt
  <2>4. PICK c \in DOMAIN messages[p].calls : i = place[p][c]
    BY <2>3
  <2>5. whole[i].calls = <<messages[p].calls[c]>>
    BY <1>2, <2>4
  <2>6. messages[p].calls[c].id = id
    BY <2>1, <2>5, OneDomain, OneAny
  <2> QED
    BY <2>6 DEF Shows, Calls
<1>4. ASSUME NEW id, Shows(messages, id) PROVE Shows(whole, id)
  <2>1. PICK p \in DOMAIN messages : \E c \in DOMAIN messages[p].calls : messages[p].calls[c].id = id
    BY <1>4 DEF Shows, Calls
  <2>2. PICK c \in DOMAIN messages[p].calls : messages[p].calls[c].id = id
    BY <2>1
  <2> DEFINE call == messages[p].calls[c]
  <2>3. place[p][c] \in DOMAIN whole /\ whole[place[p][c]].calls = <<call>>
    BY <1>2
  <2>4. 1 \in DOMAIN <<call>> /\ <<call>>[1] = call
    BY OneDomain, OneAny
  <2>5. call.id = id
    BY <2>2
  <2> HIDE DEF call
  <2>6. Calls(whole[place[p][c]], id)
    BY <2>3, <2>4, <2>5 DEF Calls
  <2> QED
    BY <2>3, <2>6 DEF Shows
<1>5. ASSUME NEW id, NEW t, FirstOf(messages, id, t) PROVE FirstOf(whole, id, t)
  <2>1. PICK p \in DOMAIN messages :
          messages[p].calls # <<>> /\ messages[p].calls[1].id = id /\ messages[p].reasoning = t
    BY <1>5 DEF FirstOf
  <2>2. 1 \in DOMAIN messages[p].calls
    <3>1. IsSequence(messages[p].calls)
      BY DEF GoodMessages, GoodMessage
    <3>2. DOMAIN messages[p].calls = 1 .. Len(messages[p].calls) /\ Len(messages[p].calls) \in Nat
          /\ Len(messages[p].calls) # 0
      BY <2>1, <3>1, SequenceFacts, ShortSequence
    <3> QED
      BY <3>2
  <2> DEFINE call == messages[p].calls[1]
             i == place[p][1]
  <2>3. i \in DOMAIN whole /\ whole[i].calls = <<call>> /\ whole[i].reasoning = t
    BY <1>2, <2>1, <2>2
  <2>4. <<call>>[1] = call /\ <<call>> # <<>> /\ call.id = id
    BY <2>1, OneAny, OneDomain, NoneSequence
  <2> HIDE DEF i, call
  <2> QED
    BY <2>3, <2>4 DEF FirstOf
<1> QED
  BY <1>3, <1>4, <1>5

LEMMA RequestReasons ==
  ASSUME NEW items, NEW messages, GoodMessages(messages), ReasonsShown(messages, items),
         NEW settings, NEW whole, whole = PrepareChatRequest(messages, settings)
  PROVE  ReasonsShown(whole, items)
<1>1. CASE settings.repair
  <2>1. whole = repairToolPairing(messages)
    BY <1>1 DEF PrepareChatRequest
  <2>2. (\A id : Shows(whole, id) <=> Shows(messages, id))
        /\ \A id, t : FirstOf(messages, id, t) => FirstOf(whole, id, t)
    BY <2>1, RepairReasons
  <2> QED
    BY <2>2 DEF ReasonsShown
<1>2. CASE ~settings.repair
  BY <1>2 DEF PrepareChatRequest
<1> QED
  BY <1>1, <1>2

-----------------------------------------------------------------------------
(* Calls and their reasoning in the history.                               *)

\* Between the reasoning of a call and the call itself stand only texts, notes
\* and earlier calls of the same answer.
OfThought(items, calls, m, a) ==
  /\ m.thought \in 1 .. a - 1 /\ items[m.thought].type = "reasoning"
  /\ \A k \in m.thought + 1 .. a - 1 :
       \/ items[k].type = "message"
       \/ IsCall(items[k]) /\ \A e \in calls : e.call.id = items[k].id =>
            e.thought = m.thought /\ e.call.id < m.call.id
CallsThink(items, calls) ==
  \A a \in DOMAIN items : IsCall(items[a]) =>
    \A m \in calls : m.call.id = items[a].id /\ m.thought # NoReasoning => OfThought(items, calls, m, a)

\* The calls of an answer share its reasoning, which stands before its text at
\* the end of the history, and run in their order.
AnswerThinks ==
  \E th \in Nat :
    /\ th # NoReasoning =>
         /\ th \in 1 .. Len(history) /\ th + 1 = Len(history)
         /\ history[th].type = "reasoning" /\ history[th + 1].type = "message"
    /\ \A i \in DOMAIN batch : batch[i].thought = th
    /\ \A i \in DOMAIN running : IsCall(running[i].item) =>
         \A m \in made : m.call.id = running[i].item.id => m.thought = th
    /\ \A i, j \in DOMAIN running : i < j /\ IsCall(running[i].item) /\ IsCall(running[j].item) =>
         running[i].item.id < running[j].item.id

Closed == phase # "idle" => Settled(history, Len(history))
Thoughts == ReasonsSettled(history) /\ Closed /\ CallsThink(history, made) /\ AnswerThinks

LEMMA SettledSame ==
  ASSUME NEW whole, NEW items, NEW n \in Nat, \A k \in 1..n : whole[k] = items[k], Settled(items, n)
  PROVE  Settled(whole, n)
<1> SUFFICES ASSUME NEW a \in 1..n, IsCall(whole[a])
             PROVE  \E k \in a + 1 .. n :
                      whole[k].type = "message" \/ (whole[k].type = "output" /\ whole[k].id = whole[a].id)
  BY DEF Settled
<1>1. PICK k \in a + 1 .. n :
        items[k].type = "message" \/ (items[k].type = "output" /\ items[k].id = items[a].id)
  BY DEF Settled
<1>2. k \in 1..n
  OBVIOUS
<1> QED
  BY <1>1, <1>2

LEMMA ThoughtSame ==
  ASSUME NEW whole, NEW items, NEW calls, NEW m, NEW n \in Nat, \A k \in 1..n : whole[k] = items[k],
         NEW a \in 1..n, OfThought(items, calls, m, a)
  PROVE  OfThought(whole, calls, m, a)
<1>1. m.thought \in 1..n /\ \A k \in m.thought + 1 .. a - 1 : k \in 1..n
  BY DEF OfThought
<1> QED
  BY <1>1 DEF OfThought

\* A text or reasoning at the end.
LEMMA LongerThinks ==
  ASSUME NEW whole, NEW items, NEW x, LongerBy(whole, items, x), ~IsCall(x),
         x.type = "reasoning" => x = ReasoningItem(Len(items) + 1) /\ Settled(items, Len(items)),
         NEW calls, ReasonsSettled(items), CallsThink(items, calls)
  PROVE  /\ ReasonsSettled(whole) /\ CallsThink(whole, calls)
         /\ x.type = "message" \/ Settled(items, Len(items)) => Settled(whole, Len(whole))
<1> DEFINE N == Len(items)
<1>1. N \in Nat /\ DOMAIN items = 1..N /\ DOMAIN whole = 1 .. N + 1 /\ Len(whole) = N + 1
      /\ (\A k \in 1..N : whole[k] = items[k]) /\ whole[N + 1] = x
  BY LongerDomain DEF LongerBy
<1> HIDE DEF N
<1>2. ASSUME NEW t \in 1 .. N + 1, whole[t].type = "reasoning"
      PROVE  whole[t] = ReasoningItem(t) /\ Settled(whole, t - 1)
  <2>1. t - 1 \in Nat /\ \A k \in 1 .. t - 1 : whole[k] = items[k]
    BY <1>1
  <2>2. CASE t \in 1..N
    <3>1. whole[t] = ReasoningItem(t) /\ Settled(items, t - 1)
      BY <1>1, <1>2, <2>2 DEF ReasonsSettled
    <3> QED
      BY <2>1, <3>1, SettledSame
  <2>3. CASE t = N + 1
    <3>1. whole[t] = ReasoningItem(t) /\ Settled(items, t - 1)
      <4>1. t - 1 = N
        BY <1>1, <2>3
      <4> QED
        BY <1>1, <1>2, <2>3, <4>1 DEF N
    <3> QED
      BY <2>1, <3>1, SettledSame
  <2> QED
    BY <1>1, <2>2, <2>3
<1>3. ReasonsSettled(whole)
  BY <1>1, <1>2 DEF ReasonsSettled
<1>4. CallsThink(whole, calls)
  <2> SUFFICES ASSUME NEW a \in 1 .. N + 1, IsCall(whole[a]),
                      NEW m \in calls, m.call.id = whole[a].id, m.thought # NoReasoning
               PROVE  OfThought(whole, calls, m, a)
    BY <1>1 DEF CallsThink
  <2>1. a \in 1..N /\ whole[a] = items[a]
    BY <1>1
  <2>2. OfThought(items, calls, m, a)
    BY <1>1, <2>1 DEF CallsThink
  <2> QED
    BY <1>1, <2>1, <2>2, ThoughtSame
<1>5. ASSUME x.type = "message" \/ Settled(items, N) PROVE Settled(whole, N + 1)
  <2> SUFFICES ASSUME NEW a \in 1 .. N + 1, IsCall(whole[a])
               PROVE  \E k \in a + 1 .. N + 1 :
                        whole[k].type = "message" \/ (whole[k].type = "output" /\ whole[k].id = whole[a].id)
    BY DEF Settled
  <2>1. a \in 1..N /\ whole[a] = items[a]
    BY <1>1
  <2>2. CASE x.type = "message"
    <3>1. N + 1 \in a + 1 .. N + 1
      BY <1>1, <2>1
    <3> QED
      BY <1>1, <2>2, <3>1
  <2>3. CASE Settled(items, N)
    <3>1. PICK k \in a + 1 .. N :
            items[k].type = "message" \/ (items[k].type = "output" /\ items[k].id = items[a].id)
      BY <2>1, <2>3 DEF Settled
    <3>2. k \in a + 1 .. N + 1 /\ k \in 1..N
      BY <1>1, <2>1
    <3> QED
      BY <1>1, <2>1, <3>1, <3>2
  <2> QED
    BY <1>5, <2>2, <2>3
<1> QED
  BY <1>1, <1>3, <1>4, <1>5 DEF N

LEMMA NothingThinks ==
  ASSUME batch = <<>>, running = <<>>
  PROVE  AnswerThinks
<1>1. DOMAIN batch = {} /\ DOMAIN running = {} /\ NoReasoning \in Nat
  BY NoneSequence DEF NoReasoning
<1> QED
  BY <1>1 DEF AnswerThinks

LEMMA ThoughtsInit == Init => Thoughts
<1> SUFFICES ASSUME Init PROVE Thoughts
  OBVIOUS
<1>1. history = <<>> /\ running = <<>> /\ batch = <<>> /\ phase = "idle"
  BY DEF Init
<1> QED
  BY <1>1, NoneSequence, NothingThinks DEF Thoughts, ReasonsSettled, Closed, CallsThink

LEMMA ThoughtsAsk ==
  ASSUME Good, Thoughts, NEW moved \in BOOLEAN, NEW mode, Ask(moved, mode)
  PROVE  Thoughts'
<1>1. PICK one, two :
           /\ \/ one = history
              \/ LongerBy(one, history, MessageItem("developer", {"collaboration mode: " \o mode}, <<>>))
           /\ \/ ~moved /\ two = one
              \/ moved /\ LongerBy(two, one, MessageItem("user", {}, <<asks.count + 1>>))
           /\ LongerBy(history', two, AskItem)
  BY AskAdds
<1>2. \A role, body, blocks :
        ~IsCall(MessageItem(role, body, blocks)) /\ MessageItem(role, body, blocks).type = "message"
  BY MessageIsQuiet
<1>3. ReasonsSettled(one) /\ CallsThink(one, made)
  <2>1. ASSUME NEW x, LongerBy(one, history, x), ~IsCall(x), x.type = "message"
        PROVE  ReasonsSettled(one) /\ CallsThink(one, made)
    BY <2>1, LongerThinks DEF Thoughts
  <2> QED
    BY <1>1, <1>2, <2>1 DEF Thoughts
<1>4. ReasonsSettled(two) /\ CallsThink(two, made)
  <2>1. ASSUME NEW x, LongerBy(two, one, x), ~IsCall(x), x.type = "message"
        PROVE  ReasonsSettled(two) /\ CallsThink(two, made)
    BY <1>3, <2>1, LongerThinks
  <2> QED
    BY <1>1, <1>2, <1>3, <2>1
<1>5. ReasonsSettled(history') /\ CallsThink(history', made) /\ Settled(history', Len(history'))
  <2>1. ~IsCall(AskItem) /\ AskItem.type = "message"
    BY <1>2 DEF AskItem
  <2> QED
    BY <1>1, <1>4, <2>1, LongerThinks
<1>6. made' = made /\ batch' = <<>> /\ running' = <<>>
  BY DEF Ask, Good, GoodState
<1>7. AnswerThinks'
  <2>1. DOMAIN batch' = {} /\ DOMAIN running' = {} /\ NoReasoning \in Nat
    BY <1>6, NoneSequence DEF NoReasoning
  <2> QED
    BY <2>1 DEF AnswerThinks
<1> QED
  BY <1>5, <1>6, <1>7 DEF Thoughts, Closed

LEMMA ThoughtsReply ==
  ASSUME Good, Thoughts, NEW calls \in Batches, NEW reasoned \in BOOLEAN, Reply(calls, reasoned)
  PROVE  Thoughts'
<1> DEFINE text == MessageItem("assistant", {"text"}, <<>>)
           N == Len(history)
           thought == ReasoningItem(N + 1)
           th == IF reasoned THEN N + 1 ELSE NoReasoning
<1>1. /\ ReasonsSettled(history) /\ CallsThink(history, made) /\ Settled(history, N)
      /\ made' = made /\ running' = <<>> /\ N \in Nat
  BY SequenceFacts DEF Thoughts, Closed, Reply, Good, GoodState, GoodItems
<1>2. /\ ~IsCall(text) /\ text.type = "message"
      /\ ~IsCall(thought) /\ thought.type = "reasoning"
  BY MessageIsQuiet, ReasoningIsQuiet
<1>3. /\ ~reasoned => history' = history \/ LongerBy(history', history, text)
      /\ reasoned => \E one : LongerBy(one, history, thought) /\ LongerBy(history', one, text)
  BY ReplyAdds
<1>4. \A i \in DOMAIN batch' : batch'[i].thought = th
  <2> DEFINE made1(i) == [call    |-> [id |-> Cardinality(made) + i, up |-> calls[i].up, args |-> calls[i].args],
                          thought |-> th]
  <2>1. batch' = [i \in DOMAIN calls |-> made1(i)]
    BY DEF Reply, Thought
  <2>2. \A i : made1(i).thought = th
    OBVIOUS
  <2> HIDE DEF made1
  <2> QED
    BY <2>1, <2>2
<1>5. th \in Nat
  BY <1>1 DEF NoReasoning
<1>6. AnswerThinks' = \E h \in Nat :
        /\ h # NoReasoning =>
             /\ h \in 1 .. Len(history') /\ h + 1 = Len(history')
             /\ history'[h].type = "reasoning" /\ history'[h + 1].type = "message"
        /\ \A i \in DOMAIN batch' : batch'[i].thought = h
        /\ \A i \in DOMAIN running' : IsCall(running'[i].item) =>
             \A m \in made' : m.call.id = running'[i].item.id => m.thought = h
        /\ \A i, j \in DOMAIN running' : i < j /\ IsCall(running'[i].item) /\ IsCall(running'[j].item) =>
             running'[i].item.id < running'[j].item.id
  BY DEF AnswerThinks
<1>7. DOMAIN running' = {}
  BY <1>1, NoneSequence
<1>8. CASE ~reasoned
  <2>1. th = NoReasoning
    BY <1>8
  <2> HIDE DEF text, thought, th
  <2>2. ReasonsSettled(history') /\ CallsThink(history', made) /\ Settled(history', Len(history'))
    BY <1>1, <1>2, <1>3, <1>8, LongerThinks DEF N
  <2>3. AnswerThinks'
    BY <1>4, <1>5, <1>6, <1>7, <2>1
  <2> QED
    BY <1>1, <2>2, <2>3 DEF Thoughts, Closed
<1>9. CASE reasoned
  <2>1. th = N + 1 /\ thought = ReasoningItem(Len(history) + 1)
    BY <1>9
  <2>2. PICK one : LongerBy(one, history, thought) /\ LongerBy(history', one, text)
    BY <1>3, <1>9
  <2> HIDE DEF text, thought, th
  <2>3. ReasonsSettled(one) /\ CallsThink(one, made)
    BY <1>1, <1>2, <2>1, <2>2, LongerThinks DEF N
  <2>4. ReasonsSettled(history') /\ CallsThink(history', made) /\ Settled(history', Len(history'))
    BY <1>2, <2>2, <2>3, LongerThinks
  <2>5. /\ Len(one) = N + 1 /\ Len(history') = N + 2
        /\ history'[N + 1] = thought /\ history'[(N + 1) + 1] = text
    <3>1. Len(one) = N + 1 /\ one[N + 1] = thought /\ DOMAIN one = 1 .. N + 1
      BY <2>2, LongerDomain DEF LongerBy, N
    <3>2. N + 1 \in DOMAIN one
      BY <1>1, <3>1
    <3>3. history'[N + 1] = one[N + 1] /\ Len(history') = Len(one) + 1 /\ history'[Len(one) + 1] = text
      BY <2>2, <3>2, LongerDomain DEF LongerBy
    <3> QED
      BY <1>1, <3>1, <3>3
  <2>6. th \in 1 .. Len(history') /\ th + 1 = Len(history')
        /\ history'[th].type = "reasoning" /\ history'[th + 1].type = "message"
    BY <1>1, <1>2, <2>1, <2>5
  <2> HIDE DEF N
  <2>7. AnswerThinks'
    BY <1>4, <1>5, <1>6, <1>7, <2>6
  <2> QED
    BY <1>1, <2>4, <2>7 DEF Thoughts, Closed
<1> QED
  BY <1>8, <1>9

LEMMA ThoughtsEmit ==
  ASSUME Good, Orderly, Thoughts, Emit
  PROVE  Thoughts'
<1> DEFINE N == Cardinality(made)
<1>1. PICK m, r :
           /\ made' = made \cup {m} /\ m \notin made /\ m.call.id = Cardinality(made) + 1
           /\ m.call = batch[1].call /\ m.thought = batch[1].thought
           /\ Cardinality(made') = Cardinality(made) + 1 /\ Cardinality(made) \in Nat
           /\ running' = Append(running, r) /\ r.item = m.item /\ r.output = NoOutput
           /\ IsCall(r.item) => r.item.id = m.call.id
           /\ batch' = Tail(batch) /\ batch # <<>> /\ IsSequence(batch)
           /\ history' = history
  BY EmitAdds
<1>2. N \in Nat /\ \A k \in made : k.call.id \in 1..N
  BY <1>1 DEF Orderly, Numbered
<1>3. \A item : IsMade(made, item) => item.id \in 1..N
  BY <1>2 DEF IsMade
<1>4. m.call.id = N + 1 /\ N + 1 \notin 1..N
  BY <1>1, <1>2
<1> HIDE DEF N
<1>5. CallsThink(history, made')
  <2> SUFFICES ASSUME NEW a \in DOMAIN history, IsCall(history[a]),
                      NEW e \in made', e.call.id = history[a].id, e.thought # NoReasoning
               PROVE  OfThought(history, made', e, a)
    BY DEF CallsThink
  <2>1. DOMAIN history = 1 .. Len(history) /\ Len(history) \in Nat
    BY SequenceFacts DEF Good, GoodState, GoodItems
  <2>2. \A k \in DOMAIN history : IsCall(history[k]) => history[k].id # m.call.id
    BY <1>3, <1>4 DEF Orderly, HistoryOnce
  <2>3. e \in made
    BY <1>1, <2>2
  <2>4. OfThought(history, made, e, a)
    BY <2>3 DEF Thoughts, CallsThink
  <2>5. \A k \in e.thought + 1 .. a - 1 : k \in DOMAIN history
    BY <2>1, <2>4 DEF OfThought
  <2> QED
    BY <1>1, <2>2, <2>4, <2>5 DEF OfThought
<1>6. PICK th \in Nat :
    /\ th # NoReasoning =>
         /\ th \in 1 .. Len(history) /\ th + 1 = Len(history)
         /\ history[th].type = "reasoning" /\ history[th + 1].type = "message"
    /\ \A i \in DOMAIN batch : batch[i].thought = th
    /\ \A i \in DOMAIN running : IsCall(running[i].item) =>
         \A k \in made : k.call.id = running[i].item.id => k.thought = th
    /\ \A i, j \in DOMAIN running : i < j /\ IsCall(running[i].item) /\ IsCall(running[j].item) =>
         running[i].item.id < running[j].item.id
  BY DEF Thoughts, AnswerThinks
<1>7. m.thought = th /\ \A i \in DOMAIN batch' : batch'[i].thought = th
  <2>1. /\ IsSequence(batch') /\ Len(batch') = Len(batch) - 1 /\ Len(batch) \in Nat /\ 1 \in DOMAIN batch
        /\ \A i \in 1 .. Len(batch') : batch'[i] = batch[i + 1]
    BY <1>1, TailAny
  <2>2. DOMAIN batch = 1 .. Len(batch) /\ DOMAIN batch' = 1 .. Len(batch) - 1
    BY <1>1, <2>1, SequenceFacts
  <2>3. \A i \in DOMAIN batch' : i + 1 \in DOMAIN batch /\ batch'[i] = batch[i + 1]
    BY <2>1, <2>2
  <2> QED
    BY <1>1, <1>6, <2>1, <2>3
<1>8. LongerBy(running', running, r)
  BY <1>1, AppendLonger DEF Good, GoodAnswer
<1>9. /\ \A i \in DOMAIN running' : (i \in DOMAIN running /\ running'[i] = running[i])
                                    \/ (i = Len(running) + 1 /\ running'[i] = r)
      /\ DOMAIN running = 1 .. Len(running) /\ Len(running) \in Nat
  BY <1>8, LongerDomain
<1>10. \A i \in DOMAIN running : IsCall(running[i].item) => running[i].item.id \in 1..N
  BY <1>3 DEF Orderly, RunsOnce
<1>11. ASSUME NEW i \in DOMAIN running', IsCall(running'[i].item),
              NEW k \in made', k.call.id = running'[i].item.id
       PROVE  k.thought = th
  <2>1. CASE i \in DOMAIN running /\ running'[i] = running[i]
    BY <1>1, <1>4, <1>6, <1>10, <1>11, <2>1
  <2>2. CASE running'[i] = r
    BY <1>1, <1>2, <1>4, <1>7, <1>11, <2>2
  <2> QED
    BY <1>9, <2>1, <2>2
<1>12. ASSUME NEW i \in DOMAIN running', NEW j \in DOMAIN running', i < j,
              IsCall(running'[i].item), IsCall(running'[j].item)
       PROVE  running'[i].item.id < running'[j].item.id
  <2>1. i \in DOMAIN running /\ running'[i] = running[i]
    <3>1. j \in 1 .. Len(running) + 1
      BY <1>9
    <3> QED
      BY <1>9, <1>12, <3>1
  <2>2. CASE j \in DOMAIN running /\ running'[j] = running[j]
    BY <1>6, <1>12, <2>1, <2>2
  <2>3. CASE running'[j] = r
    <3>1. running'[i].item.id \in 1..N /\ running'[j].item.id = N + 1
      BY <1>1, <1>4, <1>10, <1>12, <2>1, <2>3
    <3> QED
      BY <1>2, <3>1
  <2> QED
    BY <1>9, <2>2, <2>3
<1>13. AnswerThinks'
  <2>1. history' = history
    BY <1>1
  <2> QED
    BY <1>6, <1>7, <1>11, <1>12, <2>1 DEF AnswerThinks
<1>14. phase' = phase
  BY DEF Emit
<1> QED
  BY <1>1, <1>5, <1>13, <1>14 DEF Thoughts, Closed

LEMMA ThoughtsRun ==
  ASSUME Good, Thoughts, NEW i, NEW output \in Outputs, Run(i, output)
  PROVE  Thoughts'
<1>1. /\ DOMAIN running' = DOMAIN running
      /\ \A k \in DOMAIN running : running'[k].item = running[k].item
      /\ history' = history /\ batch' = batch /\ made' = made /\ phase' = phase
  BY RunChanges
<1>2. AnswerThinks'
  BY <1>1 DEF Thoughts, AnswerThinks
<1> QED
  BY <1>1, <1>2 DEF Thoughts, Closed

\* What Codex records at the end of an answer.
LEMMA RecordedThinks ==
  ASSUME Good, Orderly, Thoughts, phase = "calling",
         NEW whole, NEW n, NEW m, RecordedAt(whole, n, m)
  PROVE  /\ ReasonsSettled(whole) /\ CallsThink(whole, made)
         /\ (\A i \in DOMAIN running : IsCall(running[i].item) => running[i].output # NoOutput) =>
              Settled(whole, Len(whole))
<1> DEFINE L == Len(whole)
<1>1. /\ n \in Nat /\ m \in Nat /\ L \in Nat /\ n <= m /\ m <= L
      /\ DOMAIN whole = 1..L /\ DOMAIN history = 1..n /\ DOMAIN running = 1 .. m - n
      /\ \A k \in 1..n : whole[k] = history[k]
  BY DEF RecordedAt
<1>2. n = Len(history)
  <2>1. DOMAIN history = 1 .. Len(history) /\ Len(history) \in Nat
    BY SequenceFacts DEF Good, GoodState, GoodItems
  <2> QED
    BY <1>1, <2>1
<1>3. \A k \in 1..L : IsCall(whole[k]) =>
        (k \in 1..n /\ whole[k] = history[k])
        \/ (k > n /\ k - n \in DOMAIN running /\ whole[k] = running[k - n].item)
  BY <1>1, RecordedCalls
<1>4. \A k \in n + 1 .. m :
        k - n \in DOMAIN running /\ whole[k] = running[k - n].item
        /\ (IsCall(whole[k]) \/ whole[k].type = "message")
  <2> TAKE k \in n + 1 .. m
  <2>1. k - n \in DOMAIN running /\ n + (k - n) = k
    BY <1>1
  <2>2. whole[k] = running[k - n].item
    BY <2>1 DEF RecordedAt
  <2>3. GoodRun(running[k - n])
    BY <2>1 DEF Good, GoodAnswer
  <2> QED
    BY <2>1, <2>2, <2>3 DEF GoodRun
<1>5. \A t \in 1..L : whole[t].type = "reasoning" => t \in 1..n
  <2> TAKE t \in 1..L
  <2>1. CASE t \in n + 1 .. m
    BY <1>4, <2>1, CallIsNoMessage
  <2>2. CASE t \in m + 1 .. L
    BY <2>2 DEF RecordedAt, L
  <2> QED
    BY <1>1, <2>1, <2>2
<1>6. ReasonsSettled(whole)
  <2> SUFFICES ASSUME NEW t \in 1..L, whole[t].type = "reasoning"
               PROVE  whole[t] = ReasoningItem(t) /\ Settled(whole, t - 1)
    BY <1>1 DEF ReasonsSettled
  <2>1. t \in 1..n /\ whole[t] = history[t] /\ t - 1 \in Nat /\ \A k \in 1 .. t - 1 : whole[k] = history[k]
    BY <1>1, <1>5
  <2>2. whole[t] = ReasoningItem(t) /\ Settled(history, t - 1)
    BY <1>1, <2>1 DEF Thoughts, ReasonsSettled
  <2> QED
    BY <2>1, <2>2, SettledSame
<1>7. CallsThink(whole, made)
  <2> SUFFICES ASSUME NEW a \in 1..L, IsCall(whole[a]),
                      NEW e \in made, e.call.id = whole[a].id, e.thought # NoReasoning
               PROVE  OfThought(whole, made, e, a)
    BY <1>1 DEF CallsThink
  <2>1. CASE a \in 1..n /\ whole[a] = history[a]
    <3>1. OfThought(history, made, e, a)
      BY <1>1, <2>1 DEF Thoughts, CallsThink
    <3> QED
      BY <1>1, <2>1, <3>1, ThoughtSame
  <2>2. CASE a > n /\ a - n \in DOMAIN running /\ whole[a] = running[a - n].item
    <3>1. PICK th \in Nat :
        /\ th # NoReasoning =>
             /\ th \in 1 .. Len(history) /\ th + 1 = Len(history)
             /\ history[th].type = "reasoning" /\ history[th + 1].type = "message"
        /\ \A i \in DOMAIN running : IsCall(running[i].item) =>
             \A k \in made : k.call.id = running[i].item.id => k.thought = th
        /\ \A i, j \in DOMAIN running : i < j /\ IsCall(running[i].item) /\ IsCall(running[j].item) =>
             running[i].item.id < running[j].item.id
      BY DEF Thoughts, AnswerThinks
    <3>2. e.thought = th
      BY <2>2, <3>1
    <3>3. th \in 1..n /\ th + 1 = n /\ n \in 1..n
          /\ whole[th].type = "reasoning" /\ whole[n].type = "message"
      <4>1. /\ th \in 1 .. Len(history) /\ th + 1 = Len(history)
            /\ history[th].type = "reasoning" /\ history[th + 1].type = "message"
        BY <3>1, <3>2
      <4>2. th + 1 = n /\ th \in 1..n
        BY <1>2, <4>1
      <4>3. n \in 1..n
        BY <4>2
      <4>4. history[n].type = "message"
        BY ONLY <4>1, <4>2
      <4> QED
        BY <1>1, <4>1, <4>2, <4>3, <4>4
    <3>4. e.thought \in 1 .. a - 1
      BY <1>1, <2>2, <3>2, <3>3
    <3>5. ASSUME NEW k \in th + 1 .. a - 1
          PROVE  \/ whole[k].type = "message"
                 \/ IsCall(whole[k]) /\ \A d \in made : d.call.id = whole[k].id =>
                      d.thought = th /\ d.call.id < e.call.id
      <4>1. CASE k = n
        BY <3>3, <4>1
      <4>2. CASE k # n
        <5>1. k \in n + 1 .. m /\ k - n < a - n /\ k \in 1..L
          BY <1>1, <2>2, <3>3, <4>2
        <5>2. k - n \in DOMAIN running /\ whole[k] = running[k - n].item
              /\ (IsCall(whole[k]) \/ whole[k].type = "message")
          BY <1>4, <5>1
        <5>3. IsCall(whole[k]) => running[k - n].item.id < running[a - n].item.id
              /\ \A d \in made : d.call.id = running[k - n].item.id => d.thought = th
          BY <2>2, <3>1, <5>1, <5>2
        <5> QED
          BY <2>2, <5>2, <5>3
      <4> QED
        BY <4>1, <4>2
    <3> QED
      BY <3>2, <3>3, <3>4, <3>5 DEF OfThought
  <2> QED
    BY <1>3, <2>1, <2>2
<1>8. ASSUME \A i \in DOMAIN running : IsCall(running[i].item) => running[i].output # NoOutput
      PROVE  Settled(whole, L)
  <2> SUFFICES ASSUME NEW a \in 1..L, IsCall(whole[a])
               PROVE  \E k \in a + 1 .. L :
                        whole[k].type = "message" \/ (whole[k].type = "output" /\ whole[k].id = whole[a].id)
    BY DEF Settled
  <2>1. CASE a \in 1..n /\ whole[a] = history[a]
    <3>1. Settled(history, n)
      BY <1>2 DEF Thoughts, Closed
    <3>2. PICK k \in a + 1 .. n :
            history[k].type = "message" \/ (history[k].type = "output" /\ history[k].id = history[a].id)
      BY <2>1, <3>1 DEF Settled
    <3>3. k \in a + 1 .. L /\ whole[k] = history[k]
      BY <1>1, <2>1
    <3> QED
      BY <2>1, <3>2, <3>3
  <2>2. CASE a > n /\ a - n \in DOMAIN running /\ whole[a] = running[a - n].item
    <3> DEFINE r == running[a - n]
    <3>1. r.output # NoOutput /\ r.output.id = r.item.id /\ r.output.type = "output"
      BY <1>8, <2>2 DEF Orderly, RunsOnce, Good, GoodAnswer, GoodRun
    <3>2. PICK k \in m + 1 .. L : whole[k] = r.output
      BY <2>2, <3>1 DEF RecordedAt, L
    <3>3. k \in a + 1 .. L
      BY <1>1, <2>2
    <3> QED
      BY <2>2, <3>1, <3>2, <3>3
  <2> QED
    BY <1>3, <2>1, <2>2
<1> QED
  BY <1>6, <1>7, <1>8 DEF L

LEMMA ThoughtsEnd ==
  ASSUME Good, Orderly, Thoughts, Record \/ Interrupt
  PROVE  Thoughts'
<1>1. /\ history' = Recorded /\ running' = <<>> /\ batch' = <<>> /\ made' = made /\ phase = "calling"
      /\ phase' # "idle" =>
           \A i \in DOMAIN running : IsCall(running[i].item) => running[i].output # NoOutput
  BY DEF Record, Interrupt
<1>2. PICK n, m : RecordedAt(history', n, m)
  BY <1>1, RecordedPlaces DEF Orderly
<1>3. /\ ReasonsSettled(history') /\ CallsThink(history', made)
      /\ phase' # "idle" => Settled(history', Len(history'))
  BY <1>1, <1>2, RecordedThinks
<1>4. AnswerThinks'
  <2>1. DOMAIN batch' = {} /\ DOMAIN running' = {} /\ NoReasoning \in Nat
    BY <1>1, NoneSequence DEF NoReasoning
  <2> QED
    BY <2>1 DEF AnswerThinks
<1> QED
  BY <1>1, <1>3, <1>4 DEF Thoughts, Closed

LEMMA ThinksNext ==
  ASSUME Good, Orderly, Thoughts, [Next]_vars
  PROVE  Thoughts'
<1>1. ASSUME UNCHANGED <<history, running, batch, made>>, phase' # "idle" => phase # "idle"
      PROVE  Thoughts'
  BY <1>1 DEF Thoughts, Closed, AnswerThinks
<1>2. CASE UNCHANGED vars \/ Send \/ Interfere \/ Switch \/ Restart
  BY <1>1, <1>2 DEF vars, Send, Interfere, Switch, Restart
<1>3. CASE \E moved \in BOOLEAN, mode \in Modes : Ask(moved, mode)
  BY <1>3, ThoughtsAsk
<1>4. CASE \E calls \in Batches, reasoned \in BOOLEAN : Reply(calls, reasoned)
  BY <1>4, ThoughtsReply
<1>5. CASE Emit
  BY <1>5, ThoughtsEmit
<1>6. CASE \E i \in DOMAIN running, output \in Outputs : Run(i, output)
  BY <1>6, ThoughtsRun
<1>7. CASE Record \/ Interrupt
  BY <1>7, ThoughtsEnd
<1> QED
  BY <1>2, <1>3, <1>4, <1>5, <1>6, <1>7 DEF Next

\* Reasoning stands before the texts and the calls of its answer, and nothing
\* is open when it comes.
LEMMA AlwaysThoughts == Spec => [](Steady /\ Thoughts)
<1>1. Init => Thoughts
  BY ThoughtsInit
<1>2. Steady /\ Thoughts /\ [Next]_vars => Thoughts'
  BY ThinksNext DEF Steady
<1> QED
  BY <1>1, <1>2, AlwaysSteady, PTL DEF Spec

\* No call is shown twice, and each one shown is a call of the items.
LEMMA RequestShows ==
  ASSUME NEW items, NEW messages, GoodMessages(messages), Answered(messages, items),
         MessagesApart(messages), NEW settings, NEW whole, whole = PrepareChatRequest(messages, settings)
  PROVE  /\ \A id : Shows(whole, id) => \E a \in DOMAIN items : IsCall(items[a]) /\ items[a].id = id
         /\ \A id : \A p, q \in DOMAIN whole : Calls(whole[p], id) /\ Calls(whole[q], id) => p = q
<1>1. CASE ~settings.repair
  <2>1. whole = messages
    BY <1>1 DEF PrepareChatRequest
  <2> QED
    BY <2>1 DEF Answered
<1>2. CASE settings.repair
  <2>1. whole = repairToolPairing(messages)
    BY <1>2 DEF PrepareChatRequest
  <2>2. PICK place : RepairedAt(whole, messages, place)
    BY <2>1, RepairedPlaces
  <2>3. \A id : Shows(whole, id) <=> Shows(messages, id)
    BY <2>1, RepairReasons
  <2>4. \A p \in DOMAIN messages : \A k \in DOMAIN messages[p].calls :
          /\ whole[place[p][k]].calls = <<messages[p].calls[k]>> /\ whole[place[p][k] + 1].calls = <<>>
    <3> TAKE p \in DOMAIN messages
    <3> TAKE k \in DOMAIN messages[p].calls
    <3> DEFINE call == messages[p].calls[k]
               t == pairedToolMessage(call, messages, p)
    <3>1. pairs(messages, p)[k][1].calls = <<call>> /\ pairs(messages, p)[k][2] = t
      BY PairsOf
    <3>2. whole[place[p][k]] = pairs(messages, p)[k][1] /\ whole[place[p][k] + 1] = pairs(messages, p)[k][2]
      BY <2>2 DEF RepairedAt
    <3>3. t.calls = <<>>
      BY Paired
    <3> HIDE DEF t
    <3> QED
      BY <3>1, <3>2, <3>3
  <2>5. ASSUME NEW i \in DOMAIN whole, NEW id, Calls(whole[i], id)
        PROVE  \E p \in DOMAIN messages : \E k \in DOMAIN messages[p].calls :
                 messages[p].calls[k].id = id /\ i = place[p][k]
    <3>1. whole[i].calls # <<>>
      BY <2>5, NoneSequence DEF Calls
    <3>2. PICK p \in DOMAIN messages : \E k \in DOMAIN messages[p].calls : i = place[p][k]
      BY <2>2, <2>4, <3>1 DEF RepairedAt
    <3>3. PICK k \in DOMAIN messages[p].calls : i = place[p][k]
      BY <3>2
    <3>4. whole[i].calls = <<messages[p].calls[k]>>
      BY <2>4, <3>3
    <3>5. messages[p].calls[k].id = id
      BY <2>5, <3>4, OneDomain, OneAny DEF Calls
    <3> QED
      BY <3>3, <3>5
  <2>6. ASSUME NEW id, NEW i \in DOMAIN whole, NEW j \in DOMAIN whole, Calls(whole[i], id), Calls(whole[j], id)
        PROVE  i = j
    <3>1. PICK p \in DOMAIN messages : \E k \in DOMAIN messages[p].calls :
             messages[p].calls[k].id = id /\ i = place[p][k]
      BY <2>5, <2>6
    <3>2. PICK k \in DOMAIN messages[p].calls : messages[p].calls[k].id = id /\ i = place[p][k]
      BY <3>1
    <3>3. PICK q \in DOMAIN messages : \E l \in DOMAIN messages[q].calls :
             messages[q].calls[l].id = id /\ j = place[q][l]
      BY <2>5, <2>6
    <3>4. PICK l \in DOMAIN messages[q].calls : messages[q].calls[l].id = id /\ j = place[q][l]
      BY <3>3
    <3>5. p = q
      BY <3>2, <3>4 DEF Answered, Calls
    <3>6. k = l
      BY <3>2, <3>4, <3>5 DEF MessagesApart, CallsApart
    <3> QED
      BY <3>2, <3>4, <3>5, <3>6
  <2> QED
    BY <2>3, <2>6 DEF Answered
<1> QED
  BY <1>1, <1>2

\* A profile that replays reasoning shows that of an answer again with the first
\* of its calls that the model is shown: for any history, any notes, hidden edits
\* and interrupts between, and whether or not the profile repairs pairs.
THEOREM ReasoningIsKept == Spec => []ReasoningKept
<1>1. Steady /\ Thoughts => ReasoningKept
  <2> SUFFICES ASSUME Steady, Thoughts, Fresh, Settings.reasoning,
                      NEW i \in Messages, NEW m \in made, m.thought # NoReasoning,
                      {e \in made : e.thought = m.thought /\ e.call.id < m.call.id
                         /\ \E j \in Messages : e.call.id \in {c.id : c \in CallsAt(j)}} = {},
                      m.call.id \in {c.id : c \in CallsAt(i)}
               PROVE  request.messages[i].reasoning = m.thought
    BY DEF ReasoningKept
  <2> DEFINE whole == request.messages
             id == m.call.id
             t == m.thought
  <2>1. PICK registry, calls : whole = PrepareChatRequest(ToChatMessages(history, Settings, registry, calls), Settings)
    BY DEF Steady, Sent
  <2>2. /\ GoodItems(history) /\ CallsOnce(history) /\ AskedIn(history, asks.count, asks.env)
        /\ ReasonsSettled(history) /\ CallsThink(history, made)
        /\ \A a \in DOMAIN history : IsCall(history[a]) => IsMade(made, history[a])
    BY DEF Steady, Good, GoodState, Orderly, HistoryOnce, Asked, Thoughts
  <2>3. CallsNumbered(history)
    BY DEF Steady, Good, GoodAnswer, Orderly, HistoryOnce, IsMade, Numbered, CallsNumbered
  <2>4. GoodMessages(whole)
    BY DEF Steady, Good, GoodRequest
  <2>5. Calls(whole[i], id) /\ i \in DOMAIN whole
    BY DEF CallsAt, ToSet, Messages, Calls
  <2>6. ASSUME NEW e \in made, e.thought = t, e.call.id < id PROVE ~Shows(whole, e.call.id)
    <3>1. Shows(whole, e.call.id) => \E j \in Messages : e.call.id \in {c.id : c \in CallsAt(j)}
      BY DEF Shows, Calls, Messages, CallsAt, ToSet
    <3> QED
      BY <2>6, <3>1
  <2> HIDE DEF whole
  <2> DEFINE s == Readings(history, Settings, registry, calls)[Len(history)]
             read == flush(s).messages
             kept == keepLatestEnvironmentContext(read)
  <2>7. whole = PrepareChatRequest(kept, Settings)
    BY <2>1 DEF ToChatMessages
  <2>8. Len(history) \in 0 .. Len(history) /\ DOMAIN history = 1 .. Len(history)
    BY <2>2, SequenceFacts DEF GoodItems
  <2>9. GoodReading(s) /\ Told(s, history, Len(history)) /\ SeenBy(s, history, Len(history))
        /\ Reasoned(s, history, Len(history))
    BY <2>2, <2>8, ReadingsGood, ReadingsTold, ReadingsSeen, ReadingsReasoned DEF AskedIn
  <2> HIDE DEF s
  <2>10. GoodMessages(read) /\ Answered(read, history) /\ MessagesApart(read) /\ ReasonsShown(read, history)
    <3>1. SeenBy(flush(s), history, Len(history))
      BY <2>9, FlushSeen DEF GoodReading
    <3>2. ReasonsShown(read, history)
      BY <2>2, <2>9, AllReasoned
    <3> QED
      BY <2>2, <2>9, <3>1, <3>2, FlushGood, AllAnswered DEF GoodReading, SeenBy
  <2> HIDE DEF read
  <2>11. GoodMessages(kept) /\ \E from : KeptFrom(kept, read, from)
    BY <2>10, KeepGood, KeptPlaces
  <2> HIDE DEF kept
  <2>12. Answered(kept, history) /\ MessagesApart(kept) /\ ReasonsShown(kept, history)
    BY <2>2, <2>3, <2>10, <2>11, KeepAnswered, KeepReasons
  <2>13. ReasonsShown(whole, history)
    BY <2>7, <2>11, <2>12, RequestReasons
  <2>14. /\ \A x : Shows(whole, x) => \E a \in DOMAIN history : IsCall(history[a]) /\ history[a].id = x
         /\ \A x : \A p, q \in DOMAIN whole : Calls(whole[p], x) /\ Calls(whole[q], x) => p = q
    BY <2>7, <2>11, <2>12, RequestShows
  <2>15. Shows(whole, id)
    BY <2>5 DEF Shows
  <2>16. PICK a \in DOMAIN history : IsCall(history[a]) /\ history[a].id = id
    BY <2>14, <2>15
  <2>17. OfThought(history, made, m, a)
    BY <2>2, <2>16 DEF CallsThink
  <2>18. /\ t \in 1 .. a - 1 /\ history[t].type = "reasoning" /\ t \in DOMAIN history
         /\ \A k \in t + 1 .. a - 1 :
              /\ k \in DOMAIN history
              /\ \/ history[k].type = "message"
                 \/ IsCall(history[k]) /\ \A e \in made : e.call.id = history[k].id =>
                      e.thought = t /\ e.call.id < id
    BY <2>8, <2>17 DEF OfThought
  <2>19. IsOfThought(history, t, a)
    BY <2>16, <2>18 DEF IsOfThought, Open
  <2>20. \A k \in t + 1 .. a - 1 : IsCall(history[k]) => ~Shows(whole, history[k].id)
    <3> SUFFICES ASSUME NEW k \in t + 1 .. a - 1, IsCall(history[k]) PROVE ~Shows(whole, history[k].id)
      OBVIOUS
    <3>1. k \in DOMAIN history
      BY <2>18
    <3>2. PICK e \in made : e.item = history[k] /\ e.call.id = history[k].id
      BY <2>2, <3>1 DEF IsMade
    <3>3. e.thought = t /\ e.call.id < id
      BY <2>18, <3>2, CallIsNoMessage
    <3> QED
      BY <2>6, <3>2, <3>3
  <2>21. FirstOf(whole, history[a].id, t)
    BY <2>13, <2>15, <2>16, <2>18, <2>19, <2>20 DEF ReasonsShown
  <2>22. PICK p \in DOMAIN whole :
            whole[p].calls # <<>> /\ whole[p].calls[1].id = id /\ whole[p].reasoning = t
    BY <2>16, <2>21 DEF FirstOf
  <2>23. 1 \in DOMAIN whole[p].calls
    <3>1. IsSequence(whole[p].calls)
      BY <2>4, <2>22 DEF GoodMessages, GoodMessage
    <3>2. DOMAIN whole[p].calls = 1 .. Len(whole[p].calls) /\ Len(whole[p].calls) \in Nat
          /\ Len(whole[p].calls) # 0
      BY <2>22, <3>1, SequenceFacts, ShortSequence
    <3> QED
      BY <3>2
  <2>24. p = i
    BY <2>5, <2>14, <2>22, <2>23 DEF Calls
  <2> QED
    BY <2>22, <2>24 DEF whole
<1> QED
  BY <1>1, AlwaysThoughts, PTL
=============================================================================
