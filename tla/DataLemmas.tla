----------------------------- MODULE DataLemmas -----------------------------
(***************************************************************************)
(* Induction over the natural numbers, and the existence of functions      *)
(* defined by recursion over them, as facts about sets and functions.      *)
(* They are derived from the well-foundedness of the strict subset order,  *)
(* so that a proof about a loop of the code cites them without passing an  *)
(* operator.                                                               *)
(***************************************************************************)
EXTENDS Integers, FiniteSets, FiniteSetTheorems, WellFoundedInduction, TLAPS

\* A set of natural numbers has a least element.
LEMMA SmallestNat ==
  ASSUME NEW T \in SUBSET Nat, T # {}
  PROVE  \E n \in T : \A m \in T : n <= m
<1> DEFINE Below(n) == 0..(n - 1)
           Seeds == {Below(n) : n \in T}
<1>1. IsWellFoundedOn(StrictSubsetOrdering(Nat), FiniteSubsetsOf(Nat))
  BY FS_StrictSubsetOrderingWellFounded
<1>2. Seeds \subseteq FiniteSubsetsOf(Nat) /\ Seeds # {}
  <2>1. \A n \in T : Below(n) \subseteq Nat /\ IsFiniteSet(Below(n))
    BY FS_Interval
  <2> QED
    BY <2>1 DEF FiniteSubsetsOf
<1>3. PICK x \in Seeds : \A y \in Seeds : ~ (<<y, x>> \in StrictSubsetOrdering(Nat))
  BY <1>1, <1>2, WFMin
<1>4. PICK n \in T : x = Below(n)
  OBVIOUS
<1>5. ASSUME NEW m \in T PROVE n <= m
  <2>1. n \in Nat /\ m \in Nat
    OBVIOUS
  <2> SUFFICES ASSUME m < n PROVE FALSE
    BY <2>1
  <2>2. m \in Below(n) /\ m \notin Below(m)
    BY <2>1
  <2>3. Below(m) \subseteq Below(n) /\ Below(m) # Below(n)
    BY <2>1, <2>2
  <2>4. Below(m) \in SUBSET Nat /\ Below(n) \in SUBSET Nat
    OBVIOUS
  <2>5. <<Below(m), Below(n)>> \in StrictSubsetOrdering(Nat)
    BY <2>3, <2>4 DEF StrictSubsetOrdering
  <2>6. Below(m) \in Seeds
    OBVIOUS
  <2> QED
    BY <1>3, <1>4, <2>5, <2>6
<1> QED
  BY <1>5

\* Induction: a set that holds 0 and, with a number, its successor holds every
\* natural number.
LEMMA SetInduction ==
  ASSUME NEW S, 0 \in S, \A n \in Nat : n \in S => n + 1 \in S
  PROVE  Nat \subseteq S
<1> DEFINE T == Nat \ S
<1> SUFFICES ASSUME T # {} PROVE FALSE
  OBVIOUS
<1>1. PICK n \in T : \A m \in T : n <= m
  BY SmallestNat
<1>2. n # 0 /\ n - 1 \in Nat
  OBVIOUS
<1>3. n - 1 \notin T
  BY <1>1, <1>2
<1> QED
  BY <1>2, <1>3

\* f holds the states of a loop of N steps over a state of S.
IsLoop(f, S, N, first, step) ==
  /\ f \in [0..N -> S] /\ f[0] = first
  /\ \A n \in 1..N : f[n] = step[<<n, f[n - 1]>>]

\* The function of the states of a loop exists.
LEMMA LoopExists ==
  ASSUME NEW S, NEW N \in Nat, NEW first \in S, NEW step \in [(1..N) \X S -> S]
  PROVE  \E f : IsLoop(f, S, N, first, step)
<1> DEFINE Good(n, f) == /\ f \in [0..n -> S] /\ f[0] = first
                         /\ \A m \in 1..n : f[m] = step[<<m, f[m - 1]>>]
           G == {n \in Nat : n <= N => \E f : Good(n, f)}
<1>1. 0 \in G
  <2>1. Good(0, [n \in 0..0 |-> first])
    OBVIOUS
  <2> QED
    BY <2>1
<1>2. ASSUME NEW n \in Nat, n \in G, n + 1 <= N PROVE n + 1 \in G
  <2>1. PICK f : Good(n, f)
    BY <1>2
  <2> DEFINE value == step[<<n + 1, f[n]>>]
             g == [m \in 0..(n + 1) |-> IF m = n + 1 THEN value ELSE f[m]]
  <2>2. f[n] \in S /\ n + 1 \in 1..N
    BY <1>2, <2>1
  <2>3. value \in S
    BY <2>2
  <2> HIDE DEF value
  <2>4. g \in [0..(n + 1) -> S] /\ g[0] = first
    BY <2>1, <2>3
  <2>5. ASSUME NEW m \in 1..(n + 1) PROVE g[m] = step[<<m, g[m - 1]>>]
    <3>1. CASE m = n + 1
      <4>1. g[m] = value /\ g[m - 1] = f[n]
        BY <3>1
      <4> QED
        BY <3>1, <4>1 DEF value
    <3>2. CASE m # n + 1
      <4>1. m \in 1..n /\ g[m] = f[m] /\ g[m - 1] = f[m - 1]
        BY <3>2
      <4> QED
        BY <2>1, <4>1
    <3> QED
      BY <3>1, <3>2
  <2>6. Good(n + 1, g)
    BY <2>4, <2>5
  <2> HIDE DEF Good
  <2> QED
    BY <2>6
<1>3. Nat \subseteq G
  <2>1. \A n \in Nat : n \in G => n + 1 \in G
    BY <1>2
  <2> HIDE DEF G
  <2> QED
    BY <1>1, <2>1, SetInduction
<1> QED
  BY <1>3 DEF IsLoop
=============================================================================
