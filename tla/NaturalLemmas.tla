---------------------------- MODULE NaturalLemmas ----------------------------
(***************************************************************************)
(* Induction over the naturals in terms of sets: a set of naturals that is *)
(* not empty has a least member, a bounded one a greatest, one that holds  *)
(* 0 and every successor is all of them, and a function can be iterated as *)
(* often as one likes.                                                     *)
(***************************************************************************)
EXTENDS Integers, TLAPS, WellFoundedInduction

LEMMA LowestNatural ==
  ASSUME NEW S \in SUBSET Nat, S # {}
  PROVE  \E x \in S : \A y \in S : x <= y
<1> DEFINE Less == {pair \in Nat \X Nat : pair[1] < pair[2]}
<1>1. IsWellFoundedOn(Less, Nat)
  BY NatLessThanWellFounded DEF OpToRel
<1>2. PICK x \in S : \A y \in S : <<y, x>> \notin Less
  BY <1>1, WFMin
<1>3. \A y \in S : ~(y < x)
  BY <1>2
<1>4. QED
  BY <1>3

LEMMA HighestNatural ==
  ASSUME NEW N \in Nat, NEW S \in SUBSET (0..N), S # {}
  PROVE  \E x \in S : \A y \in S : x >= y
<1> DEFINE T == {N - x : x \in S}
<1>1. T \in SUBSET Nat /\ T # {}
  <2>1. PICK x \in S : TRUE
    OBVIOUS
  <2>2. N - x \in T
    OBVIOUS
  <2>3. \A y \in S : N - y \in Nat
    OBVIOUS
  <2>4. QED
    BY <2>2, <2>3
<1>2. PICK m \in T : \A n \in T : m <= n
  <2> HIDE DEF T
  <2>1. QED
    BY <1>1, LowestNatural
<1>3. PICK x \in S : m = N - x
  OBVIOUS
<1>4. ASSUME NEW y \in S PROVE x >= y
  <2>1. N - y \in T /\ x \in 0..N /\ y \in 0..N
    OBVIOUS
  <2>2. m <= N - y
    BY <1>2, <2>1
  <2>3. QED
    BY <1>3, <2>1, <2>2
<1>5. QED
  BY <1>4

\* A set that holds 0, and n + 1 whenever it holds n below N, holds 0..N.
LEMMA SetInduction ==
  ASSUME NEW N \in Nat, NEW S, 0 \in S, \A n \in 0..(N - 1) : n \in S => n + 1 \in S
  PROVE  0..N \subseteq S
<1> DEFINE missing == {n \in 0..N : n \notin S}
<1>1. SUFFICES ASSUME missing # {} PROVE FALSE
  OBVIOUS
<1>2. missing \in SUBSET Nat
  OBVIOUS
<1>3. PICK m \in missing : \A y \in missing : m <= y
  <2> HIDE DEF missing
  <2>1. QED
    BY <1>1, <1>2, LowestNatural
<1>4. m # 0 /\ m \in Nat /\ m <= N
  OBVIOUS
<1>5. m - 1 \in 0..(N - 1) /\ m - 1 \notin missing
  BY <1>3, <1>4
<1>6. m - 1 \in S
  BY <1>5
<1>7. (m - 1) + 1 \in S
  BY <1>5, <1>6
<1>8. QED
  BY <1>4, <1>7

\* The i-th value of h comes from the one before it by the i-th step.
Builds(h, step, x, N, S) ==
    h \in [0..N -> S] /\ h[0] = x /\ \A i \in 1..N : h[i] = step[i][h[i - 1]]

LEMMA Building ==
  ASSUME NEW N \in Nat, NEW S, NEW x \in S, NEW step \in [1..N -> [S -> S]]
  PROVE  \E h : Builds(h, step, x, N, S)
<1> DEFINE Run(n) == {h \in [0..n -> S] : h[0] = x /\ \A i \in 1..n : h[i] = step[i][h[i - 1]]}
           T == {n \in 0..N : Run(n) # {}}
<1>1. 0 \in T
  <2>1. [i \in 0..0 |-> x] \in Run(0)
    OBVIOUS
  <2>2. QED
    BY <2>1
<1>2. ASSUME NEW n \in 0..(N - 1), n \in T PROVE n + 1 \in T
  <2>1. PICK h \in [0..n -> S] : h[0] = x /\ \A i \in 1..n : h[i] = step[i][h[i - 1]]
    BY <1>2
  <2>2. PICK y \in S : y = step[n + 1][h[n]]
    <3>1. n + 1 \in 1..N /\ h[n] \in S
      OBVIOUS
    <3>2. QED
      BY <3>1
  <2> DEFINE g == [i \in 0..(n + 1) |-> IF i <= n THEN h[i] ELSE y]
  <2>3. g \in [0..(n + 1) -> S]
    BY <2>1
  <2>4. g[0] = x
    BY <2>1
  <2>5. ASSUME NEW i \in 1..(n + 1) PROVE g[i] = step[i][g[i - 1]]
    <3>1. CASE i <= n
      BY <2>1, <3>1
    <3>2. CASE i = n + 1
      BY <2>2, <3>2
    <3>3. QED
      BY <3>1, <3>2
  <2>6. g \in Run(n + 1)
    BY <2>3, <2>4, <2>5
  <2>7. QED
    BY <2>6
<1>3. N \in T
  <2> HIDE DEF T
  <2>1. 0..N \subseteq T
    BY <1>1, <1>2, SetInduction
  <2>2. QED
    BY <2>1
<1>4. QED
  BY <1>3 DEF Builds

\* h applies step over and over, N times, from x.
Iterates(h, step, x, N, S) ==
    h \in [0..N -> S] /\ h[0] = x /\ \A i \in 1..N : h[i] = step[h[i - 1]]

LEMMA Iteration ==
  ASSUME NEW N \in Nat, NEW S, NEW x \in S, NEW step \in [S -> S]
  PROVE  \E h : Iterates(h, step, x, N, S)
<1>1. PICK steps : steps = [i \in 1..N |-> step]
  OBVIOUS
<1>2. steps \in [1..N -> [S -> S]]
  BY <1>1
<1>3. PICK h : Builds(h, steps, x, N, S)
  BY <1>2, Building
<1>4. ASSUME NEW i \in 1..N PROVE h[i] = step[h[i - 1]]
  <2>1. i - 1 \in 0..N /\ h[i - 1] \in S /\ h[i] = steps[i][h[i - 1]]
    BY <1>3 DEF Builds
  <2>2. QED
    BY <1>1, <2>1
<1>5. QED
  BY <1>3, <1>4 DEF Builds, Iterates
=============================================================================
