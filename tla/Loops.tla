------------------------------- MODULE Loops -------------------------------
(***************************************************************************)
(* Facts about loops: induction over the rounds, and that a loop whose     *)
(* body is a function has a run.                                           *)
(***************************************************************************)
EXTENDS Integers, TLAPS, WellFoundedInduction, NaturalsInduction

\* Sets of numbers have a least element.
LEMMA LeastNumber ==
  ASSUME NEW T, T \subseteq Nat, T # {}
  PROVE  \E n \in T : \A m \in T : n <= m
  <1>1. PICK n \in T : \A m \in T : ~(<<m, n>> \in OpToRel(<, Nat))
    BY NatLessThanWellFounded, WFMin
  <1>2. ASSUME NEW m \in T
        PROVE  n <= m
    <2>1. ~(m < n)
      BY <1>1 DEF OpToRel
    <2> QED
      BY <2>1
  <1> QED
    BY <1>2

\* What holds before the first round and after each round holds after all N:
\* T is the set of rounds after which it does.
LEMMA RoundInduction ==
  ASSUME NEW N \in Nat, NEW T, 0 \in T,
         \A n \in 1..N : n - 1 \in T => n \in T
  PROVE  \A n \in 0..N : n \in T
  <1> DEFINE U == {n \in 0..N : n \notin T}
  <1> SUFFICES ASSUME U # {} PROVE FALSE
    OBVIOUS
  <1>1. PICK n \in U : \A m \in U : n <= m
    <2>1. U \subseteq Nat
      OBVIOUS
    <2> HIDE DEF U
    <2> QED
      BY <2>1, LeastNumber
  <1>2. n \in 0..N /\ n \notin T
    OBVIOUS
  <1>3. n \in 1..N /\ n - 1 \in 0..N /\ ~(n <= n - 1)
    BY <1>2
  <1>4. n - 1 \in T
    BY <1>1, <1>3
  <1> QED
    BY <1>2, <1>3, <1>4

\* A loop of N rounds from x, whose round n turns y into F[<<n, y>>].
IsRun(g, N, x, F) ==
  /\ DOMAIN g = 0..N /\ g[0] = x
  /\ \A n \in 1..N : g[n] = F[<<n, g[n - 1]>>]

\* Such a loop has a run, whose values stay in S.
LEMMA LoopRuns ==
  ASSUME NEW N \in Nat, NEW S, NEW x \in S, NEW F,
         \A n \in 1..N, y \in S : F[<<n, y>>] \in S
  PROVE  \E g \in [0..N -> S] : IsRun(g, N, x, F)
  <1> DEFINE T == {m \in 0..N : \E g \in [0..m -> S] : IsRun(g, m, x, F)}
  <1>1. 0 \in T
    <2> DEFINE g == [i \in 0..0 |-> x]
    <2>1. g \in [0..0 -> S] /\ IsRun(g, 0, x, F)
      BY DEF IsRun
    <2> QED
      BY <2>1
  <1>2. ASSUME NEW n \in 1..N, n - 1 \in T
        PROVE  n \in T
    <2>1. PICK g \in [0..(n - 1) -> S] : IsRun(g, n - 1, x, F)
      BY <1>2
    <2>2. g[n - 1] \in S /\ F[<<n, g[n - 1]>>] \in S
      OBVIOUS
    <2> DEFINE h == [i \in 0..n |-> IF i = n THEN F[<<n, g[n - 1]>>] ELSE g[i]]
    <2>3. \A i \in 0..n : i # n => i \in 0..(n - 1)
      OBVIOUS
    <2>4. h \in [0..n -> S] /\ DOMAIN h = 0..n
      BY <2>2, <2>3
    <2>5. h[0] = x /\ h[n] = F[<<n, g[n - 1]>>] /\ \A i \in 0..(n - 1) : h[i] = g[i]
      BY <2>1 DEF IsRun
    <2>6. \A i \in 1..n : h[i] = F[<<i, h[i - 1]>>]
      <3> SUFFICES ASSUME NEW i \in 1..n
                   PROVE  h[i] = F[<<i, h[i - 1]>>]
        OBVIOUS
      <3>1. h[i - 1] = g[i - 1]
        BY <2>5
      <3>2. CASE i = n
        BY <2>5, <3>1, <3>2
      <3>3. CASE i # n
        <4>1. i \in 1..(n - 1) /\ h[i] = g[i]
          BY <2>5, <3>3
        <4> QED
          BY <2>1, <3>1, <4>1 DEF IsRun
      <3> QED
        BY <3>2, <3>3
    <2> HIDE DEF h
    <2> QED
      BY <2>4, <2>5, <2>6 DEF IsRun
  <1> HIDE DEF T
  <1>3. N \in T
    BY <1>1, <1>2, RoundInduction
  <1> QED
    BY <1>3 DEF T
============================================================================
