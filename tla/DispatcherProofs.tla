-------------------------- MODULE DispatcherProofs --------------------------
(***************************************************************************)
(* The dispatcher implements nested transactions, and its gas meters nest: *)
(* whatever the contracts, their responses, gas limits and costs, and      *)
(* however deep they nest.                                                 *)
(***************************************************************************)
EXTENDS Dispatcher, TLAPS

----------------------------------------------------------------------------
(* The inductive invariant.                                                *)

IsSeq(s) == Len(s) \in Nat /\ s = [i \in 1..Len(s) |-> s[i]]

IsFrame(f) ==
  /\ f = [contract |-> f.contract, msgs |-> f.msgs, inFlight |-> f.inFlight,
          limited |-> f.limited, data |-> f.data, isReply |-> f.isReply, done |-> f.done]
  /\ f.msgs \in Seq(SubMsg)
  /\ f.limited => f.inFlight # NoMsg

IsContext(c) == c = [writes |-> c.writes, events |-> c.events, depth |-> c.depth]

\* k of the responses fs wait for a submessage, which has a context of its own:
\* at counts them from the outermost one on.
Weight(f) == IF f.inFlight # NoMsg THEN 1 ELSE 0

Tally(fs, at) ==
  /\ at \in [0..Len(fs) -> Nat] /\ at[0] = 0
  /\ \A i \in 1..Len(fs) : at[i] = at[i - 1] + Weight(fs[i])

Waiting(fs, k) == \E at : Tally(fs, at) /\ at[Len(fs)] = k

\* How the Go stack is built: a reply runs while no submessage of its caller
\* is in flight, anything else while one is.
IsStack(fs) ==
  /\ IsSeq(fs)
  /\ \A i \in 1..Len(fs) : IsFrame(fs[i])
  /\ \A i \in 1..Len(fs) : fs[i].isReply => i > 1 /\ fs[i - 1].inFlight = NoMsg
  /\ \A i \in 1..Len(fs) : i > 1 /\ ~fs[i].isReply => fs[i - 1].inFlight # NoMsg

StepInv ==
  /\ step.op \in {"loop", "fail", "reply"} => frames # << >> /\ Top.inFlight = NoMsg
  /\ step.op \in {"run", "done"} => frames = << >> \/ Top.inFlight # NoMsg
  /\ step = Idle => frames = << >> /\ contexts = << >>
  /\ step # Idle => Waiting(frames, Len(contexts) - 1) /\ store = {}

\* Contexts hold only what runs before n wrote.
Contexts(cs, n) ==
  /\ IsSeq(cs)
  /\ \A i \in 1..Len(cs) : IsContext(cs[i]) /\ cs[i].writes \subseteq 1..(n - 1)

IInv ==
  /\ IsStack(frames) /\ StepInv
  /\ nextRun \in Nat \ {0} /\ Contexts(contexts, nextRun)

\* The register names OutOfGas in one way only.
GasInv == step.op = "outOfGas" => step = OutOfGas

----------------------------------------------------------------------------
(* Sequences of anything.                                                  *)

\* Sequences over a set are sequences.
LEMMA SeqIsSeq ==
  ASSUME NEW S, NEW s \in Seq(S)
  PROVE  IsSeq(s)
  BY DEF IsSeq

\* A sequence is one over any set that holds its elements.
LEMMA IsSeqSeq ==
  ASSUME NEW s, IsSeq(s), NEW S, \A i \in 1..Len(s) : s[i] \in S
  PROVE  s \in Seq(S)
  <1>1. s \in [1..Len(s) -> S]
    BY DEF IsSeq
  <1> QED
    BY <1>1 DEF IsSeq

\* What Append adds to a stack.
LEMMA AppendIsSeq ==
  ASSUME NEW s, IsSeq(s), NEW x
  PROVE  /\ IsSeq(Append(s, x)) /\ Len(Append(s, x)) = Len(s) + 1
         /\ Append(s, x)[Len(s) + 1] = x
         /\ \A i \in 1..Len(s) : Append(s, x)[i] = s[i]
  <1> DEFINE S == {s[i] : i \in 1..Len(s)} \cup {x}
  <1>1. s \in Seq(S)
    BY IsSeqSeq
  <1>2. x \in S
    OBVIOUS
  <1> HIDE DEF S
  <1>3. /\ Append(s, x) \in Seq(S) /\ Len(Append(s, x)) = Len(s) + 1
        /\ Append(s, x)[Len(s) + 1] = x
        /\ \A i \in 1..Len(s) : Append(s, x)[i] = s[i]
    BY <1>1, <1>2
  <1> QED
    BY <1>3, SeqIsSeq, Zenon

\* What Front takes off a stack.
LEMMA FrontIsSeq ==
  ASSUME NEW s, IsSeq(s), s # << >>
  PROVE  /\ IsSeq(Front(s)) /\ Len(Front(s)) = Len(s) - 1 /\ Len(s) \in Nat \ {0}
         /\ \A i \in 1..(Len(s) - 1) : Front(s)[i] = s[i]
  <1> DEFINE S == {s[i] : i \in 1..Len(s)}
  <1>1. s \in Seq(S)
    BY IsSeqSeq
  <1> HIDE DEF S
  <1>2. Len(s) \in Nat \ {0}
    BY <1>1
  <1>3. PICK m \in Int : m = Len(s) - 1
    BY <1>2
  <1>4. \A i \in 1..m : s[i] \in S
    BY <1>1, <1>2, <1>3
  <1>5. /\ SubSeq(s, 1, m) \in Seq(S)
        /\ Len(SubSeq(s, 1, m)) = IF 1 <= m THEN m - 1 + 1 ELSE 0
        /\ \A i \in 1..(m - 1 + 1) : SubSeq(s, 1, m)[i] = s[1 + i - 1]
    BY <1>1, <1>2, <1>3, <1>4, SMTT(30)
  <1>6. Front(s) = SubSeq(s, 1, m)
    BY <1>3 DEF Front
  <1>7. ASSUME NEW i \in 1..(Len(s) - 1)
        PROVE  Front(s)[i] = s[i]
    <2>1. i \in 1..(m - 1 + 1) /\ 1 + i - 1 = i
      BY <1>2, <1>3
    <2> QED
      BY <1>5, <1>6, <2>1
  <1>8. Front(s) \in Seq(S) /\ Len(Front(s)) = Len(s) - 1
    BY <1>2, <1>3, <1>5, <1>6
  <1> QED
    BY <1>2, <1>7, <1>8, SeqIsSeq

\* The empty stack is a sequence.
LEMMA EmptyIsSeq == IsSeq(<< >>) /\ Len(<< >>) = 0
  BY DEF IsSeq

\* The empty stack is the one of length zero.
LEMMA LenZero ==
  ASSUME NEW s, IsSeq(s)
  PROVE  s = << >> <=> Len(s) = 0
  <1> DEFINE S == {s[i] : i \in 1..Len(s)}
  <1>1. s \in Seq(S)
    BY IsSeqSeq
  <1> HIDE DEF S
  <1> QED
    BY <1>1

\* A function on 1..n is a sequence.
LEMMA FunctionIsSeq ==
  ASSUME NEW n \in Nat, NEW q, q = [i \in 1..n |-> q[i]]
  PROVE  IsSeq(q) /\ Len(q) = n
  <1> DEFINE S == {q[i] : i \in 1..n}
  <1>1. \A i \in 1..n : q[i] \in S
    BY Zenon
  <1> HIDE DEF S
  <1>2. q \in [1..n -> S]
    BY <1>1
  <1>3. q \in Seq(S) /\ Len(q) = n
    BY <1>2
  <1> QED
    BY <1>3, SeqIsSeq

\* Sequences with the same elements are equal.
LEMMA SameSeq ==
  ASSUME NEW s, IsSeq(s), NEW q, IsSeq(q), Len(q) = Len(s),
         \A i \in 1..Len(s) : q[i] = s[i]
  PROVE  q = s
  BY DEF IsSeq

\* The last of s is replaced by x.
Replaces(q, s, x) == q = [s EXCEPT ![Len(s)] = x]

\* What replacing the last element of a stack gives.
LEMMA ReplaceIsSeq ==
  ASSUME NEW s, IsSeq(s), s # << >>, NEW x, NEW q, Replaces(q, s, x)
  PROVE  /\ IsSeq(q) /\ Len(q) = Len(s) /\ Len(s) \in Nat \ {0} /\ q # << >>
         /\ \A i \in 1..Len(s) : q[i] = IF i = Len(s) THEN x ELSE s[i]
  <1>1. Len(s) \in Nat \ {0} /\ DOMAIN s = 1..Len(s)
    BY LenZero DEF IsSeq
  <1>2. q = [i \in 1..Len(s) |-> IF i = Len(s) THEN x ELSE s[i]]
    BY <1>1, Zenon DEF Replaces, IsSeq
  <1>3. q = [i \in 1..Len(s) |-> q[i]]
    BY <1>2, Zenon
  <1>4. IsSeq(q) /\ Len(q) = Len(s)
    BY <1>1, <1>3, FunctionIsSeq
  <1>5. \A i \in 1..Len(s) : q[i] = IF i = Len(s) THEN x ELSE s[i]
    BY <1>2, Zenon
  <1>6. q # << >>
    BY <1>1, <1>4, LenZero
  <1> QED
    BY <1>1, <1>4, <1>5, <1>6, Zenon

\* A stack that differs in the last element only has it replaced.
LEMMA ReplacedBy ==
  ASSUME NEW s, IsSeq(s), s # << >>, NEW x, NEW q, IsSeq(q), Len(q) = Len(s),
         \A i \in 1..Len(s) : q[i] = IF i = Len(s) THEN x ELSE s[i]
  PROVE  Replaces(q, s, x)
  <1>1. Len(s) \in Nat \ {0} /\ DOMAIN s = 1..Len(s)
    BY LenZero DEF IsSeq
  <1>2. q = [i \in 1..Len(s) |-> IF i = Len(s) THEN x ELSE s[i]]
    BY DEF IsSeq
  <1>3. [s EXCEPT ![Len(s)] = x] = [i \in 1..Len(s) |-> IF i = Len(s) THEN x ELSE s[i]]
    BY <1>1, Zenon
  <1> QED
    BY <1>2, <1>3, Zenon DEF Replaces

----------------------------------------------------------------------------
(* Stacks of responses.                                                    *)

\* How many wait is a number, and none on an empty stack.
LEMMA WaitingNat ==
  ASSUME NEW fs, IsSeq(fs), NEW k, Waiting(fs, k)
  PROVE  k \in Nat /\ (fs = << >> => k = 0)
  <1>1. PICK at : Tally(fs, at) /\ at[Len(fs)] = k
    BY DEF Waiting
  <1>2. Len(fs) \in Nat /\ (fs = << >> => Len(fs) = 0)
    BY LenZero DEF IsSeq
  <1> QED
    BY <1>1, <1>2 DEF Tally

\* The innermost response of a stack.
LEMMA LastFrame ==
  ASSUME NEW fs, IsStack(fs), fs # << >>
  PROVE  /\ Len(fs) \in Nat \ {0} /\ Len(fs) \in 1..Len(fs)
         /\ Last(fs) = fs[Len(fs)] /\ IsFrame(Last(fs))
  <1>1. IsSeq(fs) /\ Len(fs) \in Nat /\ Len(fs) # 0
    BY LenZero DEF IsStack, IsSeq
  <1>2. Len(fs) \in Nat \ {0} /\ Len(fs) \in 1..Len(fs)
    BY <1>1
  <1>3. Last(fs) = fs[Len(fs)] /\ IsFrame(Last(fs))
    BY <1>2 DEF Last, IsStack
  <1> QED
    BY <1>2, <1>3

\* The innermost response changes, but not whether it is that of a reply.
LEMMA StackSet ==
  ASSUME NEW fs, IsStack(fs), fs # << >>, NEW g, IsFrame(g),
         g.isReply <=> Last(fs).isReply,
         NEW q, Replaces(q, fs, g)
  PROVE  /\ IsStack(q) /\ q # << >> /\ Len(q) = Len(fs) /\ Last(q) = g
         /\ \A k : Waiting(fs, k) =>
              /\ (g.inFlight = NoMsg <=> Last(fs).inFlight = NoMsg) => Waiting(q, k)
              /\ g.inFlight # NoMsg /\ Last(fs).inFlight = NoMsg => Waiting(q, k + 1)
              /\ g.inFlight = NoMsg /\ Last(fs).inFlight # NoMsg => Waiting(q, k - 1)
  <1> DEFINE n == Len(fs)
  <1>1. n \in Nat \ {0} /\ n \in 1..n /\ Last(fs) = fs[n] /\ IsSeq(fs)
    BY LastFrame DEF IsStack
  <1>2. /\ IsSeq(q) /\ Len(q) = n
        /\ \A i \in 1..n : q[i] = IF i = n THEN g ELSE fs[i]
    BY <1>1, ReplaceIsSeq
  <1>3. q # << >> /\ Last(q) = g
    BY <1>1, <1>2, LenZero DEF Last
  <1>4. IsStack(q)
    <2>1. \A i \in 1..n : q[i].isReply <=> fs[i].isReply
      BY <1>1, <1>2, Zenon
    <2>2. \A i \in 1..n : i > 1 => i - 1 \in 1..n /\ q[i - 1] = fs[i - 1]
      BY <1>1, <1>2
    <2>3. \A i \in 1..n : IsFrame(q[i])
      BY <1>1, <1>2 DEF IsStack
    <2> HIDE DEF n
    <2> QED
      BY <1>2, <2>1, <2>2, <2>3 DEF IsStack, n
  <1>5. ASSUME NEW k, Waiting(fs, k)
        PROVE  /\ (g.inFlight = NoMsg <=> Last(fs).inFlight = NoMsg) => Waiting(q, k)
               /\ g.inFlight # NoMsg /\ Last(fs).inFlight = NoMsg => Waiting(q, k + 1)
               /\ g.inFlight = NoMsg /\ Last(fs).inFlight # NoMsg => Waiting(q, k - 1)
    <2>1. PICK at : Tally(fs, at) /\ at[n] = k
      BY <1>5 DEF Waiting
    <2>2. /\ at \in [0..n -> Nat] /\ at[0] = 0
          /\ \A i \in 1..n : at[i] = at[i - 1] + Weight(fs[i])
      BY <2>1 DEF Tally
    <2>3. Weight(g) \in Nat
      BY DEF Weight
    <2> DEFINE bt == [i \in 0..n |-> IF i = n THEN at[n - 1] + Weight(g) ELSE at[i]]
    <2> HIDE DEF n
    <2>4. at[n - 1] \in Nat /\ bt[n] = at[n - 1] + Weight(g) /\ bt[0] = 0
      BY <1>1, <2>2
    <2>5. bt \in [0..n -> Nat]
      BY <1>1, <2>2, <2>3, <2>4
    <2>6. ASSUME NEW i \in 1..n
          PROVE  bt[i] = bt[i - 1] + Weight(q[i])
      <3>1. i - 1 \in 0..n /\ i - 1 # n
        BY <1>1
      <3>2. bt[i - 1] = at[i - 1]
        BY <3>1
      <3>3. CASE i = n
        BY <1>1, <1>2, <2>4, <3>2, <3>3
      <3>4. CASE i # n
        <4>1. bt[i] = at[i] /\ q[i] = fs[i]
          BY <1>1, <1>2, <3>4
        <4> QED
          BY <2>2, <3>2, <4>1
      <3> QED
        BY <3>3, <3>4
    <2> HIDE DEF bt
    <2>7. Tally(q, bt)
      BY <1>2, <2>4, <2>5, <2>6 DEF Tally
    <2>8. Weight(Last(fs)) \in Nat /\ k = at[n - 1] + Weight(Last(fs))
      <3>1. Weight(Last(fs)) \in Nat
        BY DEF Weight
      <3>2. at[n] = at[n - 1] + Weight(fs[n])
        BY <1>1, <2>2
      <3> QED
        BY <1>1, <2>1, <3>1, <3>2
    <2>9. bt[Len(q)] = k + Weight(g) - Weight(Last(fs)) /\ k \in Int
      <3>1. PICK x \in Nat, y \in Nat, z \in Nat :
              x = at[n - 1] /\ y = Weight(g) /\ z = Weight(Last(fs))
        BY <2>3, <2>4, <2>8, Zenon
      <3>2. bt[Len(q)] = x + y /\ k = x + z
        BY <1>2, <2>4, <2>8, <3>1, Zenon
      <3>3. x + y = (x + z) + y - z /\ x + z \in Int
        OBVIOUS
      <3> QED
        BY <3>1, <3>2, <3>3, Zenon
    <2>10. /\ (g.inFlight = NoMsg <=> Last(fs).inFlight = NoMsg) => bt[Len(q)] = k
           /\ g.inFlight # NoMsg /\ Last(fs).inFlight = NoMsg => bt[Len(q)] = k + 1
           /\ g.inFlight = NoMsg /\ Last(fs).inFlight # NoMsg => bt[Len(q)] = k - 1
      BY <2>9 DEF Weight
    <2> QED
      BY <2>7, <2>10 DEF Waiting
  <1> QED
    BY <1>2, <1>3, <1>4, <1>5

\* A response is pushed: that of a reply when its caller waits for nothing,
\* and another when its caller waits.
LEMMA StackPush ==
  ASSUME NEW fs, IsStack(fs), NEW g, IsFrame(g), g.inFlight = NoMsg,
         g.isReply => fs # << >> /\ Last(fs).inFlight = NoMsg,
         ~g.isReply => fs = << >> \/ Last(fs).inFlight # NoMsg,
         NEW q, q = Append(fs, g)
  PROVE  /\ IsStack(q) /\ q # << >> /\ Last(q) = g
         /\ \A k : Waiting(fs, k) => Waiting(q, k)
  <1> DEFINE n == Len(fs)
  <1>1. n \in Nat /\ IsSeq(fs)
    BY DEF IsStack, IsSeq
  <1>2. /\ IsSeq(q) /\ Len(q) = n + 1 /\ q[n + 1] = g
        /\ \A i \in 1..n : q[i] = fs[i]
    BY <1>1, AppendIsSeq
  <1>3. q # << >> /\ Last(q) = g
    BY <1>1, <1>2, LenZero DEF Last
  <1>4. fs # << >> => n \in 1..n /\ Last(fs) = fs[n]
    BY LastFrame
  <1>5. fs = << >> <=> n = 0
    BY <1>1, LenZero
  <1> HIDE DEF n
  <1>6. \A i \in 1..(n + 1) : i \in 1..n \/ i = n + 1
    BY <1>1
  <1>7. \A i \in 1..(n + 1) : IsFrame(q[i])
    BY <1>2, <1>6 DEF IsStack, n
  <1>8. ASSUME NEW i \in 1..(n + 1), i > 1
        PROVE  i - 1 \in 1..n /\ q[i - 1] = fs[i - 1]
    BY <1>1, <1>2, <1>8
  <1>9. ASSUME NEW i \in 1..(n + 1)
        PROVE  /\ q[i].isReply => i > 1 /\ q[i - 1].inFlight = NoMsg
               /\ i > 1 /\ ~q[i].isReply => q[i - 1].inFlight # NoMsg
    <2>1. CASE i \in 1..n
      BY <1>2, <1>8, <2>1 DEF IsStack, n
    <2>2. CASE i = n + 1
      <3>1. n > 0 => (n + 1) - 1 = n /\ q[n] = fs[n] /\ n + 1 > 1
        BY <1>1, <1>2
      <3> QED
        BY <1>1, <1>2, <1>4, <1>5, <2>2, <3>1
    <2> QED
      BY <1>6, <2>1, <2>2, Zenon
  <1>10. IsStack(q)
    BY <1>2, <1>7, <1>9 DEF IsStack
  <1>11. ASSUME NEW k, Waiting(fs, k)
         PROVE  Waiting(q, k)
    <2>1. PICK at : Tally(fs, at) /\ at[n] = k
      BY <1>11 DEF Waiting, n
    <2>2. /\ at \in [0..n -> Nat] /\ at[0] = 0
          /\ \A i \in 1..n : at[i] = at[i - 1] + Weight(fs[i])
      BY <2>1 DEF Tally, n
    <2>3. Weight(g) = 0
      BY DEF Weight
    <2> DEFINE bt == [i \in 0..(n + 1) |-> IF i = n + 1 THEN at[n] ELSE at[i]]
    <2>4. at[n] \in Nat /\ bt[n + 1] = at[n] /\ bt[0] = 0 /\ bt \in [0..(n + 1) -> Nat]
      BY <1>1, <2>2
    <2>5. ASSUME NEW i \in 1..(n + 1)
          PROVE  bt[i] = bt[i - 1] + Weight(q[i])
      <3>1. i - 1 \in 0..(n + 1) /\ i - 1 # n + 1
        BY <1>1
      <3>2. bt[i - 1] = at[i - 1]
        BY <3>1
      <3>3. CASE i = n + 1
        BY <1>1, <1>2, <2>3, <2>4, <3>2, <3>3
      <3>4. CASE i # n + 1
        <4>1. bt[i] = at[i] /\ i \in 1..n /\ q[i] = fs[i]
          BY <1>1, <1>2, <3>4
        <4> QED
          BY <2>2, <3>2, <4>1, Zenon
      <3> QED
        BY <3>3, <3>4, Zenon
    <2> HIDE DEF bt
    <2>6. Tally(q, bt) /\ bt[Len(q)] = k
      BY <1>2, <2>1, <2>4, <2>5 DEF Tally
    <2> QED
      BY <2>6 DEF Waiting
  <1> QED
    BY <1>3, <1>10, <1>11

\* The innermost response is taken off.
LEMMA StackPop ==
  ASSUME NEW fs, IsStack(fs), fs # << >>, NEW q, q = Front(fs)
  PROVE  /\ IsStack(q) /\ Len(q) = Len(fs) - 1
         /\ \A k : Waiting(fs, k) =>
              /\ Last(fs).inFlight = NoMsg => Waiting(q, k)
              /\ Last(fs).inFlight # NoMsg => Waiting(q, k - 1)
         /\ Last(fs).isReply => q # << >> /\ Last(q).inFlight = NoMsg
         /\ ~Last(fs).isReply => q = << >> \/ Last(q).inFlight # NoMsg
  <1> DEFINE n == Len(fs)
  <1>1. n \in Nat \ {0} /\ n \in 1..n /\ Last(fs) = fs[n] /\ IsSeq(fs)
    BY LastFrame DEF IsStack
  <1>2. /\ IsSeq(q) /\ Len(q) = n - 1
        /\ \A i \in 1..(n - 1) : q[i] = fs[i]
    BY <1>1, FrontIsSeq
  <1> HIDE DEF n
  <1>3. \A i \in 1..(n - 1) : i \in 1..n
    BY <1>1
  <1>4. IsStack(q)
    <2>1. \A i \in 1..(n - 1) : IsFrame(q[i])
      BY <1>2, <1>3 DEF IsStack, n
    <2>2. ASSUME NEW i \in 1..(n - 1), i > 1
          PROVE  i - 1 \in 1..(n - 1) /\ q[i - 1] = fs[i - 1]
      BY <1>1, <1>2, <2>2
    <2>3. ASSUME NEW i \in 1..(n - 1)
          PROVE  /\ q[i].isReply => i > 1 /\ q[i - 1].inFlight = NoMsg
                 /\ i > 1 /\ ~q[i].isReply => q[i - 1].inFlight # NoMsg
      BY <1>2, <1>3, <2>2 DEF IsStack, n
    <2> QED
      BY <1>2, <2>1, <2>3 DEF IsStack
  <1>5. ASSUME NEW k, Waiting(fs, k)
        PROVE  /\ Last(fs).inFlight = NoMsg => Waiting(q, k)
               /\ Last(fs).inFlight # NoMsg => Waiting(q, k - 1)
    <2>1. PICK at : Tally(fs, at) /\ at[n] = k
      BY <1>5 DEF Waiting, n
    <2>2. /\ at \in [0..n -> Nat] /\ at[0] = 0
          /\ \A i \in 1..n : at[i] = at[i - 1] + Weight(fs[i])
      BY <2>1 DEF Tally, n
    <2> DEFINE bt == [i \in 0..(n - 1) |-> at[i]]
    <2>3. bt \in [0..(n - 1) -> Nat] /\ bt[0] = 0 /\ bt[n - 1] = at[n - 1] /\ at[n - 1] \in Nat
      BY <1>1, <2>2
    <2>4. ASSUME NEW i \in 1..(n - 1)
          PROVE  bt[i] = bt[i - 1] + Weight(q[i])
      <3>1. bt[i] = at[i] /\ bt[i - 1] = at[i - 1] /\ q[i] = fs[i]
        BY <1>1, <1>2
      <3> QED
        BY <1>3, <2>2, <3>1
    <2> HIDE DEF bt
    <2>5. Weight(Last(fs)) \in Nat /\ k = at[n - 1] + Weight(Last(fs))
      <3>1. Weight(Last(fs)) \in Nat
        BY DEF Weight
      <3>2. at[n] = at[n - 1] + Weight(fs[n])
        BY <1>1, <2>2
      <3> QED
        BY <1>1, <2>1, <3>1, <3>2
    <2>6. Tally(q, bt) /\ bt[Len(q)] = k - Weight(Last(fs))
      BY <1>2, <2>3, <2>4, <2>5 DEF Tally
    <2>7. /\ Last(fs).inFlight = NoMsg => bt[Len(q)] = k
          /\ Last(fs).inFlight # NoMsg => bt[Len(q)] = k - 1
      BY <2>3, <2>5, <2>6 DEF Weight
    <2> QED
      BY <2>6, <2>7 DEF Waiting
  <1>7. q = << >> <=> n = 1
    BY <1>1, <1>2, LenZero
  <1>8. n # 1 => n > 1 /\ Last(q) = fs[n - 1]
    BY <1>1, <1>2 DEF Last
  <1>9. /\ Last(fs).isReply => n > 1 /\ fs[n - 1].inFlight = NoMsg
        /\ n > 1 /\ ~Last(fs).isReply => fs[n - 1].inFlight # NoMsg
    BY <1>1 DEF IsStack, n
  <1> QED
    BY <1>2, <1>4, <1>5, <1>7, <1>8, <1>9 DEF n

----------------------------------------------------------------------------
(* Contexts, and the branches they stand for.                              *)

Sound == FALSE
Doomed == TRUE

\* The branches of the contexts cs, the innermost of which fails if bad.
BranchOf(w, b) == [writes |-> w, doomed |-> b]

View(cs, bad) ==
  [i \in DOMAIN cs |-> BranchOf(cs[i].writes, IF i = Len(cs) THEN bad ELSE Sound)]

\* The fields of a branch.
LEMMA BranchFields ==
  ASSUME NEW w, NEW b
  PROVE  /\ BranchOf(w, b).writes = w /\ BranchOf(w, b).doomed = b
         /\ \A v : [BranchOf(w, b) EXCEPT !.writes = v] = BranchOf(v, b)
         /\ \A v : [BranchOf(w, b) EXCEPT !.doomed = v] = BranchOf(w, v)
  BY DEF BranchOf

\* The innermost context changes.
LEMMA ContextsSet ==
  ASSUME NEW cs, NEW k \in Nat, Contexts(cs, k), cs # << >>,
         NEW m \in Nat, k <= m, NEW c, IsContext(c), c.writes \subseteq 1..(m - 1),
         NEW q, Replaces(q, cs, c)
  PROVE  /\ Contexts(q, m) /\ q # << >> /\ Len(q) = Len(cs)
         /\ \A i \in 1..Len(cs) : q[i] = IF i = Len(cs) THEN c ELSE cs[i]
  <1>1. IsSeq(cs) /\ Len(cs) \in 1..Len(cs) /\ Len(cs) \in Nat \ {0}
    BY LenZero DEF Contexts, IsSeq
  <1>2. /\ IsSeq(q) /\ Len(q) = Len(cs)
        /\ \A i \in 1..Len(cs) : q[i] = IF i = Len(cs) THEN c ELSE cs[i]
    BY <1>1, ReplaceIsSeq
  <1>3. 1..(k - 1) \subseteq 1..(m - 1)
    OBVIOUS
  <1>4. \A i \in 1..Len(cs) : IsContext(q[i]) /\ q[i].writes \subseteq 1..(m - 1)
    BY <1>2, <1>3 DEF Contexts
  <1> QED
    BY <1>1, <1>2, <1>4, LenZero DEF Contexts

\* A context is pushed.
LEMMA ContextsPush ==
  ASSUME NEW cs, NEW k, Contexts(cs, k), NEW c, IsContext(c), c.writes = {},
         NEW q, q = Append(cs, c)
  PROVE  /\ Contexts(q, k) /\ q # << >> /\ Len(q) = Len(cs) + 1
         /\ q[Len(cs) + 1] = c /\ \A i \in 1..Len(cs) : q[i] = cs[i]
  <1>1. IsSeq(cs) /\ Len(cs) \in Nat
    BY DEF Contexts, IsSeq
  <1>2. /\ IsSeq(q) /\ Len(q) = Len(cs) + 1
        /\ q[Len(cs) + 1] = c /\ \A i \in 1..Len(cs) : q[i] = cs[i]
    BY <1>1, AppendIsSeq
  <1>3. \A i \in 1..Len(q) : i \in 1..Len(cs) \/ i = Len(cs) + 1
    BY <1>1, <1>2
  <1>4. \A i \in 1..Len(q) : IsContext(q[i]) /\ q[i].writes \subseteq 1..(k - 1)
    BY <1>2, <1>3 DEF Contexts
  <1> QED
    BY <1>1, <1>2, <1>4, LenZero DEF Contexts

\* A context is taken off.
LEMMA ContextsPop ==
  ASSUME NEW cs, NEW k, Contexts(cs, k), cs # << >>, NEW q, q = Front(cs)
  PROVE  /\ Contexts(q, k) /\ Len(q) = Len(cs) - 1 /\ Len(cs) \in Nat \ {0}
         /\ \A i \in 1..(Len(cs) - 1) : q[i] = cs[i]
  <1>1. IsSeq(cs)
    BY DEF Contexts
  <1>2. /\ IsSeq(q) /\ Len(q) = Len(cs) - 1 /\ Len(cs) \in Nat \ {0}
        /\ \A i \in 1..(Len(cs) - 1) : q[i] = cs[i]
    BY <1>1, FrontIsSeq
  <1>3. \A i \in 1..Len(q) : i \in 1..Len(cs)
    BY <1>2
  <1>4. \A i \in 1..Len(q) : IsContext(q[i]) /\ q[i].writes \subseteq 1..(k - 1)
    BY <1>2, <1>3 DEF Contexts
  <1> QED
    BY <1>2, <1>4 DEF Contexts

\* Branches are a sequence, as long as that of the contexts.
LEMMA ViewIsSeq ==
  ASSUME NEW cs, IsSeq(cs), NEW bad
  PROVE  /\ IsSeq(View(cs, bad)) /\ Len(View(cs, bad)) = Len(cs)
         /\ View(cs, bad) = << >> <=> cs = << >>
         /\ \A i \in 1..Len(cs) : View(cs, bad)[i]
              = BranchOf(cs[i].writes, IF i = Len(cs) THEN bad ELSE Sound)
  <1>1. DOMAIN cs = 1..Len(cs) /\ Len(cs) \in Nat
    BY DEF IsSeq
  <1>2. View(cs, bad)
          = [i \in 1..Len(cs) |-> BranchOf(cs[i].writes, IF i = Len(cs) THEN bad ELSE Sound)]
    BY <1>1 DEF View
  <1>3. \A i \in 1..Len(cs) : View(cs, bad)[i]
              = BranchOf(cs[i].writes, IF i = Len(cs) THEN bad ELSE Sound)
    BY <1>2, Zenon
  <1>4. View(cs, bad) = [i \in 1..Len(cs) |-> View(cs, bad)[i]]
    BY <1>2, Zenon
  <1>5. IsSeq(View(cs, bad)) /\ Len(View(cs, bad)) = Len(cs)
    BY <1>1, <1>4, FunctionIsSeq, Zenon
  <1>6. View(cs, bad) = << >> <=> cs = << >>
    BY <1>5, LenZero, Zenon
  <1> QED
    BY <1>3, <1>5, <1>6, Zenon

\* The innermost branch, and the others.
LEMMA ViewAt ==
  ASSUME NEW cs, IsSeq(cs), cs # << >>, NEW bad
  PROVE  /\ Len(cs) \in Nat \ {0}
         /\ View(cs, bad)[Len(cs)] = BranchOf(cs[Len(cs)].writes, bad)
         /\ \A i \in 1..(Len(cs) - 1) : View(cs, bad)[i] = BranchOf(cs[i].writes, Sound)
  <1>1. Len(cs) \in Nat \ {0}
    BY LenZero DEF IsSeq
  <1> QED
    BY <1>1, ViewIsSeq

\* A run writes w and may fail: one step of the innermost branch.
LEMMA ViewRun ==
  ASSUME NEW cs, IsSeq(cs), cs # << >>, NEW q, IsSeq(q), Len(q) = Len(cs), NEW w,
         \A i \in 1..Len(cs) : q[i].writes
           = IF i = Len(cs) THEN cs[i].writes \cup {w} ELSE cs[i].writes,
         NEW b
  PROVE  Replaces(View(q, b), View(cs, Sound),
                  BranchOf(View(cs, Sound)[Len(cs)].writes \cup {w}, b))
  <1>1. PICK u : u = View(cs, Sound)
    BY Zenon
  <1>2. PICK v : v = View(q, b)
    OBVIOUS
  <1>3. PICK n \in Nat \ {0} : n = Len(cs)
    BY LenZero DEF IsSeq
  <1>4. /\ IsSeq(u) /\ Len(u) = n /\ u # << >>
        /\ u[n] = BranchOf(cs[n].writes, Sound)
        /\ \A i \in 1..(n - 1) : u[i] = BranchOf(cs[i].writes, Sound)
    BY <1>1, <1>3, ViewIsSeq, ViewAt
  <1>5. /\ IsSeq(v) /\ Len(v) = n
        /\ \A i \in 1..n : v[i] = BranchOf(q[i].writes, IF i = n THEN b ELSE Sound)
    BY <1>2, <1>3, ViewIsSeq
  <1>6. PICK x : x = BranchOf(u[n].writes \cup {w}, b)
    OBVIOUS
  <1>7. u[n].writes = cs[n].writes
    BY <1>4, BranchFields
  <1>8. ASSUME NEW i \in 1..n
        PROVE  v[i] = IF i = n THEN x ELSE u[i]
    <2> q[i].writes = IF i = n THEN cs[i].writes \cup {w} ELSE cs[i].writes
      BY <1>3, Zenon
    <2>1. CASE i = n
      <3>1. q[n].writes = u[n].writes \cup {w}
        BY <1>7, <2>1
      <3> QED
        BY <1>5, <1>6, <2>1, <3>1, Zenon
    <2>2. CASE i # n
      <3>1. q[i].writes = cs[i].writes /\ i \in 1..(n - 1)
        BY <2>2
      <3> QED
        BY <1>4, <1>5, <2>2, <3>1
    <2> QED
      BY <2>1, <2>2
  <1>9. Replaces(v, u, x)
    BY <1>4, <1>5, <1>8, ReplacedBy
  <1> QED
    BY <1>1, <1>2, <1>3, <1>6, <1>9, Zenon

\* A failure dooms the innermost branch.
LEMMA ViewFail ==
  ASSUME NEW cs, IsSeq(cs), cs # << >>, NEW b
  PROVE  Replaces(View(cs, Doomed), View(cs, b), [View(cs, b)[Len(cs)] EXCEPT !.doomed = Doomed])
  <1>1. PICK u : u = View(cs, b)
    OBVIOUS
  <1>2. PICK v : v = View(cs, Doomed)
    BY Zenon
  <1>3. PICK n \in Nat \ {0} : n = Len(cs)
    BY LenZero DEF IsSeq
  <1>4. /\ IsSeq(u) /\ Len(u) = n /\ u # << >>
        /\ u[n] = BranchOf(cs[n].writes, b)
        /\ \A i \in 1..(n - 1) : u[i] = BranchOf(cs[i].writes, Sound)
    BY <1>1, <1>3, ViewIsSeq, ViewAt
  <1>5. /\ IsSeq(v) /\ Len(v) = n
        /\ \A i \in 1..n : v[i] = BranchOf(cs[i].writes, IF i = n THEN Doomed ELSE Sound)
    BY <1>2, <1>3, ViewIsSeq, Zenon
  <1>6. PICK x : x = [u[n] EXCEPT !.doomed = Doomed]
    BY Zenon
  <1>7. x = BranchOf(cs[n].writes, Doomed)
    BY <1>4, <1>6, BranchFields
  <1>8. \A i \in 1..n : v[i] = IF i = n THEN x ELSE u[i]
    BY <1>3, <1>4, <1>5, <1>7
  <1>9. Replaces(v, u, x)
    BY <1>4, <1>5, <1>8, ReplacedBy
  <1> QED
    BY <1>1, <1>2, <1>3, <1>6, <1>9, Zenon

\* A context that is pushed is a new branch.
LEMMA ViewPush ==
  ASSUME NEW cs, IsSeq(cs), NEW c, c.writes = {}, NEW b
  PROVE  View(Append(cs, c), b) = Append(View(cs, Sound), BranchOf({}, b))
  <1>1. PICK q : q = Append(cs, c)
    BY Zenon
  <1>2. PICK u : u = View(cs, Sound)
    BY Zenon
  <1>3. PICK v : v = View(q, b)
    OBVIOUS
  <1>4. PICK n \in Nat : n = Len(cs)
    BY DEF IsSeq
  <1>5. IsSeq(q) /\ Len(q) = n + 1 /\ q[n + 1] = c /\ \A i \in 1..n : q[i] = cs[i]
    BY <1>1, <1>4, AppendIsSeq
  <1>6. /\ IsSeq(u) /\ Len(u) = n
        /\ \A i \in 1..n : u[i] = BranchOf(cs[i].writes, IF i = n THEN Sound ELSE Sound)
    BY <1>2, <1>4, ViewIsSeq, Zenon
  <1>7. /\ IsSeq(v) /\ Len(v) = n + 1
        /\ \A i \in 1..(n + 1) : v[i] = BranchOf(q[i].writes, IF i = n + 1 THEN b ELSE Sound)
    BY <1>3, <1>5, ViewIsSeq
  <1>8. PICK z : z = Append(u, BranchOf({}, b))
    BY Zenon
  <1>9. /\ IsSeq(z) /\ Len(z) = n + 1 /\ z[n + 1] = BranchOf({}, b)
        /\ \A i \in 1..n : z[i] = u[i]
    BY <1>6, <1>8, AppendIsSeq
  <1>10. ASSUME NEW i \in 1..(n + 1)
         PROVE  v[i] = z[i]
    <2>1. CASE i = n + 1
      <3>1. v[i] = BranchOf({}, b)
        BY <1>5, <1>7, <2>1, Zenon
      <3> QED
        BY <1>9, <2>1, <3>1
    <2>2. CASE i # n + 1
      <3>1. i \in 1..n
        BY <2>2
      <3>2. v[i] = BranchOf(cs[i].writes, Sound)
        BY <1>5, <1>7, <2>2, <3>1
      <3>3. u[i] = BranchOf(cs[i].writes, Sound)
        BY <1>6, <3>1
      <3> QED
        BY <1>9, <3>1, <3>2, <3>3
    <2> QED
      BY <2>1, <2>2
  <1>11. v = z
    BY <1>7, <1>9, <1>10, SameSeq
  <1> QED
    BY <1>1, <1>2, <1>3, <1>8, <1>11

\* What is below the innermost branch.
LEMMA ViewBelow ==
  ASSUME NEW cs, IsSeq(cs), Len(cs) > 1, NEW bad
  PROVE  /\ IsSeq(Front(View(cs, bad))) /\ Len(Front(View(cs, bad))) = Len(cs) - 1
         /\ \A i \in 1..(Len(cs) - 1) :
              Front(View(cs, bad))[i] = BranchOf(cs[i].writes, Sound)
  <1>1. PICK u : u = View(cs, bad)
    OBVIOUS
  <1>2. cs # << >>
    BY LenZero
  <1>3. IsSeq(u) /\ Len(u) = Len(cs) /\ u # << >>
    BY <1>1, <1>2, ViewIsSeq
  <1>4. \A i \in 1..(Len(cs) - 1) : u[i] = BranchOf(cs[i].writes, Sound)
    BY <1>1, <1>2, ViewAt
  <1>5. /\ IsSeq(Front(u)) /\ Len(Front(u)) = Len(cs) - 1
        /\ \A i \in 1..(Len(cs) - 1) : Front(u)[i] = u[i]
    BY <1>3, FrontIsSeq
  <1>6. \A i \in 1..(Len(cs) - 1) : Front(u)[i] = BranchOf(cs[i].writes, Sound)
    BY <1>4, <1>5
  <1> QED
    BY <1>1, <1>5, <1>6, Zenon

\* A context is dropped, and its caller goes on or fails as well.
LEMMA ViewDrop ==
  ASSUME NEW cs, IsSeq(cs), Len(cs) > 1, NEW q, IsSeq(q), Len(q) = Len(cs) - 1,
         \A i \in 1..(Len(cs) - 1) : q[i].writes = cs[i].writes, NEW bad, NEW b
  PROVE  Replaces(View(q, b), Front(View(cs, bad)),
                  [Front(View(cs, bad))[Len(cs) - 1] EXCEPT !.doomed = b])
  <1>1. PICK u : u = Front(View(cs, bad))
    OBVIOUS
  <1>2. PICK v : v = View(q, b)
    OBVIOUS
  <1>3. PICK m \in Nat \ {0} : m = Len(cs) - 1
    BY DEF IsSeq
  <1>4. IsSeq(u) /\ Len(u) = m /\ \A i \in 1..m : u[i] = BranchOf(cs[i].writes, Sound)
    BY <1>1, <1>3, ViewBelow
  <1>5. /\ IsSeq(v) /\ Len(v) = m
        /\ \A i \in 1..m : v[i] = BranchOf(q[i].writes, IF i = m THEN b ELSE Sound)
    BY <1>2, <1>3, ViewIsSeq
  <1>6. PICK x : x = [u[m] EXCEPT !.doomed = b]
    BY Zenon
  <1>7. x = BranchOf(cs[m].writes, b)
    <2>1. u[m] = BranchOf(cs[m].writes, Sound)
      BY <1>4
    <2> QED
      BY <1>6, <2>1, BranchFields
  <1>8. ASSUME NEW i \in 1..m
        PROVE  v[i] = IF i = m THEN x ELSE u[i]
    <2>1. q[i].writes = cs[i].writes
      BY <1>3
    <2>2. v[i] = BranchOf(cs[i].writes, IF i = m THEN b ELSE Sound)
      BY <1>5, <2>1
    <2> QED
      BY <1>4, <1>7, <2>2
  <1>9. u # << >>
    BY <1>3, <1>4, LenZero
  <1>10. Replaces(v, u, x)
    BY <1>4, <1>5, <1>8, <1>9, ReplacedBy
  <1> QED
    BY <1>1, <1>2, <1>3, <1>6, <1>10, Zenon

\* A context is committed to the one below.
LEMMA ViewCommit ==
  ASSUME NEW cs, IsSeq(cs), Len(cs) > 1, NEW q, IsSeq(q), Len(q) = Len(cs) - 1,
         \A i \in 1..(Len(cs) - 1) : q[i].writes
           = IF i = Len(cs) - 1 THEN cs[i].writes \cup cs[Len(cs)].writes ELSE cs[i].writes
  PROVE  Replaces(View(q, Sound), Front(View(cs, Sound)),
                  [Front(View(cs, Sound))[Len(cs) - 1] EXCEPT
                     !.writes = @ \cup View(cs, Sound)[Len(cs)].writes])
  <1>1. PICK u : u = Front(View(cs, Sound))
    OBVIOUS
  <1>2. PICK v : v = View(q, Sound)
    OBVIOUS
  <1>3. PICK m \in Nat \ {0} : m = Len(cs) - 1
    BY DEF IsSeq
  <1>4. IsSeq(u) /\ Len(u) = m /\ \A i \in 1..m : u[i] = BranchOf(cs[i].writes, Sound)
    BY <1>1, <1>3, ViewBelow
  <1>5. /\ IsSeq(v) /\ Len(v) = m
        /\ \A i \in 1..m : v[i] = BranchOf(q[i].writes, IF i = m THEN Sound ELSE Sound)
    BY <1>2, <1>3, ViewIsSeq
  <1>6. PICK w : w = View(cs, Sound)[Len(cs)].writes
    OBVIOUS
  <1>7. w = cs[Len(cs)].writes
    <2>1. cs # << >>
      BY LenZero
    <2>2. View(cs, Sound)[Len(cs)] = BranchOf(cs[Len(cs)].writes, Sound)
      BY <2>1, ViewAt
    <2> QED
      BY <1>6, <2>2, BranchFields
  <1>8. PICK x : x = [u[m] EXCEPT !.writes = @ \cup w]
    BY Zenon
  <1>9. x = BranchOf(cs[m].writes \cup w, Sound)
    <2>1. u[m] = BranchOf(cs[m].writes, Sound)
      BY <1>4
    <2>2. u[m].writes = cs[m].writes
      BY <2>1, BranchFields
    <2>3. PICK e : e = cs[m].writes \cup w
      BY Zenon
    <2>4. x = [u[m] EXCEPT !.writes = e]
      BY <1>8, <2>2, <2>3
    <2>5. x = BranchOf(e, Sound)
      BY <2>1, <2>4, BranchFields
    <2> QED
      BY <2>3, <2>5
  <1>10. ASSUME NEW i \in 1..m
         PROVE  v[i] = IF i = m THEN x ELSE u[i]
    <2>1. q[i].writes = IF i = m THEN cs[i].writes \cup w ELSE cs[i].writes
      BY <1>3, <1>7, Zenon
    <2>2. v[i] = BranchOf(q[i].writes, Sound)
      BY <1>5
    <2> QED
      BY <1>4, <1>9, <2>1, <2>2, Zenon
  <1>11. u # << >>
    BY <1>3, <1>4, LenZero
  <1>12. Replaces(v, u, x)
    BY <1>4, <1>5, <1>10, <1>11, ReplacedBy
  <1> QED
    BY <1>1, <1>2, <1>3, <1>6, <1>8, <1>12, Zenon

----------------------------------------------------------------------------
(* Steps of nested transactions.                                           *)

\* The innermost branch is doomed exactly if something fails in it.
LEMMA BranchesAre ==
  /\ Failing => Branches = View(contexts, Doomed)
  /\ ~Failing => Branches = View(contexts, Sound)
  <1>1. ASSUME Failing PROVE Branches = View(contexts, Doomed)
    <2>1. ASSUME NEW i
          PROVE  (i = Len(contexts) /\ Failing) = IF i = Len(contexts) THEN Doomed ELSE Sound
      BY <1>1, Zenon DEF Doomed, Sound
    <2> QED
      BY <2>1, Zenon DEF Branches, View, BranchOf
  <1>2. ASSUME ~Failing PROVE Branches = View(contexts, Sound)
    <2>1. ASSUME NEW i
          PROVE  (i = Len(contexts) /\ Failing) = IF i = Len(contexts) THEN Sound ELSE Sound
      BY <1>2, Zenon DEF Sound
    <2> QED
      BY <2>1, Zenon DEF Branches, View, BranchOf
  <1> QED
    BY <1>1, <1>2

\* The same of the next state.
LEMMA BranchesWillBe ==
  /\ Failing' => Branches' = View(contexts', Doomed)
  /\ ~Failing' => Branches' = View(contexts', Sound)
  <1>1. ASSUME Failing' PROVE Branches' = View(contexts', Doomed)
    <2>1. ASSUME NEW i
          PROVE  (i = Len(contexts') /\ Failing') = IF i = Len(contexts') THEN Doomed ELSE Sound
      BY <1>1, Zenon DEF Doomed, Sound
    <2> QED
      BY <2>1, Zenon DEF Branches, View, BranchOf
  <1>2. ASSUME ~Failing' PROVE Branches' = View(contexts', Sound)
    <2>1. ASSUME NEW i
          PROVE  (i = Len(contexts') /\ Failing') = IF i = Len(contexts') THEN Sound ELSE Sound
      BY <1>2, Zenon DEF Sound
    <2> QED
      BY <2>1, Zenon DEF Branches, View, BranchOf
  <1> QED
    BY <1>1, <1>2

\* The innermost branch.
LEMMA InnermostBranch ==
  ASSUME IsSeq(contexts), contexts # << >>
  PROVE  /\ Branches # << >> /\ Len(Branches) = Len(contexts) /\ Len(contexts) \in Nat \ {0}
         /\ Branches[Len(Branches)].writes = contexts[Len(contexts)].writes
         /\ Branches[Len(Branches)].doomed = Failing
  <1>1. PICK b : Branches = View(contexts, b) /\ b = Failing
    <2>1. CASE Failing
      BY <2>1, BranchesAre, Zenon DEF Doomed
    <2>2. CASE ~Failing
      <3>1. Branches = View(contexts, Sound)
        BY <2>2, BranchesAre
      <3>2. Sound = Failing
        BY <2>2, SMTT(30) DEF Sound
      <3> QED
        BY <3>1, <3>2, Zenon
    <2> QED
      BY <2>1, <2>2
  <1>2. Branches # << >> /\ Len(Branches) = Len(contexts) /\ Len(contexts) \in Nat \ {0}
    BY <1>1, ViewIsSeq, ViewAt
  <1>3. Branches[Len(Branches)] = BranchOf(contexts[Len(contexts)].writes, b)
    BY <1>1, <1>2, ViewAt
  <1>4. Branches[Len(Branches)].writes = contexts[Len(contexts)].writes /\ Branches[Len(Branches)].doomed = b
    BY <1>3, BranchFields
  <1> QED
    BY <1>1, <1>2, <1>4, Zenon

\* A context is pushed: a call starts, or fails at once.
LEMMA SimBegin ==
  ASSUME IsSeq(contexts), NEW c, c.writes = {}, contexts' = Append(contexts, c),
         ~Failing,
         IF contexts = << >> THEN store' = {} ELSE store' = store
  PROVE  Nested!Next
  <1>1. PICK b \in BOOLEAN : Branches' = View(contexts', b)
    BY BranchesWillBe, Zenon DEF Doomed, Sound
  <1>2. Branches' = Append(Branches, BranchOf({}, b))
    BY <1>1, BranchesAre, ViewPush
  <1>3. Branches = << >> <=> contexts = << >>
    BY BranchesAre, ViewIsSeq
  <1>4. contexts # << >> => Branches[Len(Branches)].doomed = FALSE
    BY InnermostBranch
  <1>5. Branches' = Append(Branches, [writes |-> {}, doomed |-> b])
    BY <1>2 DEF BranchOf
  <1>6. Nested!Begin
    BY <1>3, <1>4, <1>5, Zenon DEF Nested!Begin, Nested!Depth
  <1> QED
    BY <1>6 DEF Nested!Next

\* A run writes in the innermost context, and may fail.
LEMMA SimRun ==
  ASSUME IsSeq(contexts), contexts # << >>, ~Failing, nextRun \in Run,
         \A i \in 1..Len(contexts) : nextRun \notin contexts[i].writes,
         IsSeq(contexts'), Len(contexts') = Len(contexts),
         \A i \in 1..Len(contexts) : contexts'[i].writes
           = IF i = Len(contexts) THEN contexts[i].writes \cup {nextRun}
             ELSE contexts[i].writes,
         store' = store
  PROVE  Nested!Next
  <1>1. PICK b \in BOOLEAN : Branches' = View(contexts', b)
    BY BranchesWillBe, Zenon DEF Doomed, Sound
  <1>2. Branches = View(contexts, Sound)
    BY BranchesAre
  <1>3. Replaces(Branches', Branches, BranchOf(Branches[Len(contexts)].writes \cup {nextRun}, b))
    BY <1>1, <1>2, ViewRun, Zenon
  <1>4. Branches # << >> /\ Len(Branches) = Len(contexts) /\ ~Branches[Len(Branches)].doomed
    BY InnermostBranch
  <1>5. \A i \in 1..Len(Branches) : nextRun \notin Branches[i].writes
    <2>1. \A i \in 1..Len(contexts) : Branches[i].writes = contexts[i].writes
      BY <1>2, ViewIsSeq, BranchFields
    <2> QED
      BY <1>4, <2>1
  <1>6. Branches' = [Branches EXCEPT ![Len(Branches)] = [writes |-> Branches[Len(Branches)].writes \cup {nextRun},
                                       doomed |-> b]]
    BY <1>3, <1>4 DEF Replaces, BranchOf
  <1>7. Nested!Run(nextRun, b)
    BY <1>4, <1>5, <1>6 DEF Nested!Run, Nested!Depth
  <1> QED
    BY <1>7 DEF Nested!Next

\* A failure without a write.
LEMMA SimFail ==
  ASSUME IsSeq(contexts), contexts # << >>, Failing', contexts' = contexts, store' = store
  PROVE  Nested!Next
  <1>1. PICK b : Branches = View(contexts, b)
    BY BranchesAre
  <1>2. Branches' = View(contexts, Doomed)
    BY BranchesWillBe
  <1>3. Branches # << >> /\ Len(Branches) = Len(contexts)
    BY InnermostBranch
  <1>4. Replaces(Branches', Branches, [Branches[Len(Branches)] EXCEPT !.doomed = Doomed])
    BY <1>1, <1>2, <1>3, ViewFail
  <1>5. Branches' = [Branches EXCEPT ![Len(Branches)].doomed = TRUE]
    BY <1>4 DEF Replaces, Doomed
  <1>6. Nested!Fail
    BY <1>3, <1>5 DEF Nested!Fail, Nested!Depth
  <1> QED
    BY <1>6 DEF Nested!Next

\* The innermost context is written to the one below.
LEMMA SimCommit ==
  ASSUME IsSeq(contexts), Len(contexts) > 1, ~Failing, ~Failing',
         IsSeq(contexts'), Len(contexts') = Len(contexts) - 1,
         \A i \in 1..(Len(contexts) - 1) : contexts'[i].writes
           = IF i = Len(contexts) - 1
             THEN contexts[i].writes \cup contexts[Len(contexts)].writes
             ELSE contexts[i].writes,
         store' = store
  PROVE  Nested!Next
  <1>1. Branches = View(contexts, Sound) /\ Branches' = View(contexts', Sound)
    BY BranchesAre, BranchesWillBe
  <1>2. contexts # << >>
    BY LenZero
  <1>3. Len(Branches) = Len(contexts) /\ ~Branches[Len(Branches)].doomed /\ Len(Branches) \in Nat
    BY <1>2, InnermostBranch
  <1>4. Replaces(Branches', Front(Branches), [Front(Branches)[Len(Branches) - 1] EXCEPT
                                    !.writes = @ \cup Branches[Len(Branches)].writes])
    BY <1>1, <1>3, ViewCommit, Zenon
  <1>5. Len(Front(Branches)) = Len(Branches) - 1
    BY <1>1, <1>3, ViewBelow
  <1>6. Branches' = [Front(Branches) EXCEPT ![Len(Branches) - 1].writes = @ \cup Branches[Len(Branches)].writes]
    BY <1>4, <1>5 DEF Replaces
  <1>7. Nested!Commit
    BY <1>3, <1>6, Zenon DEF Nested!Commit, Nested!Below, Nested!Depth, Front
  <1> QED
    BY <1>7 DEF Nested!Next

\* The innermost context, where something failed, is dropped.
LEMMA SimDrop ==
  ASSUME IsSeq(contexts), Len(contexts) > 1, Failing, contexts' = Front(contexts),
         store' = store
  PROVE  Nested!Next
  <1>1. PICK b \in BOOLEAN : Branches' = View(contexts', b)
    BY BranchesWillBe, Zenon DEF Doomed, Sound
  <1>2. Branches = View(contexts, Doomed) /\ contexts # << >>
    BY BranchesAre, LenZero
  <1>3. Len(Branches) = Len(contexts) /\ Branches[Len(Branches)].doomed /\ Len(Branches) \in Nat
    BY <1>2, InnermostBranch, Zenon
  <1>4. /\ IsSeq(contexts') /\ Len(contexts') = Len(contexts) - 1
        /\ \A i \in 1..(Len(contexts) - 1) : contexts'[i].writes = contexts[i].writes
    BY <1>2, FrontIsSeq
  <1>5. Replaces(Branches', Front(Branches), [Front(Branches)[Len(Branches) - 1] EXCEPT !.doomed = b])
    BY <1>1, <1>2, <1>3, <1>4, ViewDrop
  <1>6. Len(Front(Branches)) = Len(Branches) - 1
    BY <1>2, <1>3, ViewBelow
  <1>7. Branches' = [Front(Branches) EXCEPT ![Len(Branches) - 1].doomed = b]
    BY <1>5, <1>6 DEF Replaces
  <1>8. Nested!Drop
    BY <1>3, <1>7, Zenon DEF Nested!Drop, Nested!Below, Nested!Depth, Front
  <1> QED
    BY <1>8 DEF Nested!Next

\* Neither a context nor whether something fails changes.
LEMMA SimStutter ==
  ASSUME contexts' = contexts, Failing' <=> Failing
  PROVE  Branches' = Branches
  BY BranchesAre, BranchesWillBe, Zenon

\* The transaction ends in its only context.
LEMMA SimEnd ==
  ASSUME IsSeq(contexts), Len(contexts) = 1, contexts' = << >>,
         store' = IF Failing THEN {} ELSE contexts[1].writes
  PROVE  Nested!Next
  <1>1. contexts # << >>
    BY LenZero
  <1>2. Branches' = << >>
    BY BranchesWillBe, ViewIsSeq, EmptyIsSeq
  <1>3. Len(Branches) = 1 /\ Branches[1].writes = contexts[1].writes /\ Branches[1].doomed = Failing
    BY <1>1, InnermostBranch, Zenon
  <1>4. store' = IF Branches[1].doomed THEN {} ELSE Branches[1].writes
    BY <1>3, Zenon
  <1>5. Nested!End
    BY <1>2, <1>3, <1>4 DEF Nested!End, Nested!Depth
  <1> QED
    BY <1>5 DEF Nested!Next

\* A panic ends the transaction.
LEMMA SimAbort ==
  ASSUME IsSeq(contexts), contexts # << >>, contexts' = << >>, store' = {}
  PROVE  Nested!Next
  <1>1. Branches' = << >> /\ Branches # << >>
    BY InnermostBranch, BranchesWillBe, ViewIsSeq, EmptyIsSeq
  <1>2. Nested!Abort
    BY <1>1 DEF Nested!Abort
  <1> QED
    BY <1>2 DEF Nested!Next

----------------------------------------------------------------------------
(* The actions: each keeps the invariant, and is a step of nested          *)
(* transactions or none.                                                   *)

Fails(s) == s \in {Failed, OutOfGas, Panic} \/ (s.op = "done" /\ ~s.ok)

\* What the register holds, and when it holds a failure.
LEMMA StepKinds ==
  /\ Idle.op = "idle" /\ ~Fails(Idle)
  /\ Loop.op = "loop" /\ ~Fails(Loop)
  /\ Failed.op = "fail" /\ Fails(Failed)
  /\ OutOfGas.op = "outOfGas" /\ Fails(OutOfGas)
  /\ Panic.op = "panic" /\ Fails(Panic)
  /\ \A w : RunMsg(w).op = "run" /\ ~Fails(RunMsg(w))
  /\ \A ok : ReplyTo(ok).op = "reply"
  /\ \A ok, d : Done(ok, d).op = "done"
  /\ \A s : s.op = "reply" => ~Fails(s)
  /\ \A s : s.op = "done" => (Fails(s) <=> ~s.ok)
  /\ \A d : Fails(Done(FALSE, d)) /\ ~Fails(Done(TRUE, d))
  /\ Failing <=> Fails(step)
  <1> USE DEF Idle, Loop, Failed, OutOfGas, Panic, RunMsg, ReplyTo, Done
  <1>1. /\ Idle.op = "idle" /\ Loop.op = "loop" /\ Failed.op = "fail"
        /\ OutOfGas.op = "outOfGas" /\ Panic.op = "panic"
        /\ \A w : RunMsg(w).op = "run"
        /\ \A ok : ReplyTo(ok).op = "reply"
        /\ \A ok, d : Done(ok, d).op = "done"
    OBVIOUS
  <1>2. Fails(Failed) /\ Fails(OutOfGas) /\ Fails(Panic)
    BY Zenon DEF Fails
  <1>3. \A s : s.op \in {"idle", "loop", "run", "reply"} => ~Fails(s)
    BY DEF Fails
  <1>4. \A s : s.op = "done" => (Fails(s) <=> ~s.ok)
    BY DEF Fails
  <1>5. \A d : Done(FALSE, d).ok = FALSE /\ Done(TRUE, d).ok = TRUE
    BY Zenon
  <1>6. Failing <=> Fails(step)
    BY Zenon DEF Failing, Fails
  <1> HIDE DEF Idle, Loop, Failed, OutOfGas, Panic, RunMsg, ReplyTo, Done
  <1>7. \A d : Fails(Done(FALSE, d)) /\ ~Fails(Done(TRUE, d))
    BY <1>1, <1>4, <1>5, Zenon
  <1>8. /\ ~Fails(Idle) /\ ~Fails(Loop) /\ \A w : ~Fails(RunMsg(w))
        /\ \A s : s.op = "reply" => ~Fails(s)
    BY <1>1, <1>3
  <1> QED
    BY <1>1, <1>2, <1>4, <1>6, <1>7, <1>8, Zenon

\* The same of the next state.
LEMMA FailingNext == Failing' <=> Fails(step')
  BY Zenon DEF Failing, Fails

\* A context with a field changed.
LEMMA ContextFields ==
  ASSUME NEW c, IsContext(c), NEW x
  PROVE  /\ IsContext([c EXCEPT !.writes = x]) /\ [c EXCEPT !.writes = x].writes = x
         /\ IsContext([c EXCEPT !.events = x]) /\ [c EXCEPT !.events = x].writes = c.writes
  <1>1. [c EXCEPT !.writes = x] = [writes |-> x, events |-> c.events, depth |-> c.depth]
    BY DEF IsContext
  <1>2. [c EXCEPT !.events = x] = [writes |-> c.writes, events |-> x, depth |-> c.depth]
    BY DEF IsContext
  <1>3. /\ IsContext([writes |-> x, events |-> c.events, depth |-> c.depth])
        /\ IsContext([writes |-> c.writes, events |-> x, depth |-> c.depth])
    BY DEF IsContext
  <1> QED
    BY <1>1, <1>2, <1>3

\* What a run writes and emits.
LEMMA RunWrites ==
  ASSUME nextRun \in Nat \ {0}, Contexts(contexts, nextRun), contexts # << >>,
         nextRun' = nextRun + 1, NEW types,
         contexts' = Writes(nextRun) \/ contexts' = Emits(Writes(nextRun), nextRun, types)
  PROVE  /\ Contexts(contexts', nextRun') /\ Len(contexts') = Len(contexts)
         /\ \A i \in 1..Len(contexts) : contexts'[i].writes
              = IF i = Len(contexts) THEN contexts[i].writes \cup {nextRun}
                ELSE contexts[i].writes
         /\ \A i \in 1..Len(contexts) : nextRun \notin contexts[i].writes
  <1>1. PICK n \in Nat \ {0} : n = Len(contexts)
    BY LenZero DEF Contexts, IsSeq
  <1>2. PICK c : c = [contexts[n] EXCEPT !.writes = contexts[n].writes \cup {nextRun}]
    BY Zenon
  <1>3. IsContext(contexts[n]) /\ contexts[n].writes \subseteq 1..(nextRun - 1)
    BY <1>1 DEF Contexts
  <1>4. IsContext(c) /\ c.writes = contexts[n].writes \cup {nextRun}
    BY <1>2, <1>3, ContextFields, Zenon
  <1>5. c.writes \subseteq 1..((nextRun + 1) - 1)
    BY <1>3, <1>4
  <1>6. PICK q : q = Writes(nextRun)
    OBVIOUS
  <1>7. Replaces(q, contexts, c)
    BY <1>1, <1>2, <1>6 DEF Writes, Replaces
  <1>8. /\ Contexts(q, nextRun + 1) /\ q # << >> /\ Len(q) = n
        /\ \A i \in 1..n : q[i] = IF i = n THEN c ELSE contexts[i]
    BY <1>1, <1>4, <1>5, <1>7, ContextsSet
  <1>9. \A i \in 1..n : q[i].writes
          = IF i = n THEN contexts[i].writes \cup {nextRun} ELSE contexts[i].writes
    BY <1>4, <1>8, Zenon
  <1>10. \A i \in 1..n : nextRun \notin contexts[i].writes
    BY <1>1 DEF Contexts
  <1>11. CASE contexts' = Writes(nextRun)
    BY <1>1, <1>6, <1>8, <1>9, <1>10, <1>11, Zenon
  <1>12. CASE contexts' = Emits(Writes(nextRun), nextRun, types)
    <2>1. PICK e : e = q[n].events \o [i \in DOMAIN types |-> [run |-> nextRun, type |-> types[i]]]
      BY Zenon
    <2>2. PICK d : d = [q[n] EXCEPT !.events = e]
      BY Zenon
    <2>3. Replaces(contexts', q, d)
      BY <1>6, <1>8, <1>12, <2>1, <2>2, Zenon DEF Emits, Replaces
    <2>4. PICK m \in Nat : m = nextRun + 1 /\ m <= m /\ Contexts(q, m)
      BY <1>8
    <2>5. IsContext(q[n]) /\ q[n].writes \subseteq 1..(m - 1)
      BY <1>8, <2>4 DEF Contexts
    <2>6. IsContext(d) /\ d.writes = q[n].writes
      BY <2>2, <2>5, ContextFields, Zenon
    <2>7. d.writes \subseteq 1..(m - 1)
      BY <2>5, <2>6
    <2>8. /\ Contexts(contexts', m) /\ Len(contexts') = n
          /\ \A i \in 1..n : contexts'[i] = IF i = n THEN d ELSE q[i]
      BY <1>8, <2>3, <2>4, <2>6, <2>7, ContextsSet
    <2>9. \A i \in 1..n : contexts'[i].writes = q[i].writes
      BY <2>6, <2>8
    <2> QED
      BY <1>1, <1>9, <1>10, <2>4, <2>8, <2>9, Zenon
  <1> QED
    BY <1>11, <1>12, Zenon

\* A run, of a reply or of a message, from the responses fs.
LEMMA RunKeeps ==
  ASSUME NEW fs, NEW c, NEW gas, NEW isReply \in BOOLEAN,
         nextRun \in Nat \ {0}, Contexts(contexts, nextRun), store = {}, ~Failing,
         IsStack(fs), Waiting(fs, Len(contexts) - 1),
         isReply => fs # << >> /\ Last(fs).inFlight = NoMsg,
         ~isReply => fs = << >> \/ Last(fs).inFlight # NoMsg,
         ContractRuns(fs, c, gas, isReply)
  PROVE  IInv' /\ Nested!Next
  <1>1. nextRun' = nextRun + 1 /\ nextRun \in Run /\ store' = store
    BY DEF ContractRuns, Uses
  <1>2. contexts # << >> /\ IsSeq(contexts)
    <2>1. IsSeq(contexts) /\ IsSeq(fs)
      BY DEF Contexts, IsStack
    <2>2. Len(contexts) - 1 \in Nat
      BY <2>1, WaitingNat
    <2> QED
      BY <2>1, <2>2, LenZero DEF IsSeq
  <1>3. PICK types : contexts' = Writes(nextRun)
                       \/ contexts' = Emits(Writes(nextRun), nextRun, types)
    BY Zenon DEF ContractRuns
  <1>4. /\ Contexts(contexts', nextRun') /\ Len(contexts') = Len(contexts)
        /\ \A i \in 1..Len(contexts) : contexts'[i].writes
             = IF i = Len(contexts) THEN contexts[i].writes \cup {nextRun}
               ELSE contexts[i].writes
        /\ \A i \in 1..Len(contexts) : nextRun \notin contexts[i].writes
    BY <1>1, <1>2, <1>3, RunWrites, Zenon
  <1>5. Nested!Next
    <2>1. IsSeq(contexts')
      BY <1>4 DEF Contexts
    <2> QED
      BY <1>1, <1>2, <1>4, <2>1, SimRun, Zenon
  <1>6. nextRun' \in Nat \ {0}
    BY <1>1
  <1>7. CASE /\ frames' = fs
             /\ step' \in {OutOfGas, Panic, IF isReply THEN Failed ELSE Done(FALSE, 0)}
    <2>1. \/ step'.op \in {"outOfGas", "panic"}
          \/ isReply /\ step'.op = "fail"
          \/ ~isReply /\ step'.op = "done"
      BY <1>7, StepKinds, Zenon
    <2>2. step' # Idle
      BY <2>1, StepKinds
    <2>3. StepInv'
      BY <1>1, <1>4, <1>7, <2>1, <2>2 DEF StepInv, Top
    <2> QED
      BY <1>4, <1>5, <1>6, <1>7, <2>3 DEF IInv
  <1>8. CASE /\ step' = Loop
             /\ \E msgs \in Response, withData \in WithData :
                  frames' = Append(fs,
                    [contract |-> c, msgs |-> msgs, inFlight |-> NoMsg, limited |-> FALSE,
                     data |-> IF withData THEN nextRun ELSE 0, isReply |-> isReply,
                     done |-> << >>])
    <2>0. PICK msgs \in Response : \E data :
            frames' = Append(fs,
              [contract |-> c, msgs |-> msgs, inFlight |-> NoMsg, limited |-> FALSE,
               data |-> data, isReply |-> isReply, done |-> << >>])
      BY <1>8, Zenon
    <2>1. PICK data :
            frames' = Append(fs,
              [contract |-> c, msgs |-> msgs, inFlight |-> NoMsg, limited |-> FALSE,
               data |-> data, isReply |-> isReply, done |-> << >>])
      BY <2>0, Zenon
    <2>2. PICK g : g = [contract |-> c, msgs |-> msgs, inFlight |-> NoMsg,
                        limited |-> FALSE, data |-> data, isReply |-> isReply,
                        done |-> << >>]
      BY Zenon
    <2>3. IsFrame(g) /\ g.inFlight = NoMsg /\ g.isReply = isReply
      BY <2>2, DispatcherAssumption DEF IsFrame
    <2>4. frames' = Append(fs, g)
      BY <2>1, <2>2
    <2>5. /\ IsStack(frames') /\ frames' # << >> /\ Last(frames') = g
          /\ Waiting(frames', Len(contexts) - 1)
      <3>1. /\ g.isReply => fs # << >> /\ Last(fs).inFlight = NoMsg
            /\ ~g.isReply => fs = << >> \/ Last(fs).inFlight # NoMsg
        BY <2>3, Zenon
      <3>2. IsStack(frames') /\ frames' # << >> /\ Last(frames') = g
        BY <2>3, <2>4, <3>1, StackPush, Zenon
      <3>3. \A k : Waiting(fs, k) => Waiting(frames', k)
        BY <2>3, <2>4, <3>1, StackPush, Zenon
      <3> QED
        BY <3>2, <3>3, Zenon
    <2>6. step'.op = "loop" /\ step' # Idle
      BY <1>8, StepKinds
    <2>7. StepInv'
      BY <1>1, <1>4, <2>3, <2>5, <2>6, Zenon DEF StepInv, Top
    <2> QED
      BY <1>4, <1>5, <1>6, <2>5, <2>7 DEF IInv
  <1> QED
    BY <1>7, <1>8, Zenon DEF ContractRuns

Sent(f, x, y, z) == [f EXCEPT !.msgs = x, !.inFlight = y, !.limited = z]
Settled(f, x, y) == [f EXCEPT !.inFlight = NoMsg, !.data = x, !.done = y]

\* A response whose next submessage is sent.
LEMMA SentFrame ==
  ASSUME NEW f, IsFrame(f), NEW x \in Seq(SubMsg), NEW y, y # NoMsg, NEW z
  PROVE  /\ IsFrame(Sent(f, x, y, z)) /\ Sent(f, x, y, z).inFlight = y
         /\ Sent(f, x, y, z).isReply = f.isReply
  <1>1. PICK g : g = Sent(f, x, y, z)
    OBVIOUS
  <1>2. g = [contract |-> f.contract, msgs |-> x, inFlight |-> y, limited |-> z,
             data |-> f.data, isReply |-> f.isReply, done |-> f.done]
    BY <1>1, Zenon DEF IsFrame, Sent
  <1>3. IsFrame(g) /\ g.inFlight = y /\ g.isReply = f.isReply
    BY <1>2 DEF IsFrame
  <1> QED
    BY <1>1, <1>3

\* A response whose submessage is dealt with.
LEMMA SettledFrame ==
  ASSUME NEW f, IsFrame(f), ~f.limited, NEW x, NEW y
  PROVE  /\ IsFrame(Settled(f, x, y)) /\ Settled(f, x, y).inFlight = NoMsg
         /\ Settled(f, x, y).isReply = f.isReply
  <1>1. PICK g : g = Settled(f, x, y)
    OBVIOUS
  <1>2. g = [contract |-> f.contract, msgs |-> f.msgs, inFlight |-> NoMsg,
             limited |-> f.limited, data |-> x, isReply |-> f.isReply, done |-> y]
    BY <1>1, Zenon DEF IsFrame, Settled
  <1>3. IsFrame(g) /\ g.inFlight = NoMsg /\ g.isReply = f.isReply
    BY <1>2 DEF IsFrame
  <1> QED
    BY <1>1, <1>3

\* A response with another field changed.
LEMMA FrameFields ==
  ASSUME NEW f, IsFrame(f), NEW x
  PROVE  /\ IsFrame([f EXCEPT !.limited = FALSE])
         /\ [f EXCEPT !.limited = FALSE].inFlight = f.inFlight
         /\ [f EXCEPT !.limited = FALSE].isReply = f.isReply
         /\ IsFrame([f EXCEPT !.done = x])
         /\ [f EXCEPT !.done = x].inFlight = f.inFlight
         /\ [f EXCEPT !.done = x].isReply = f.isReply
         /\ IsFrame([f EXCEPT !.data = x])
         /\ [f EXCEPT !.data = x].inFlight = f.inFlight
         /\ [f EXCEPT !.data = x].isReply = f.isReply
  <1>1. PICK u : u = [f EXCEPT !.limited = FALSE]
    BY Zenon
  <1>2. u = [contract |-> f.contract, msgs |-> f.msgs, inFlight |-> f.inFlight,
             limited |-> FALSE, data |-> f.data, isReply |-> f.isReply, done |-> f.done]
    BY <1>1, Zenon DEF IsFrame
  <1>3. IsFrame(u) /\ u.inFlight = f.inFlight /\ u.isReply = f.isReply
    BY <1>2 DEF IsFrame
  <1>4. PICK v : v = [f EXCEPT !.done = x]
    BY Zenon
  <1>5. v = [contract |-> f.contract, msgs |-> f.msgs, inFlight |-> f.inFlight,
             limited |-> f.limited, data |-> f.data, isReply |-> f.isReply, done |-> x]
    BY <1>4, Zenon DEF IsFrame
  <1>6. IsFrame(v) /\ v.inFlight = f.inFlight /\ v.isReply = f.isReply
    BY <1>5 DEF IsFrame
  <1>7. PICK w : w = [f EXCEPT !.data = x]
    BY Zenon
  <1>8. w = [contract |-> f.contract, msgs |-> f.msgs, inFlight |-> f.inFlight,
             limited |-> f.limited, data |-> x, isReply |-> f.isReply, done |-> f.done]
    BY <1>7, Zenon DEF IsFrame
  <1>9. IsFrame(w) /\ w.inFlight = f.inFlight /\ w.isReply = f.isReply
    BY <1>8 DEF IsFrame
  <1> QED
    BY <1>1, <1>3, <1>4, <1>6, <1>7, <1>9, Zenon

Simulates == Nested!Next \/ (store' = store /\ Branches' = Branches)

\* While a transaction runs.
LEMMA Running ==
  ASSUME IInv, step.op # "idle"
  PROVE  /\ step # Idle /\ store = {}
         /\ Waiting(frames, Len(contexts) - 1) /\ Len(contexts) \in Nat \ {0}
         /\ IsSeq(contexts) /\ contexts # << >> /\ IsStack(frames)
         /\ nextRun \in Nat \ {0} /\ Contexts(contexts, nextRun)
  <1>1. step # Idle
    BY StepKinds
  <1>2. IsStack(frames) /\ IsSeq(frames) /\ IsSeq(contexts)
    BY DEF IInv, IsStack, Contexts
  <1>3. store = {} /\ Waiting(frames, Len(contexts) - 1)
    BY <1>1 DEF IInv, StepInv
  <1>4. IsSeq(contexts) /\ contexts # << >> /\ Len(contexts) \in Nat \ {0}
    <2>1. Len(contexts) - 1 \in Nat /\ Len(contexts) \in Nat
      BY <1>2, <1>3, WaitingNat DEF IsSeq
    <2> QED
      BY <1>2, <2>1, LenZero
  <1> QED
    BY <1>1, <1>2, <1>3, <1>4 DEF IInv

\* execute.
LEMMA ExecuteStep ==
  ASSUME IInv, NEW c, NEW gas, Execute(c, gas)
  PROVE  IInv' /\ Simulates
  <1>1. step.op = "run" /\ ~Failing
    BY StepKinds, Zenon DEF Execute
  <1>2. frames = << >> \/ Last(frames).inFlight # NoMsg
    BY <1>1 DEF IInv, StepInv, Top
  <1>3. ContractRuns(frames, c, gas, FALSE)
    BY Zenon DEF Execute
  <1>4. IInv' /\ Nested!Next
    BY <1>1, <1>2, <1>3, Running, RunKeeps, Zenon
  <1> QED
    BY <1>4 DEF Simulates

\* A message of another module.
LEMMA HandleSdkMessageStep ==
  ASSUME IInv, NEW gas, HandleSdkMessage(gas)
  PROVE  IInv' /\ Simulates
  <1>1. step.op = "run" /\ ~Failing
    BY StepKinds, Zenon DEF HandleSdkMessage
  <1>2. frames = << >> \/ Last(frames).inFlight # NoMsg
    BY <1>1 DEF IInv, StepInv, Top
  <1>3. nextRun' = nextRun + 1 /\ nextRun \in Run /\ store' = store /\ frames' = frames
    BY DEF HandleSdkMessage, Uses
  <1>4. PICK types : contexts' = Writes(nextRun)
                       \/ contexts' = Emits(Writes(nextRun), nextRun, types)
    BY Zenon DEF HandleSdkMessage
  <1>5. /\ Contexts(contexts', nextRun') /\ Len(contexts') = Len(contexts)
        /\ \A i \in 1..Len(contexts) : contexts'[i].writes
             = IF i = Len(contexts) THEN contexts[i].writes \cup {nextRun}
               ELSE contexts[i].writes
        /\ \A i \in 1..Len(contexts) : nextRun \notin contexts[i].writes
    <2>1. nextRun \in Nat \ {0} /\ Contexts(contexts, nextRun) /\ contexts # << >>
      BY <1>1, Running
    <2> QED
      BY <1>3, <1>4, <2>1, RunWrites, Zenon
  <1>6. Nested!Next
    <2>1. IsSeq(contexts') /\ IsSeq(contexts) /\ contexts # << >>
      BY <1>1, <1>5, Running DEF Contexts
    <2> QED
      BY <1>1, <1>3, <1>5, <2>1, SimRun, Zenon
  <1>7. step'.op \in {"outOfGas", "panic", "done"} /\ step' # Idle
    BY StepKinds, Zenon DEF HandleSdkMessage
  <1>8. StepInv'
    BY <1>1, <1>2, <1>3, <1>5, <1>7, Running DEF StepInv, Top
  <1>9. nextRun' \in Nat \ {0} /\ IsStack(frames')
    BY <1>1, <1>3, Running
  <1> QED
    BY <1>5, <1>6, <1>8, <1>9 DEF IInv, Simulates

\* reply.
LEMMA ReplyStep ==
  ASSUME IInv, NEW gas, Reply(gas)
  PROVE  IInv' /\ Simulates
  <1>1. step.op = "reply" /\ ~Failing
    BY StepKinds DEF Reply
  <1>2. frames # << >> /\ Last(frames).inFlight = NoMsg
    BY <1>1 DEF IInv, StepInv, Top
  <1>3. PICK e : e = Replied(Top.done)
    OBVIOUS
  <1>4. PICK g : g = [Top EXCEPT !.done = e]
    BY Zenon
  <1>5. PICK fs : /\ fs = [frames EXCEPT ![Len(frames)].done = Replied(@)]
                  /\ ContractRuns(fs, Top.contract, gas, TRUE)
    BY Zenon DEF Reply
  <1>6. IsStack(frames) /\ IsFrame(Top) /\ Len(frames) \in 1..Len(frames)
    BY <1>1, <1>2, Running, LastFrame DEF Top
  <1>7. Replaces(fs, frames, g)
    BY <1>3, <1>4, <1>5, <1>6 DEF Replaces, Top, Last
  <1>8. IsFrame(g) /\ g.inFlight = Last(frames).inFlight /\ g.isReply = Last(frames).isReply
    BY <1>4, <1>6, FrameFields, Zenon DEF Top
  <1>9. /\ IsStack(fs) /\ fs # << >> /\ Last(fs) = g
        /\ Waiting(fs, Len(contexts) - 1)
    BY <1>1, <1>2, <1>6, <1>7, <1>8, StackSet, Running
  <1>11. IInv' /\ Nested!Next
    BY <1>1, <1>2, <1>5, <1>8, <1>9, Running, RunKeeps, Zenon
  <1> QED
    BY <1>11 DEF Simulates

\* A submessage gets a context.
LEMMA DispatchSubmessageStep ==
  ASSUME IInv, DispatchSubmessage
  PROVE  IInv' /\ Simulates
  <1>1. step.op = "loop" /\ ~Failing
    BY StepKinds DEF DispatchSubmessage
  <1>2. frames # << >> /\ Top.inFlight = NoMsg
    BY <1>1 DEF IInv, StepInv
  <1>3. IsStack(frames) /\ IsFrame(Top) /\ Len(frames) \in 1..Len(frames)
    BY <1>1, <1>2, Running, LastFrame DEF Top
  <1>4. PICK msg, ms, limited, depth :
          /\ msg = Head(Top.msgs) /\ ms = Tail(Top.msgs) /\ Top.msgs # << >>
          /\ frames' = [frames EXCEPT ![Len(frames)].msgs = ms,
                                      ![Len(frames)].inFlight = msg,
                                      ![Len(frames)].limited = limited]
          /\ contexts' = Append(contexts, NewContext(depth))
          /\ step' \in {RunMsg(msg.wasm), Done(FALSE, 0)}
          /\ store' = store /\ nextRun' = nextRun
    <2>1. PICK limited : limited = LimitGas(Head(Top.msgs).limit, Remaining(Last(meters)))
      BY Zenon
    <2>2. PICK depth : depth = IF Deeper(Last(contexts).depth)
                               THEN Last(contexts).depth + 1 ELSE Last(contexts).depth
      BY Zenon
    <2>3. frames' = [frames EXCEPT ![Len(frames)].msgs = Tail(Top.msgs),
                                   ![Len(frames)].inFlight = Head(Top.msgs),
                                   ![Len(frames)].limited = limited]
      BY <2>1, Zenon DEF DispatchSubmessage, Top, Last
    <2>4. contexts' = Append(contexts, NewContext(depth))
      BY <2>2, Zenon DEF DispatchSubmessage
    <2>5. step' \in {RunMsg(Head(Top.msgs).wasm), Done(FALSE, 0)}
      BY Zenon DEF DispatchSubmessage
    <2>6. Top.msgs # << >> /\ store' = store /\ nextRun' = nextRun
      BY DEF DispatchSubmessage
    <2> QED
      BY <2>3, <2>4, <2>5, <2>6, Zenon
  <1>5. msg # NoMsg /\ ms \in Seq(SubMsg)
    <2>1. Top.msgs \in Seq(SubMsg) /\ NoMsg \notin SubMsg
      BY <1>3, DispatcherAssumption DEF IsFrame
    <2> QED
      BY <1>4, <2>1
  <1>6. PICK g : g = Sent(Top, ms, msg, limited)
    OBVIOUS
  <1>7. Replaces(frames', frames, g)
    BY <1>3, <1>4, <1>6, Zenon DEF Replaces, Top, Last, Sent
  <1>8. IsFrame(g) /\ g.inFlight = msg /\ g.isReply = Last(frames).isReply
    <2>1. IsFrame(g) /\ g.inFlight = msg /\ g.isReply = Top.isReply
      BY <1>3, <1>5, <1>6, SentFrame
    <2> QED
      BY <2>1 DEF Top
  <1>9. /\ IsStack(frames') /\ frames' # << >> /\ Last(frames') = g
        /\ Waiting(frames', Len(contexts) - 1 + 1)
    BY <1>1, <1>2, <1>3, <1>5, <1>7, <1>8, StackSet, Running DEF Top
  <1>10. PICK c : c = NewContext(depth) /\ IsContext(c) /\ c.writes = {}
    <2>1. IsContext(NewContext(depth)) /\ NewContext(depth).writes = {}
      BY Zenon DEF IsContext, NewContext
    <2> QED
      BY <2>1, Zenon
  <1>11. Contexts(contexts', nextRun) /\ Len(contexts') = Len(contexts) + 1
    <2>1. Contexts(contexts, nextRun) /\ contexts' = Append(contexts, c)
      BY <1>1, <1>4, <1>10, Running
    <2> QED
      BY <1>10, <2>1, ContextsPush, Zenon
  <1>12. Nested!Next
    BY <1>1, <1>4, <1>10, Running, SimBegin
  <1>13. step'.op \in {"run", "done"} /\ step' # Idle
    BY <1>4, StepKinds, Zenon
  <1>14. Waiting(frames', Len(contexts') - 1)
    BY <1>1, <1>9, <1>11, Running
  <1>15. StepInv'
    BY <1>1, <1>4, <1>5, <1>8, <1>9, <1>13, <1>14, Running, Zenon DEF StepInv, Top
  <1> QED
    BY <1>1, <1>4, <1>9, <1>11, <1>12, <1>15, Running, Zenon DEF IInv, Simulates

\* A submessage with an invalid ReplyOn.
LEMMA RejectSubmessageStep ==
  ASSUME IInv, RejectSubmessage
  PROVE  IInv' /\ Simulates
  <1>1. step.op = "loop" /\ step' = Failed
    BY StepKinds, Zenon DEF RejectSubmessage
  <1>2. step'.op = "fail" /\ step' # Idle /\ Failing'
    BY <1>1, StepKinds, FailingNext
  <1>3. UNCHANGED <<store, frames, contexts, nextRun>>
    BY DEF RejectSubmessage
  <1>4. Nested!Next
    BY <1>1, <1>2, <1>3, Running, SimFail
  <1>5. StepInv'
    BY <1>1, <1>2, <1>3, Running DEF IInv, StepInv, Top
  <1> QED
    BY <1>3, <1>4, <1>5 DEF IInv, Simulates

\* The meter of the submessage in flight is left.
LEMMA Unlimited ==
  ASSUME IInv, step.op # "idle", frames # << >>, Top.inFlight # NoMsg,
         frames' = [frames EXCEPT ![Len(frames)].limited = FALSE],
         UNCHANGED <<store, contexts, nextRun>>,
         step'.op \in {"outOfGas", "done"}
  PROVE  IInv'
  <1>1. IsStack(frames) /\ IsFrame(Top) /\ Len(frames) \in 1..Len(frames)
    BY Running, LastFrame DEF Top
  <1>2. PICK g : g = [Top EXCEPT !.limited = FALSE]
    BY Zenon
  <1>3. Replaces(frames', frames, g)
    BY <1>1, <1>2 DEF Replaces, Top, Last
  <1>4. IsFrame(g) /\ g.inFlight = Top.inFlight /\ g.isReply = Last(frames).isReply
    BY <1>1, <1>2, FrameFields, Zenon DEF Top
  <1>5. /\ IsStack(frames') /\ frames' # << >> /\ Last(frames') = g
        /\ Waiting(frames', Len(contexts) - 1)
    BY <1>1, <1>3, <1>4, StackSet, Running DEF Top
  <1>6. Waiting(frames', Len(contexts') - 1)
    BY <1>5
  <1>7. step' # Idle
    BY StepKinds
  <1>8. StepInv'
    BY <1>4, <1>5, <1>6, <1>7, Running DEF StepInv, Top
  <1> QED
    BY <1>5, <1>8 DEF IInv

\* dispatchMsgWithGasLimit charges what was used.
LEMMA ChargeLimitedStep ==
  ASSUME IInv, ChargeLimited
  PROVE  IInv' /\ Simulates
  <1>1. step.op = "done" /\ step.op # "idle" /\ frames # << >>
    BY DEF ChargeLimited
  <1>2. /\ frames' = [frames EXCEPT ![Len(frames)].limited = FALSE]
        /\ UNCHANGED <<store, contexts, nextRun>>
        /\ step' \in {OutOfGas, step}
    BY DEF ChargeLimited
  <1>3. Top.inFlight # NoMsg
    BY <1>1 DEF IInv, StepInv
  <1>4. step'.op \in {"outOfGas", "done"}
    BY <1>1, <1>2, StepKinds
  <1>5. IInv'
    BY <1>1, <1>2, <1>3, <1>4, Unlimited
  <1>6. CASE step' = step
    BY <1>2, <1>5, <1>6, SimStutter, StepKinds, FailingNext DEF Simulates
  <1>7. CASE step' = OutOfGas
    BY <1>1, <1>2, <1>5, <1>7, SimFail, Running, StepKinds, FailingNext DEF Simulates
  <1> QED
    BY <1>2, <1>6, <1>7

\* The deferred function recovers from OutOfGas.
LEMMA RecoverOutOfGasStep ==
  ASSUME IInv, RecoverOutOfGas
  PROVE  IInv' /\ Simulates
  <1>1. step.op = "outOfGas" /\ step.op # "idle" /\ frames # << >> /\ Failing
    BY StepKinds DEF RecoverOutOfGas
  <1>2. /\ frames' = [frames EXCEPT ![Len(frames)].limited = FALSE]
        /\ UNCHANGED <<store, contexts, nextRun>>
        /\ step' \in {OutOfGas, Done(FALSE, 0)}
    BY DEF RecoverOutOfGas
  <1>3. Top.inFlight # NoMsg
    <2>1. IsFrame(Top)
      BY <1>1, Running, LastFrame DEF Top
    <2> QED
      BY <2>1 DEF IsFrame, RecoverOutOfGas
  <1>4. step'.op \in {"outOfGas", "done"} /\ Fails(step')
    BY <1>2, StepKinds, Zenon
  <1>5. IInv'
    BY <1>1, <1>2, <1>3, <1>4, Unlimited
  <1> QED
    BY <1>1, <1>2, <1>4, <1>5, SimStutter, FailingNext DEF Simulates

\* The submessage in flight is dealt with.
LEMMA SettleKeeps ==
  ASSUME IInv, step.op = "done", frames # << >>, ~Top.limited, NEW d, Settle(d)
  PROVE  /\ IsStack(frames') /\ frames' # << >> /\ Top'.inFlight = NoMsg
         /\ Waiting(frames', Len(contexts) - 2) /\ Len(contexts) - 2 \in Nat
  <1>1. Top.inFlight # NoMsg
    BY DEF IInv, StepInv
  <1>2. IsStack(frames) /\ IsFrame(Top) /\ Len(frames) \in 1..Len(frames)
    BY Running, LastFrame DEF Top
  <1>3. PICK e : e = Append(Top.done, [replyOn |-> Top.inFlight.replyOn, ok |-> step.ok,
                                       replies |-> 0])
    BY Zenon
  <1>4. PICK g : g = Settled(Top, d, e)
    OBVIOUS
  <1>5. Replaces(frames', frames, g)
    <2>1. frames' = [frames EXCEPT ![Len(frames)].inFlight = NoMsg,
                                   ![Len(frames)].data = d, ![Len(frames)].done = e]
      BY <1>3, Zenon DEF Settle, Top, Last
    <2> QED
      BY <1>2, <1>4, <2>1, Zenon DEF Replaces, Top, Last, Settled
  <1>6. IsFrame(g) /\ g.inFlight = NoMsg /\ g.isReply = Last(frames).isReply
    <2>1. IsFrame(g) /\ g.inFlight = NoMsg /\ g.isReply = Top.isReply
      BY <1>2, <1>4, SettledFrame
    <2> QED
      BY <2>1 DEF Top
  <1>7. /\ IsStack(frames') /\ frames' # << >> /\ Last(frames') = g
        /\ Waiting(frames', Len(contexts) - 1 - 1)
    BY <1>1, <1>2, <1>5, <1>6, StackSet, Running DEF Top
  <1>8. Waiting(frames', Len(contexts) - 2)
    BY <1>7, Running
  <1>9. Len(contexts) - 2 \in Nat
    BY <1>7, <1>8, WaitingNat DEF IsStack
  <1> QED
    BY <1>6, <1>7, <1>8, <1>9 DEF Top

\* commit().
LEMMA CommitKeeps ==
  ASSUME NEW k \in Nat, Contexts(contexts, k), Len(contexts) > 1,
         contexts' = Commit(contexts)
  PROVE  /\ Contexts(contexts', k) /\ Len(contexts') = Len(contexts) - 1
         /\ \A i \in 1..(Len(contexts) - 1) : contexts'[i].writes
              = IF i = Len(contexts) - 1
                THEN contexts[i].writes \cup contexts[Len(contexts)].writes
                ELSE contexts[i].writes
  <1>1. PICK q : q = Front(contexts)
    OBVIOUS
  <1>2. contexts # << >>
    BY LenZero DEF Contexts
  <1>3. PICK m \in Nat \ {0} : m = Len(contexts) - 1 /\ Len(contexts) = m + 1
    BY DEF Contexts, IsSeq
  <1>4. /\ Contexts(q, k) /\ Len(q) = m
        /\ \A i \in 1..m : q[i] = contexts[i]
    BY <1>1, <1>2, <1>3, ContextsPop
  <1>5. PICK w : w = q[m].writes \cup contexts[m + 1].writes
    BY Zenon
  <1>6. PICK e : e = q[m].events \o filterEvents(contexts[m + 1].events)
    BY Zenon
  <1>7. PICK c : c = [q[m] EXCEPT !.writes = w, !.events = e]
    OBVIOUS
  <1>8. Replaces(contexts', q, c)
    BY <1>1, <1>3, <1>4, <1>5, <1>6, <1>7, Zenon DEF Replaces, Commit, Last
  <1>9. IsContext(q[m]) /\ q[m].writes \subseteq 1..(k - 1)
    BY <1>4 DEF Contexts
  <1>10. c = [writes |-> w, events |-> e, depth |-> q[m].depth]
    BY <1>7, <1>9, Zenon DEF IsContext
  <1>11. IsContext(c) /\ c.writes = w
    BY <1>10 DEF IsContext
  <1>12. contexts[m + 1].writes \subseteq 1..(k - 1)
    BY <1>3 DEF Contexts
  <1>13. c.writes \subseteq 1..(k - 1) /\ k <= k
    BY <1>5, <1>9, <1>11, <1>12
  <1>14. q # << >>
    BY <1>3, <1>4, LenZero DEF Contexts
  <1>15. /\ Contexts(contexts', k) /\ Len(contexts') = m
         /\ \A i \in 1..m : contexts'[i] = IF i = m THEN c ELSE q[i]
    BY <1>4, <1>8, <1>11, <1>13, <1>14, ContextsSet, SMTT(60)
  <1>16. ASSUME NEW i \in 1..m
         PROVE  contexts'[i].writes
                  = IF i = m THEN contexts[i].writes \cup contexts[m + 1].writes
                    ELSE contexts[i].writes
    <2>1. contexts'[i] = IF i = m THEN c ELSE q[i]
      BY <1>15
    <2> QED
      BY <1>4, <1>5, <1>11, <2>1, Zenon
  <1> QED
    BY <1>3, <1>15, <1>16, Zenon

\* A submessage has succeeded.
LEMMA SubmessageSucceedsStep ==
  ASSUME IInv, SubmessageSucceeds
  PROVE  IInv' /\ Simulates
  <1>1. step.op = "done" /\ frames # << >> /\ ~Top.limited /\ ~Failing
    BY StepKinds DEF SubmessageSucceeds
  <1>2. contexts' = Commit(contexts) /\ store' = store /\ nextRun' = nextRun
    BY DEF SubmessageSucceeds
  <1>3. PICK d : Settle(d)
    BY DEF SubmessageSucceeds
  <1>4. /\ IsStack(frames') /\ frames' # << >> /\ Top'.inFlight = NoMsg
        /\ Waiting(frames', Len(contexts) - 2) /\ Len(contexts) - 2 \in Nat
    BY <1>1, <1>3, SettleKeeps
  <1>5. nextRun \in Nat \ {0} /\ Contexts(contexts, nextRun) /\ IsSeq(contexts) /\ store = {}
    BY <1>1, Running
  <1>6. Len(contexts) \in Nat /\ Len(contexts) > 1
    BY <1>4, <1>5 DEF IsSeq
  <1>7. /\ Contexts(contexts', nextRun) /\ Len(contexts') = Len(contexts) - 1
        /\ \A i \in 1..(Len(contexts) - 1) : contexts'[i].writes
              = IF i = Len(contexts) - 1
                THEN contexts[i].writes \cup contexts[Len(contexts)].writes
                ELSE contexts[i].writes
    BY <1>2, <1>5, <1>6, CommitKeeps, Zenon
  <1>8. step'.op \in {"reply", "loop"} /\ step' # Idle /\ ~Failing'
    BY StepKinds, FailingNext, Zenon DEF SubmessageSucceeds
  <1>9. Nested!Next
    <2>1. IsSeq(contexts')
      BY <1>7 DEF Contexts
    <2> QED
      BY <1>1, <1>2, <1>5, <1>6, <1>7, <1>8, <2>1, SimCommit, Zenon
  <1>10. StepInv'
    BY <1>2, <1>4, <1>5, <1>7, <1>8 DEF StepInv
  <1> QED
    BY <1>2, <1>4, <1>5, <1>7, <1>9, <1>10 DEF IInv, Simulates

\* A submessage has failed.
LEMMA SubmessageFailsStep ==
  ASSUME IInv, SubmessageFails
  PROVE  IInv' /\ Simulates
  <1>1. step.op = "done" /\ frames # << >> /\ ~Top.limited /\ Failing
    BY StepKinds, Zenon DEF SubmessageFails
  <1>2. contexts' = Front(contexts) /\ store' = store /\ nextRun' = nextRun
    BY DEF SubmessageFails, Dropped
  <1>3. PICK d : Settle(d)
    BY DEF SubmessageFails
  <1>4. /\ IsStack(frames') /\ frames' # << >> /\ Top'.inFlight = NoMsg
        /\ Waiting(frames', Len(contexts) - 2) /\ Len(contexts) - 2 \in Nat
    BY <1>1, <1>3, SettleKeeps
  <1>5. /\ nextRun \in Nat \ {0} /\ Contexts(contexts, nextRun) /\ IsSeq(contexts)
        /\ contexts # << >> /\ store = {}
    BY <1>1, Running
  <1>6. Len(contexts) \in Nat /\ Len(contexts) > 1
    BY <1>4, <1>5 DEF IsSeq
  <1>7. Contexts(contexts', nextRun) /\ Len(contexts') = Len(contexts) - 1
    BY <1>2, <1>5, ContextsPop
  <1>8. step'.op \in {"reply", "fail"} /\ step' # Idle
    BY StepKinds, Zenon DEF SubmessageFails, AfterFailure
  <1>9. Nested!Next
    BY <1>1, <1>2, <1>5, <1>6, SimDrop, Zenon
  <1>10. StepInv'
    BY <1>2, <1>4, <1>5, <1>7, <1>8 DEF StepInv
  <1> QED
    BY <1>2, <1>4, <1>5, <1>7, <1>9, <1>10 DEF IInv, Simulates

\* The loop over the submessages is through.
LEMMA ResponseReturnsStep ==
  ASSUME IInv, ResponseReturns
  PROVE  IInv' /\ Simulates
  <1>1. step.op = "loop" /\ ~Failing
    BY StepKinds DEF ResponseReturns
  <1>2. frames # << >> /\ Last(frames).inFlight = NoMsg
    BY <1>1 DEF IInv, StepInv, Top
  <1>3. UNCHANGED <<store, contexts, nextRun>>
    BY DEF ResponseReturns
  <1>4. PICK q : q = Front(frames)
    OBVIOUS
  <1>5. /\ IsStack(q) /\ Len(q) = Len(frames) - 1
        /\ Waiting(q, Len(contexts) - 1)
        /\ Last(frames).isReply => q # << >> /\ Last(q).inFlight = NoMsg
        /\ ~Last(frames).isReply => q = << >> \/ Last(q).inFlight # NoMsg
    BY <1>1, <1>2, <1>4, Running, StackPop
  <1>6. Waiting(q, Len(contexts) - 1)
    BY <1>5
  <1>7. CASE Top.isReply
    <2>1. /\ frames' = [q EXCEPT ![Len(frames) - 1].data = Overridden(@, Top.data)]
          /\ step' = Loop
      BY <1>4, <1>7 DEF ResponseReturns
    <2>2. q # << >> /\ Last(q).inFlight = NoMsg
      BY <1>5, <1>7 DEF Top
    <2>3. IsFrame(Last(q)) /\ Len(q) \in 1..Len(q)
      BY <1>5, <2>2, LastFrame
    <2>4. PICK e : e = Overridden(Last(q).data, Top.data)
      OBVIOUS
    <2>5. PICK g : g = [Last(q) EXCEPT !.data = e]
      BY Zenon
    <2>6. Replaces(frames', q, g)
      BY <1>5, <2>1, <2>3, <2>4, <2>5 DEF Replaces, Last
    <2>7. IsFrame(g) /\ g.inFlight = NoMsg /\ g.isReply = Last(q).isReply
      BY <2>2, <2>3, <2>5, FrameFields, Zenon
    <2>8. /\ IsStack(frames') /\ frames' # << >> /\ Last(frames') = g
          /\ Waiting(frames', Len(contexts) - 1)
      BY <1>5, <2>2, <2>6, <2>7, StackSet
    <2>9. step'.op = "loop" /\ step' # Idle /\ ~Failing'
      BY <2>1, StepKinds, FailingNext
    <2>10. Waiting(frames', Len(contexts) - 1)
      BY <2>8
    <2>11. StepInv'
      BY <1>1, <1>3, <2>7, <2>8, <2>9, <2>10, Running DEF StepInv, Top
    <2> QED
      BY <1>1, <1>3, <2>8, <2>9, <2>11, SimStutter DEF IInv, Simulates
  <1>8. CASE ~Top.isReply
    <2>1. frames' = q /\ step' = Done(TRUE, Top.data)
      BY <1>4, <1>8 DEF ResponseReturns
    <2>2. q = << >> \/ Last(q).inFlight # NoMsg
      BY <1>5, <1>8 DEF Top
    <2>3. step'.op = "done" /\ step' # Idle
      BY <2>1, StepKinds, Zenon
    <2>4. ~Failing'
      BY <2>1, StepKinds, FailingNext, Zenon
    <2>5. StepInv'
      BY <1>1, <1>3, <1>6, <2>1, <2>2, <2>3, Running, Zenon DEF StepInv, Top
    <2> QED
      BY <1>1, <1>3, <1>5, <2>1, <2>4, <2>5, SimStutter DEF IInv, Simulates
  <1> QED
    BY <1>7, <1>8

\* The loop ends with an error.
LEMMA ResponseFailsStep ==
  ASSUME IInv, ResponseFails
  PROVE  IInv' /\ Simulates
  <1>1. step.op = "fail" /\ Failing
    BY StepKinds DEF ResponseFails
  <1>2. frames # << >> /\ Last(frames).inFlight = NoMsg
    BY <1>1 DEF IInv, StepInv, Top
  <1>3. UNCHANGED <<store, contexts, nextRun>> /\ frames' = Front(frames)
    BY DEF ResponseFails
  <1>4. /\ IsStack(frames')
        /\ Waiting(frames', Len(contexts) - 1)
        /\ Last(frames).isReply => frames' # << >> /\ Last(frames').inFlight = NoMsg
        /\ ~Last(frames).isReply => frames' = << >> \/ Last(frames').inFlight # NoMsg
    BY <1>1, <1>2, <1>3, Running, StackPop
  <1>5. Waiting(frames', Len(contexts) - 1)
    BY <1>4
  <1>6. /\ Last(frames).isReply => step' = Failed
        /\ ~Last(frames).isReply => step' = Done(FALSE, 0)
    BY Zenon DEF ResponseFails, Top
  <1>7. /\ step' # Idle
        /\ Last(frames).isReply => step'.op = "fail"
        /\ ~Last(frames).isReply => step'.op = "done"
    BY <1>6, StepKinds, Zenon
  <1>8. Failing'
    BY <1>6, StepKinds, FailingNext, Zenon
  <1>9. StepInv'
    BY <1>1, <1>3, <1>4, <1>5, <1>7, Running DEF StepInv, Top
  <1> QED
    BY <1>1, <1>3, <1>4, <1>8, <1>9, SimStutter DEF IInv, Simulates

\* An OutOfGas panic leaves a loop.
LEMMA UnwindStep ==
  ASSUME IInv, Unwind
  PROVE  IInv' /\ Simulates
  <1>1. step.op = "outOfGas" /\ Failing /\ frames # << >>
    BY StepKinds, Zenon DEF Unwind
  <1>2. UNCHANGED <<store, nextRun, step>> /\ frames' = Front(frames)
    BY DEF Unwind
  <1>3. /\ IsStack(frames')
        /\ Last(frames).inFlight = NoMsg => Waiting(frames', Len(contexts) - 1)
        /\ Last(frames).inFlight # NoMsg => Waiting(frames', Len(contexts) - 1 - 1)
    BY <1>1, <1>2, Running, StackPop
  <1>5. CASE Top.inFlight = NoMsg
    <2>1. contexts' = contexts
      BY <1>5 DEF Unwind
    <2>2. Waiting(frames', Len(contexts') - 1)
      BY <1>1, <1>3, <1>5, <2>1, Running DEF Top
    <2>3. StepInv'
      BY <1>1, <1>2, <2>2, Running DEF StepInv
    <2>4. Failing'
      BY <1>1, <1>2, StepKinds, FailingNext
    <2> QED
      BY <1>1, <1>2, <1>3, <2>1, <2>3, <2>4, SimStutter DEF IInv, Simulates
  <1>6. CASE Top.inFlight # NoMsg
    <2>1. contexts' = Front(contexts)
      BY <1>6 DEF Unwind
    <2>2. Waiting(frames', Len(contexts) - 2) /\ Len(contexts) - 2 \in Nat
      <3>1. Waiting(frames', Len(contexts) - 1 - 1)
        BY <1>3, <1>6 DEF Top
      <3>2. Waiting(frames', Len(contexts) - 2)
        BY <1>1, <3>1, Running
      <3> QED
        BY <1>3, <3>2, WaitingNat DEF IsStack
    <2>3. Contexts(contexts', nextRun) /\ Len(contexts') = Len(contexts) - 1
      BY <1>1, <2>1, Running, ContextsPop
    <2>4. Len(contexts) > 1 /\ Waiting(frames', Len(contexts') - 1)
      BY <1>1, <2>2, <2>3, Running
    <2>5. Nested!Next
      BY <1>1, <1>2, <2>1, <2>4, Running, SimDrop
    <2>6. StepInv'
      BY <1>1, <1>2, <2>4, Running DEF StepInv
    <2> QED
      BY <1>1, <1>2, <1>3, <2>3, <2>5, <2>6, Running DEF IInv, Simulates
  <1> QED
    BY <1>5, <1>6

\* Nothing is on the stack outside of a transaction.
LEMMA EmptyStack ==
  /\ IsStack(<< >>) /\ Waiting(<< >>, 0)
  /\ \A k : Contexts(<< >>, k)
  <1>1. IsSeq(<< >>) /\ Len(<< >>) = 0 /\ 1..0 = {}
    BY EmptyIsSeq
  <1>2. IsStack(<< >>) /\ \A k : Contexts(<< >>, k)
    BY <1>1 DEF IsStack, Contexts
  <1>3. Tally(<< >>, [i \in 0..0 |-> 0])
    BY <1>1 DEF Tally
  <1> QED
    BY <1>1, <1>2, <1>3 DEF Waiting

\* A transaction starts.
LEMMA StartTxStep ==
  ASSUME IInv, StartTx
  PROVE  IInv' /\ Simulates
  <1>1. step = Idle /\ ~Failing /\ contexts = << >>
    BY StepKinds, Zenon DEF StartTx, IInv, StepInv
  <1>2. PICK c : c = NewContext(0) /\ IsContext(c) /\ c.writes = {}
    <2>1. IsContext(NewContext(0)) /\ NewContext(0).writes = {}
      BY DEF IsContext, NewContext
    <2> QED
      BY <2>1, Zenon
  <1>3. contexts' = Append(contexts, c) /\ store' = {} /\ nextRun' = 1 /\ frames' = << >>
    BY <1>1, <1>2 DEF StartTx
  <1>4. IsSeq(contexts) /\ Len(contexts) = 0 /\ Contexts(contexts, 1)
    BY <1>1, EmptyIsSeq, EmptyStack
  <1>5. Nested!Next
    BY <1>1, <1>2, <1>3, <1>4, SimBegin
  <1>6. Contexts(contexts', 1) /\ Len(contexts') = 1
    <2>1. PICK k : k = 1 /\ Contexts(contexts, k)
      BY <1>4
    <2>2. Contexts(contexts', k) /\ Len(contexts') = Len(contexts) + 1
      BY <1>2, <1>3, <2>1, ContextsPush, ZenonT(60)
    <2> QED
      BY <1>4, <2>1, <2>2
  <1>7. step'.op = "run" /\ step' # Idle
    BY StepKinds, Zenon DEF StartTx
  <1>8. StepInv'
    BY <1>3, <1>6, <1>7, EmptyStack DEF StepInv
  <1> QED
    BY <1>3, <1>5, <1>6, <1>8, EmptyStack DEF IInv, Simulates

\* What a transaction that ends leaves.
LEMMA Ended ==
  ASSUME nextRun' \in Nat \ {0}, step' = Idle, frames' = << >>, contexts' = << >>
  PROVE  IInv'
  <1>1. step'.op = "idle"
    BY StepKinds
  <1>2. StepInv'
    BY <1>1 DEF StepInv
  <1> QED
    BY <1>2, EmptyStack DEF IInv

\* The transaction succeeds, or fails.
LEMMA EndTxStep ==
  ASSUME IInv, GasInv, EndTx
  PROVE  IInv' /\ Simulates
  <1>1. step.op \in {"done", "outOfGas"} /\ frames = << >>
    BY DEF EndTx
  <1>2. Len(contexts) = 1 /\ IsSeq(contexts) /\ nextRun \in Nat \ {0}
    <2>1. /\ Waiting(frames, Len(contexts) - 1) /\ Len(contexts) \in Nat /\ IsSeq(contexts)
          /\ nextRun \in Nat \ {0}
      BY <1>1, Running
    <2>2. Len(contexts) - 1 = 0
      BY <1>1, <2>1, WaitingNat, EmptyIsSeq
    <2> QED
      BY <2>1, <2>2
  <1>3. Failing <=> ~(step.op = "done" /\ step.ok)
    <2>1. CASE step.op = "done"
      BY <2>1, StepKinds
    <2>2. CASE step.op = "outOfGas"
      BY <2>2, StepKinds DEF GasInv
    <2> QED
      BY <1>1, <2>1, <2>2
  <1>4. /\ contexts' = << >> /\ step' = Idle /\ frames' = << >> /\ nextRun' = nextRun
        /\ store' = IF Failing THEN {} ELSE contexts[1].writes
    BY <1>1, <1>3, Zenon DEF EndTx
  <1>5. Nested!Next
    BY <1>2, <1>4, SimEnd
  <1>6. IInv'
    BY <1>2, <1>4, Ended
  <1> QED
    BY <1>5, <1>6 DEF Simulates

\* baseapp recovers from a panic.
LEMMA AbortTxStep ==
  ASSUME IInv, AbortTx
  PROVE  IInv' /\ Simulates
  <1>1. step.op = "panic" /\ step.op # "idle"
    BY StepKinds DEF AbortTx
  <1>2. contexts' = << >> /\ step' = Idle /\ frames' = << >> /\ nextRun' = nextRun /\ store' = store
    BY DEF AbortTx
  <1>3. Nested!Next
    BY <1>1, <1>2, Running, SimAbort
  <1>4. IInv'
    BY <1>1, <1>2, Running, Ended
  <1> QED
    BY <1>3, <1>4 DEF Simulates

\* No step puts another register under the name of OutOfGas.
LEMMA OutOfGasOnly ==
  ASSUME GasInv, Next
  PROVE  GasInv'
  <1>1. \/ step' \in {Idle, Loop, Failed, OutOfGas, Panic, step}
        \/ \E w : step' = RunMsg(w)
        \/ \E ok : step' = ReplyTo(ok)
        \/ \E ok, d : step' = Done(ok, d)
    <2>1. CASE StartTx \/ EndTx \/ AbortTx
      BY <2>1, Zenon DEF StartTx, EndTx, AbortTx
    <2>2. ASSUME NEW gas, NEW c, Execute(c, gas)
          PROVE  step' \in {OutOfGas, Panic, Done(FALSE, 0), Loop}
      BY <2>2, Zenon DEF Execute, ContractRuns
    <2>3. ASSUME NEW gas, HandleSdkMessage(gas)
          PROVE  step' \in {OutOfGas, Panic, Done(FALSE, 0), Done(TRUE, nextRun)}
      BY <2>3, Zenon DEF HandleSdkMessage
    <2>4. ASSUME NEW gas, Reply(gas)
          PROVE  step' \in {OutOfGas, Panic, Failed, Loop}
      BY <2>4 DEF Reply, ContractRuns
    <2>5. CASE DispatchSubmessage
      <3>1. step' \in {RunMsg(Head(Top.msgs).wasm), Done(FALSE, 0)}
        BY <2>5, Zenon DEF DispatchSubmessage
      <3> QED
        BY <3>1, Zenon
    <2>6. CASE RejectSubmessage \/ ChargeLimited
      BY <2>6 DEF RejectSubmessage, ChargeLimited
    <2>7. CASE RecoverOutOfGas
      <3>1. step' \in {OutOfGas, Done(FALSE, 0)}
        BY <2>7 DEF RecoverOutOfGas
      <3> QED
        BY <3>1, Zenon
    <2>8. CASE SubmessageSucceeds
      <3>1. step' \in {ReplyTo(TRUE), Loop}
        BY <2>8 DEF SubmessageSucceeds
      <3> QED
        BY <3>1, Zenon
    <2>9. CASE SubmessageFails
      <3>1. step' \in {ReplyTo(FALSE), Failed}
        BY <2>9 DEF SubmessageFails, AfterFailure
      <3> QED
        BY <3>1, Zenon
    <2>10. CASE ResponseReturns
      <3>1. step' \in {Loop, Done(TRUE, Top.data)}
        BY <2>10, Zenon DEF ResponseReturns
      <3> QED
        BY <3>1, Zenon
    <2>11. CASE ResponseFails
      <3>1. step' \in {Failed, Done(FALSE, 0)}
        BY <2>11 DEF ResponseFails
      <3> QED
        BY <3>1, Zenon
    <2>12. CASE Unwind
      BY <2>12 DEF Unwind
    <2> QED
      BY <2>1, <2>2, <2>3, <2>4, <2>5, <2>6, <2>7, <2>8, <2>9, <2>10, <2>11, <2>12, Zenon
      DEF Next
  <1> QED
    BY <1>1, StepKinds DEF GasInv

----------------------------------------------------------------------------
(* The theorem.                                                            *)

\* Every step keeps the invariant and is one of nested transactions.
LEMMA EveryStep ==
  ASSUME IInv, GasInv, [Next]_vars
  PROVE  IInv' /\ GasInv' /\ [Nested!Next]_<<store, Branches>>
  <1>1. CASE Next
    <2>1. GasInv'
      BY <1>1, OutOfGasOnly
    <2>2. IInv' /\ Simulates
      BY <1>1, StartTxStep, EndTxStep, AbortTxStep, ExecuteStep, HandleSdkMessageStep,
         ReplyStep, DispatchSubmessageStep, RejectSubmessageStep, ChargeLimitedStep,
         RecoverOutOfGasStep, SubmessageSucceedsStep, SubmessageFailsStep,
         ResponseReturnsStep, ResponseFailsStep, UnwindStep, Zenon DEF Next
    <2> QED
      BY <2>1, <2>2 DEF Simulates
  <1>2. CASE UNCHANGED vars
    <2>1. IInv'
      BY <1>2 DEF vars, IInv, StepInv, Top
    <2>2. GasInv'
      BY <1>2 DEF vars, GasInv
    <2>3. UNCHANGED <<store, Branches>>
      BY <1>2, Zenon DEF vars, Branches, Failing
    <2> QED
      BY <2>1, <2>2, <2>3
  <1> QED
    BY <1>1, <1>2

\* Between transactions there is nothing.
LEMMA InitialStacks ==
  ASSUME Init
  PROVE  IInv /\ GasInv /\ Nested!Init
  <1>1. /\ step = Idle /\ step.op = "idle" /\ frames = << >> /\ contexts = << >>
        /\ store = {} /\ nextRun = 1 /\ ~Failing
    BY StepKinds DEF Init
  <1>2. IInv /\ GasInv
    BY <1>1, EmptyStack DEF IInv, StepInv, GasInv
  <1>3. Branches = << >>
    BY <1>1, BranchesAre, ViewIsSeq, EmptyIsSeq
  <1> QED
    BY <1>1, <1>2, <1>3 DEF Nested!Init

\* The dispatcher implements nested transactions, whatever responses, limits,
\* costs and failures there are and however deep submessages and replies nest:
\* a context of DispatchSubmessages is written back as a whole or not at all,
\* and never with a failure in it.
THEOREM DispatcherImplementsNestedTx == Spec => ImplementsNestedTx
  <1>1. Init => IInv /\ GasInv /\ Nested!Init
    BY InitialStacks
  <1>2. IInv /\ GasInv /\ [Next]_vars => IInv' /\ GasInv' /\ [Nested!Next]_<<store, Branches>>
    BY EveryStep
  <1> QED
    BY <1>1, <1>2, PTL DEF Spec, ImplementsNestedTx, Nested!Spec

\* The stacks of responses and contexts always fit together.
LEMMA DispatcherStacks == Spec => [](IInv /\ GasInv)
  <1>1. Init => IInv /\ GasInv
    BY InitialStacks
  <1>2. IInv /\ GasInv /\ [Next]_vars => IInv' /\ GasInv'
    BY EveryStep
  <1> QED
    BY <1>1, <1>2, PTL DEF Spec

----------------------------------------------------------------------------
(* Changes of a stack.                                                     *)

\* q is s up to the element before the n-th, and then x.
Ends(q, s, n, x) ==
  /\ IsSeq(q) /\ Len(q) = n /\ n \in Nat \ {0} /\ n - 1 <= Len(s)
  /\ q[n] = x /\ \A i \in 1..(n - 1) : q[i] = s[i]

\* An element is pushed.
LEMMA PushEnds ==
  ASSUME NEW s, IsSeq(s), NEW x, NEW q, q = Append(s, x)
  PROVE  Ends(q, s, Len(s) + 1, x)
  <1>1. /\ IsSeq(q) /\ Len(q) = Len(s) + 1 /\ q[Len(s) + 1] = x
        /\ \A i \in 1..Len(s) : q[i] = s[i]
    BY AppendIsSeq, Zenon
  <1>2. PICK n \in Nat : n = Len(s)
    BY Zenon DEF IsSeq
  <1>3. n + 1 \in Nat \ {0} /\ (n + 1) - 1 = n /\ n <= n
    OBVIOUS
  <1> QED
    BY <1>1, <1>2, <1>3, Zenon DEF Ends

\* The last element is replaced, or the one below it after it was taken off.
LEMMA ReplaceEnds ==
  ASSUME NEW s, IsSeq(s), s # << >>, NEW x, NEW q, Replaces(q, s, x)
  PROVE  Ends(q, s, Len(s), x) /\ Len(s) \in Nat \ {0}
  <1>1. /\ IsSeq(q) /\ Len(q) = Len(s) /\ Len(s) \in Nat \ {0}
        /\ \A i \in 1..Len(s) : q[i] = IF i = Len(s) THEN x ELSE s[i]
    BY ReplaceIsSeq, ZenonT(60)
  <1>2. PICK n \in Nat \ {0} : n = Len(s)
    BY <1>1, Zenon
  <1>3. n \in 1..n /\ n - 1 <= n /\ \A i \in 1..(n - 1) : i \in 1..n /\ i # n
    OBVIOUS
  <1> QED
    BY <1>1, <1>2, <1>3, Zenon DEF Ends

\* The last element is taken off and the one below it is replaced.
LEMMA BelowEnds ==
  ASSUME NEW s, IsSeq(s), Len(s) > 1, NEW x, NEW q, Replaces(q, Front(s), x)
  PROVE  Ends(q, s, Len(s) - 1, x)
  <1>1. s # << >> /\ Len(s) \in Nat
    BY LenZero DEF IsSeq
  <1>2. /\ IsSeq(Front(s)) /\ Len(Front(s)) = Len(s) - 1
        /\ \A i \in 1..(Len(s) - 1) : Front(s)[i] = s[i]
    BY <1>1, FrontIsSeq, Zenon
  <1>3. PICK n \in Nat \ {0} : n = Len(s) - 1
    BY <1>1
  <1>4. Front(s) # << >>
    BY <1>2, <1>3, LenZero
  <1>5. Ends(q, Front(s), n, x)
    BY <1>2, <1>3, <1>4, ReplaceEnds, Zenon
  <1>6. n - 1 <= Len(s) /\ \A i \in 1..(n - 1) : i \in 1..n
    BY <1>1, <1>3
  <1> QED
    BY <1>2, <1>3, <1>5, <1>6, Zenon DEF Ends

\* The last element is taken off.
LEMMA PopEnds ==
  ASSUME NEW s, IsSeq(s), s # << >>, NEW q, q = Front(s)
  PROVE  q = << >> \/ (Len(s) > 1 /\ Ends(q, s, Len(s) - 1, s[Len(s) - 1]))
  <1>1. /\ IsSeq(q) /\ Len(q) = Len(s) - 1 /\ Len(s) \in Nat \ {0}
        /\ \A i \in 1..(Len(s) - 1) : q[i] = s[i]
    BY FrontIsSeq, Zenon
  <1>2. CASE Len(s) = 1
    <2>1. Len(q) = 0
      BY <1>1, <1>2
    <2> QED
      BY <1>1, <2>1, LenZero
  <1>3. CASE Len(s) # 1
    <2>1. PICK n \in Nat \ {0} : n = Len(s) - 1
      BY <1>1, <1>3
    <2>2. /\ Len(s) > 1 /\ n \in 1..n /\ n - 1 <= Len(s) /\ \A i \in 1..(n - 1) : i \in 1..n
      BY <1>1, <2>1
    <2> QED
      BY <1>1, <2>1, <2>2, Zenon DEF Ends
  <1> QED
    BY <1>2, <1>3, Zenon

\* Nothing changes.
LEMMA SameEnds ==
  ASSUME NEW s, IsSeq(s), s # << >>
  PROVE  Ends(s, s, Len(s), Last(s)) /\ Len(s) \in Nat \ {0}
  <1>1. Len(s) \in Nat /\ Len(s) # 0
    BY LenZero DEF IsSeq
  <1>2. PICK n \in Nat \ {0} : n = Len(s)
    BY <1>1
  <1>3. n - 1 <= n
    OBVIOUS
  <1> QED
    BY <1>2, <1>3, Zenon DEF Ends, Last

----------------------------------------------------------------------------
(* Changes of a response.                                                  *)

\* The fields that the changes of a response leave alone.
Like(g, f) == g.contract = f.contract /\ (g.isReply <=> f.isReply)

\* A response whose submessage is sent (DispatchSubmessages).
LEMMA SentFields ==
  ASSUME NEW f, IsFrame(f), NEW x, NEW y, NEW z, NEW g, g = Sent(f, x, y, z)
  PROVE  /\ Like(g, f) /\ g.data = f.data /\ g.done = f.done
         /\ g.inFlight = y /\ g.limited = z
  <1>1. g = [contract |-> f.contract, msgs |-> x, inFlight |-> y, limited |-> z,
             data |-> f.data, isReply |-> f.isReply, done |-> f.done]
    BY Zenon DEF IsFrame, Sent
  <1> QED
    BY <1>1 DEF Like

\* A response whose submessage is dealt with.
LEMMA SettledFields ==
  ASSUME NEW f, IsFrame(f), NEW x, NEW y, NEW g, g = Settled(f, x, y)
  PROVE  /\ Like(g, f) /\ g.data = x /\ g.done = y
         /\ g.inFlight = NoMsg /\ g.limited = f.limited
  <1>1. g = [contract |-> f.contract, msgs |-> f.msgs, inFlight |-> NoMsg,
             limited |-> f.limited, data |-> x, isReply |-> f.isReply, done |-> y]
    BY Zenon DEF IsFrame, Settled
  <1> QED
    BY <1>1 DEF Like

Released(f) == [f EXCEPT !.limited = FALSE]
Answered(f, x) == [f EXCEPT !.done = x]
Returned(f, x) == [f EXCEPT !.data = x]

\* A response whose submessage has given its gas meter back.
LEMMA ReleasedFields ==
  ASSUME NEW f, IsFrame(f), NEW g, g = Released(f)
  PROVE  /\ Like(g, f) /\ g.data = f.data /\ g.done = f.done
         /\ g.inFlight = f.inFlight /\ ~g.limited
  <1>1. g = [contract |-> f.contract, msgs |-> f.msgs, inFlight |-> f.inFlight,
             limited |-> FALSE, data |-> f.data, isReply |-> f.isReply, done |-> f.done]
    BY Zenon DEF IsFrame, Released, Answered, Returned
  <1> QED
    BY <1>1 DEF Like

\* A response whose contract is told of its submessage.
LEMMA AnsweredFields ==
  ASSUME NEW f, IsFrame(f), NEW x, NEW g, g = Answered(f, x)
  PROVE  /\ Like(g, f) /\ g.data = f.data /\ g.done = x
         /\ g.inFlight = f.inFlight /\ g.limited = f.limited
  <1>1. g = [contract |-> f.contract, msgs |-> f.msgs, inFlight |-> f.inFlight,
             limited |-> f.limited, data |-> f.data, isReply |-> f.isReply, done |-> x]
    BY Zenon DEF IsFrame, Released, Answered, Returned
  <1> QED
    BY <1>1 DEF Like

\* A response whose data a reply has replaced.
LEMMA ReturnedFields ==
  ASSUME NEW f, IsFrame(f), NEW x, NEW g, g = Returned(f, x)
  PROVE  /\ Like(g, f) /\ g.data = x /\ g.done = f.done
         /\ g.inFlight = f.inFlight /\ g.limited = f.limited
  <1>1. g = [contract |-> f.contract, msgs |-> f.msgs, inFlight |-> f.inFlight,
             limited |-> f.limited, data |-> x, isReply |-> f.isReply, done |-> f.done]
    BY Zenon DEF IsFrame, Released, Answered, Returned
  <1> QED
    BY <1>1 DEF Like

----------------------------------------------------------------------------
(* Gas meters.                                                             *)

IsMeter(m) ==
  /\ m = [limit |-> m.limit, consumed |-> m.consumed]
  /\ m.limit \in Nat /\ m.consumed \in Nat

\* The limit of every meter fits into what the one below has left.
MetersOk(ms) ==
  /\ IsSeq(ms)
  /\ \A k \in 1..Len(ms) : IsMeter(ms[k])
  /\ \A k \in 1..(Len(ms) - 1) : ms[k + 1].limit < Remaining(ms[k])

\* Every meter but the first is that of the submessage in flight of a response:
\* at tells which.
PlacedAt(fs, ms, at) ==
  /\ IsSeq(at) /\ Len(at) = Len(ms) /\ Len(at) > 0
  /\ \A k \in 1..Len(at) : k > 1 =>
       /\ at[k] \in 1..Len(fs) /\ fs[at[k]].limited
       /\ fs[at[k]].inFlight.limit = ms[k].limit
  /\ \A j, k \in 1..Len(at) : 1 < j /\ j < k => at[j] < at[k]
  /\ \A i \in 1..Len(fs) : fs[i].limited => \E k \in 1..Len(at) : k > 1 /\ at[k] = i

Placed(fs, ms) == \E at : PlacedAt(fs, ms, at)

\* What the runs had the use of is paid for: p sums up.
Spent(m) == IF m.consumed < m.limit THEN m.consumed ELSE m.limit

PaidOf(p, ms) ==
  /\ p \in [0..Len(ms) -> Nat] /\ p[0] = 0
  /\ \A k \in 1..Len(ms) : p[k] = p[k - 1] + Spent(ms[k])

Covered(w, ms) == w \in Nat /\ \E p : PaidOf(p, ms) /\ w <= p[Len(ms)]

GInv ==
  /\ step = Idle => meters = << >>
  /\ step # Idle =>
       /\ MetersOk(meters) /\ Placed(frames, meters) /\ Covered(work, meters)
       /\ step # OutOfGas => Remaining(Last(meters)) >= 0

\* The responses that have a meter of their own are the same.
Alike(q, fs) ==
  /\ \A i \in 1..Len(fs) : fs[i].limited =>
       i \in 1..Len(q) /\ q[i].limited /\ q[i].inFlight.limit = fs[i].inFlight.limit
  /\ \A i \in 1..Len(q) : q[i].limited => i \in 1..Len(fs) /\ fs[i].limited

\* Then the meters are placed as they were.
LEMMA PlacedLike ==
  ASSUME NEW fs, NEW ms, Placed(fs, ms), NEW q, Alike(q, fs),
         NEW new, Len(new) = Len(ms), \A k \in 1..Len(ms) : new[k].limit = ms[k].limit
  PROVE  Placed(q, new)
  <1>1. PICK at : PlacedAt(fs, ms, at)
    BY Zenon DEF Placed
  <1>2. PlacedAt(q, new, at)
    BY <1>1, Zenon DEF PlacedAt, Alike
  <1> QED
    BY <1>2, Zenon DEF Placed

\* The top of the stack changes, but not whether it has a meter.
LEMMA AlikeEnds ==
  ASSUME NEW fs, IsSeq(fs), NEW n, NEW x, NEW q, Ends(q, fs, n, x),
         \A i \in 1..Len(fs) : i > n => ~fs[i].limited,
         x.limited => n <= Len(fs) /\ fs[n].limited,
         n <= Len(fs) /\ fs[n].limited => x.limited /\ x.inFlight.limit = fs[n].inFlight.limit
  PROVE  Alike(q, fs)
  <1>1. /\ n \in Nat \ {0} /\ Len(q) = n /\ n - 1 <= Len(fs) /\ Len(fs) \in Nat
        /\ q[n] = x /\ \A i \in 1..(n - 1) : q[i] = fs[i]
    BY DEF Ends, IsSeq
  <1>2. \A i \in 1..n : i = n \/ (i \in 1..(n - 1) /\ i \in 1..Len(fs))
    BY <1>1
  <1>3. \A i \in 1..Len(fs) : i > n \/ (i = n /\ n <= Len(fs) /\ i \in 1..n)
          \/ (i \in 1..(n - 1) /\ i \in 1..n)
    BY <1>1
  <1>4. n <= Len(fs) => n \in 1..Len(fs)
    BY <1>1
  <1> QED
    BY <1>1, <1>2, <1>3, <1>4, Zenon DEF Alike

\* Nothing changes but what the model says of no meter.
LEMMA AlikeSame ==
  ASSUME NEW fs
  PROVE  Alike(fs, fs)
  BY Zenon DEF Alike

\* The top of the stack, which has no meter, is taken off.
LEMMA AlikePop ==
  ASSUME NEW fs, IsSeq(fs), fs # << >>, ~Last(fs).limited
  PROVE  Alike(Front(fs), fs)
  <1>1. Len(fs) \in Nat \ {0} /\ Last(fs) = fs[Len(fs)]
    BY LenZero DEF IsSeq, Last
  <1>2. CASE Len(fs) > 1 /\ Ends(Front(fs), fs, Len(fs) - 1, fs[Len(fs) - 1])
    <2>1. PICK m \in Nat \ {0} : m = Len(fs) - 1
      BY <1>1, <1>2
    <2>2. m <= Len(fs) /\ \A i \in 1..Len(fs) : i > m => i = Len(fs)
      BY <1>1, <2>1
    <2>3. Ends(Front(fs), fs, m, fs[m])
      BY <1>2, <2>1, Zenon
    <2>4. \A i \in 1..Len(fs) : i > m => ~fs[i].limited
      BY <1>1, <2>2, Zenon
    <2> QED
      BY <2>2, <2>3, <2>4, AlikeEnds, Zenon
  <1>3. CASE Front(fs) = << >>
    <2>0. Len(Front(fs)) = Len(fs) - 1 /\ Len(Front(fs)) = 0
      BY <1>3, FrontIsSeq, EmptyIsSeq, Zenon
    <2>1. Len(fs) = 1 /\ Len(Front(fs)) = 0
      BY <1>1, <2>0
    <2>2. 1..Len(Front(fs)) = {} /\ \A i \in 1..Len(fs) : i = Len(fs)
      BY <2>1
    <2> QED
      BY <1>1, <2>2, Zenon DEF Alike
  <1> QED
    BY <1>2, <1>3, PopEnds, Zenon

\* The last meter of ms is charged.
LEMMA ConsumeIs ==
  ASSUME NEW ms, IsSeq(ms), ms # << >>, IsMeter(Last(ms)), NEW gas \in Nat,
         NEW q, q = Consume(ms, gas)
  PROVE  \E x : /\ Replaces(q, ms, x) /\ IsMeter(x)
                /\ x.limit = Last(ms).limit /\ x.consumed = Last(ms).consumed + gas
  <1>1. Len(ms) \in Nat \ {0} /\ Len(ms) \in 1..Len(ms) /\ Last(ms) = ms[Len(ms)]
    BY LenZero DEF IsSeq, Last
  <1>2. PICK c : c = Last(ms).consumed + gas
    BY Zenon
  <1>3. c \in Nat
    BY <1>2 DEF IsMeter
  <1>4. PICK x : x = [Last(ms) EXCEPT !.consumed = c]
    BY Zenon
  <1>5. x = [limit |-> Last(ms).limit, consumed |-> c]
    BY <1>4, Zenon DEF IsMeter
  <1>6. IsMeter(x) /\ x.limit = Last(ms).limit /\ x.consumed = c
    BY <1>3, <1>5 DEF IsMeter
  <1>7. Replaces(q, ms, x)
    BY <1>1, <1>2, <1>4, Zenon DEF Replaces, Consume, Last
  <1> QED
    BY <1>2, <1>6, <1>7, Zenon

\* The last meters change.
LEMMA MetersEnd ==
  ASSUME NEW ms, MetersOk(ms), NEW n, NEW x, NEW q, Ends(q, ms, n, x), IsMeter(x),
         n > 1 => x.limit < Remaining(ms[n - 1])
  PROVE  MetersOk(q)
  <1>1. /\ n \in Nat \ {0} /\ Len(q) = n /\ n - 1 <= Len(ms) /\ Len(ms) \in Nat
        /\ q[n] = x /\ (\A k \in 1..(n - 1) : q[k] = ms[k]) /\ IsSeq(q)
    BY DEF Ends, MetersOk, IsSeq
  <1>2. \A k \in 1..n : k = n \/ (k \in 1..(n - 1) /\ k \in 1..Len(ms))
    BY <1>1
  <1>3. \A k \in 1..n : IsMeter(q[k])
    BY <1>1, <1>2, Zenon DEF MetersOk
  <1>4. ASSUME NEW k \in 1..(n - 1)
        PROVE  q[k + 1].limit < Remaining(q[k])
    <2>1. q[k] = ms[k]
      BY <1>1, Zenon
    <2>2. CASE k = n - 1
      <3>1. n > 1 /\ k + 1 = n
        BY <1>1, <2>2
      <3> QED
        BY <1>1, <2>1, <2>2, <3>1, Zenon
    <2>3. CASE k # n - 1
      <3>1. k + 1 \in 1..(n - 1) /\ k \in 1..(Len(ms) - 1)
        BY <1>1, <2>3
      <3> QED
        BY <1>1, <2>1, <3>1, Zenon DEF MetersOk
    <2> QED
      BY <2>2, <2>3, Zenon
  <1> QED
    BY <1>1, <1>3, <1>4, Zenon DEF MetersOk

\* What they pay for.
LEMMA PaidEnd ==
  ASSUME NEW ms, IsSeq(ms), NEW p, PaidOf(p, ms), NEW n, NEW x, NEW q, Ends(q, ms, n, x),
         IsMeter(x)
  PROVE  p[n - 1] \in Nat /\ \E r : PaidOf(r, q) /\ r[n] = p[n - 1] + Spent(x)
  <1>1. /\ n \in Nat \ {0} /\ Len(q) = n /\ n - 1 <= Len(ms) /\ Len(ms) \in Nat
        /\ q[n] = x /\ \A k \in 1..(n - 1) : q[k] = ms[k]
    BY DEF Ends, IsSeq
  <1>2. /\ p \in [0..Len(ms) -> Nat] /\ p[0] = 0
        /\ \A k \in 1..Len(ms) : p[k] = p[k - 1] + Spent(ms[k])
    BY Zenon DEF PaidOf
  <1>3. p[n - 1] \in Nat /\ Spent(x) \in Nat
    BY <1>1, <1>2 DEF IsMeter, Spent
  <1>4. PICK v \in Nat : v = p[n - 1] + Spent(x)
    BY <1>3
  <1> DEFINE r == [k \in 0..n |-> IF k = n THEN v ELSE p[k]]
  <1>5. \A k \in 0..n : k # n => k \in 0..Len(ms)
    BY <1>1
  <1>6. r \in [0..n -> Nat] /\ r[n] = v /\ r[0] = 0
    BY <1>1, <1>2, <1>5
  <1>7. ASSUME NEW k \in 1..n
        PROVE  r[k] = r[k - 1] + Spent(q[k])
    <2>1. k - 1 \in 0..n /\ k - 1 # n /\ k \in 0..n
      BY <1>1
    <2>2. r[k - 1] = p[k - 1]
      BY <2>1, Zenon
    <2>3. CASE k = n
      BY <1>1, <1>4, <1>6, <2>2, <2>3, Zenon
    <2>4. CASE k # n
      <3>1. k \in 1..(n - 1) /\ k \in 1..Len(ms)
        BY <1>1, <2>4
      <3>2. r[k] = p[k] /\ q[k] = ms[k]
        BY <1>1, <2>1, <2>4, <3>1, Zenon
      <3> QED
        BY <1>2, <2>2, <3>1, <3>2, Zenon
    <2> QED
      BY <2>3, <2>4, Zenon
  <1> HIDE DEF r
  <1>8. PaidOf(r, q)
    BY <1>1, <1>6, <1>7, Zenon DEF PaidOf
  <1> QED
    BY <1>3, <1>4, <1>6, <1>8, Zenon

\* The meters of a transaction, and the innermost one.
LEMMA MetersTop ==
  ASSUME GInv, step # Idle
  PROVE  /\ MetersOk(meters) /\ IsSeq(meters) /\ meters # << >> /\ Len(meters) \in Nat \ {0}
         /\ Placed(frames, meters) /\ Covered(work, meters)
         /\ Last(meters) = meters[Len(meters)] /\ IsMeter(Last(meters))
         /\ Len(meters) > 1 =>
              /\ Last(meters).limit < Remaining(meters[Len(meters) - 1])
              /\ IsMeter(meters[Len(meters) - 1])
         /\ step # OutOfGas => Remaining(Last(meters)) >= 0
  <1>1. /\ MetersOk(meters) /\ Placed(frames, meters) /\ Covered(work, meters) /\ IsSeq(meters)
        /\ step # OutOfGas => Remaining(Last(meters)) >= 0
    BY Zenon DEF GInv, MetersOk
  <1>2. Len(meters) \in Nat /\ Len(meters) > 0
    <2>1. PICK at : Len(at) = Len(meters) /\ Len(at) > 0
      BY <1>1, Zenon DEF Placed, PlacedAt
    <2> QED
      BY <1>1, <2>1 DEF IsSeq
  <1>3. PICK n \in Nat \ {0} : n = Len(meters) /\ n \in 1..n
    BY <1>2
  <1>4. meters # << >> /\ IsMeter(meters[n])
    BY <1>1, <1>3, LenZero DEF MetersOk
  <1>5. n > 1 => n - 1 \in 1..(n - 1) /\ n - 1 \in 1..n /\ (n - 1) + 1 = n
    BY <1>3
  <1>6. n > 1 => meters[n].limit < Remaining(meters[n - 1]) /\ IsMeter(meters[n - 1])
    BY <1>1, <1>3, <1>5, Zenon DEF MetersOk
  <1> QED
    BY <1>1, <1>3, <1>4, <1>6, Zenon DEF Last

\* A run takes gas of the innermost meter, as much as there is.
LEMMA UsesMeters ==
  ASSUME GInv, step # Idle, step # OutOfGas, NEW c, NEW gas \in Nat, Uses(c, gas),
         NEW fs, Alike(fs, frames)
  PROVE  /\ MetersOk(meters') /\ Placed(fs, meters') /\ Covered(work', meters')
         /\ Remaining(Last(meters')) = Remaining(Last(meters)) - gas
         /\ Remaining(Last(meters)) \in Int
  <1>1. /\ meters' = Consume(meters, gas)
        /\ work' = work + IF gas < Remaining(Last(meters)) THEN gas ELSE Remaining(Last(meters))
    BY Zenon DEF Uses
  <1>2. PICK x : /\ Replaces(meters', meters, x) /\ IsMeter(x)
                 /\ x.limit = Last(meters).limit /\ x.consumed = Last(meters).consumed + gas
    BY <1>1, MetersTop, ConsumeIs, Zenon
  <1>3. PICK n \in Nat \ {0} : n = Len(meters)
    BY MetersTop, Zenon
  <1>4. Ends(meters', meters, n, x)
    BY <1>2, <1>3, MetersTop, ReplaceEnds, Zenon
  <1>5. MetersOk(meters')
    BY <1>2, <1>3, <1>4, MetersTop, MetersEnd, Zenon
  <1>6. /\ Len(meters') = n /\ n \in 1..n /\ Last(meters') = x
        /\ \A k \in 1..n : meters'[k].limit = meters[k].limit
    <2>1. Len(meters') = n /\ meters'[n] = x /\ \A k \in 1..(n - 1) : meters'[k] = meters[k]
      BY <1>4, Zenon DEF Ends
    <2>2. n \in 1..n /\ \A k \in 1..n : k = n \/ k \in 1..(n - 1)
      OBVIOUS
    <2>3. meters[n].limit = x.limit
      BY <1>2, <1>3, MetersTop, Zenon
    <2> QED
      BY <2>1, <2>2, <2>3, Zenon DEF Last
  <1>7. Placed(fs, meters')
    BY <1>3, <1>6, MetersTop, PlacedLike, Zenon
  <1>8. PICK l \in Nat, u \in Nat : /\ l = Last(meters).limit /\ u = Last(meters).consumed
                                    /\ x.limit = l /\ x.consumed = u + gas
    BY <1>2, MetersTop, Zenon DEF IsMeter
  <1>9. Remaining(Last(meters)) = l - u /\ l - u >= 0 /\ Remaining(Last(meters')) = l - (u + gas)
    BY <1>6, <1>8, MetersTop, Zenon DEF Remaining
  <1>10. Covered(work', meters')
    <2>1. PICK p : PaidOf(p, meters) /\ work <= p[n] /\ work \in Nat
      BY <1>3, MetersTop, Zenon DEF Covered
    <2>2. PICK r : PaidOf(r, meters') /\ r[n] = p[n - 1] + Spent(x) /\ p[n - 1] \in Nat
      <3>1. IsSeq(meters) /\ IsMeter(x) /\ PaidOf(p, meters)
        BY <1>2, <2>1, MetersTop, Zenon
      <3>2. p[n - 1] \in Nat /\ \E r : PaidOf(r, meters') /\ r[n] = p[n - 1] + Spent(x)
        BY <1>4, <3>1, PaidEnd
      <3> QED
        BY <3>2, Zenon
    <2>3. p[n] = p[n - 1] + Spent(Last(meters))
      BY <1>3, <1>6, <2>1, MetersTop, Zenon DEF PaidOf
    <2>4. Spent(Last(meters)) = u
      BY <1>8, <1>9 DEF Spent
    <2>5. Spent(x) = IF u + gas < l THEN u + gas ELSE l
      BY <1>8, Zenon DEF Spent
    <2>6. work' = work + IF gas < l - u THEN gas ELSE l - u
      BY <1>1, <1>9, Zenon
    <2>7. PICK a \in Nat, w \in Nat : a = p[n - 1] /\ w = work
      BY <2>1, <2>2, Zenon
    <2>8. w <= a + u /\ r[n] = a + IF u + gas < l THEN u + gas ELSE l
      BY <2>1, <2>2, <2>3, <2>4, <2>5, <2>7, Zenon
    <2>9. work' \in Nat /\ work' <= r[n]
      BY <1>9, <2>6, <2>7, <2>8
    <2> QED
      BY <1>6, <2>2, <2>9, Zenon DEF Covered
  <1>11. Remaining(Last(meters')) = Remaining(Last(meters)) - gas /\ Remaining(Last(meters)) \in Int
    BY <1>9
  <1> QED
    BY <1>5, <1>7, <1>10, <1>11

\* Alike is transitive.
LEMMA AlikeBoth ==
  ASSUME NEW a, NEW b, Alike(a, b), NEW c, Alike(b, c)
  PROVE  Alike(a, c)
  BY Zenon DEF Alike

\* The top of the stack changes in what has nothing to do with gas.
LEMMA AlikeSet ==
  ASSUME NEW fs, IsSeq(fs), fs # << >>, NEW g, NEW q, Replaces(q, fs, g),
         g.limited <=> Last(fs).limited,
         g.limited => g.inFlight = Last(fs).inFlight
  PROVE  Alike(q, fs)
  <1>1. Ends(q, fs, Len(fs), g) /\ Len(fs) \in Nat \ {0}
    BY ReplaceEnds, Zenon
  <1>2. Last(fs) = fs[Len(fs)] /\ Len(fs) <= Len(fs) /\ \A i \in 1..Len(fs) : ~(i > Len(fs))
    BY <1>1 DEF Last
  <1> QED
    BY <1>1, <1>2, AlikeEnds, Zenon

\* The response of a run has no submessage in flight yet.
LEMMA RunAlike ==
  ASSUME NEW fs, IsSeq(fs), NEW c, NEW gas, NEW isReply \in BOOLEAN,
         ContractRuns(fs, c, gas, isReply)
  PROVE  Alike(frames', fs)
  <1>1. CASE frames' = fs
    BY <1>1, AlikeSame, Zenon
  <1>2. CASE \E msgs \in Response, withData \in WithData :
               frames' = Append(fs,
                 [contract |-> c, msgs |-> msgs, inFlight |-> NoMsg, limited |-> FALSE,
                  data |-> IF withData THEN nextRun ELSE 0, isReply |-> isReply,
                  done |-> << >>])
    <2>1. PICK msgs : \E data :
            frames' = Append(fs,
              [contract |-> c, msgs |-> msgs, inFlight |-> NoMsg, limited |-> FALSE,
               data |-> data, isReply |-> isReply, done |-> << >>])
      BY <1>2, Zenon
    <2>2. PICK data :
            frames' = Append(fs,
              [contract |-> c, msgs |-> msgs, inFlight |-> NoMsg, limited |-> FALSE,
               data |-> data, isReply |-> isReply, done |-> << >>])
      BY <2>1, Zenon
    <2>3. PICK g : g = [contract |-> c, msgs |-> msgs, inFlight |-> NoMsg,
                        limited |-> FALSE, data |-> data, isReply |-> isReply,
                        done |-> << >>]
      BY Zenon
    <2>4. ~g.limited
      BY <2>3
    <2>5. Ends(frames', fs, Len(fs) + 1, g)
      BY <2>2, <2>3, PushEnds, Zenon
    <2>6. Len(fs) \in Nat
      BY DEF IsSeq
    <2>7. ~(Len(fs) + 1 <= Len(fs)) /\ \A i \in 1..Len(fs) : ~(i > Len(fs) + 1)
      BY <2>6
    <2> QED
      BY <2>4, <2>5, <2>7, AlikeEnds, Zenon
  <1> QED
    BY <1>1, <1>2, Zenon DEF ContractRuns

\* A run from responses that have the meters they had.
LEMMA RunMeters ==
  ASSUME GInv, step.op \in {"run", "reply"}, NEW fs, IsSeq(fs), Alike(fs, frames),
         NEW c, NEW gas \in Cost, NEW isReply \in BOOLEAN, ContractRuns(fs, c, gas, isReply)
  PROVE  GInv'
  <1>1. step # Idle /\ step # OutOfGas
    BY StepKinds
  <1>2. gas \in Nat /\ Uses(c, gas)
    BY DispatcherAssumption DEF ContractRuns
  <1>3. Alike(frames', frames)
    BY RunAlike, AlikeBoth
  <1>4. /\ MetersOk(meters') /\ Placed(frames', meters') /\ Covered(work', meters')
        /\ Remaining(Last(meters')) = Remaining(Last(meters)) - gas
        /\ Remaining(Last(meters)) \in Int
    BY <1>1, <1>2, <1>3, UsesMeters, Zenon
  <1>5. step' # OutOfGas => gas < Remaining(Last(meters))
    BY Zenon DEF ContractRuns
  <1>6. step' # OutOfGas => Remaining(Last(meters')) >= 0
    BY <1>2, <1>4, <1>5
  <1>7. step' # Idle
    <2>1. step' \in {OutOfGas, Panic, Failed, Done(FALSE, 0), Loop}
      BY Zenon DEF ContractRuns
    <2> QED
      BY <2>1, StepKinds, Zenon
  <1> QED
    BY <1>4, <1>6, <1>7, Zenon DEF GInv

\* A message to a contract takes gas.
LEMMA ExecuteMeters ==
  ASSUME IInv, GInv, NEW c, NEW gas \in Cost, Execute(c, gas)
  PROVE  GInv'
  <1>1. step.op = "run" /\ IsSeq(frames)
    BY StepKinds, Zenon DEF Execute, IInv, IsStack
  <1>2. ContractRuns(frames, c, gas, FALSE)
    BY Zenon DEF Execute
  <1> QED
    BY <1>1, <1>2, AlikeSame, RunMeters, Zenon

\* Any other message takes gas.
LEMMA HandleSdkMessageMeters ==
  ASSUME IInv, GInv, NEW gas \in Cost, HandleSdkMessage(gas)
  PROVE  GInv'
  <1>1. step # Idle /\ step # OutOfGas
    BY StepKinds, Zenon DEF HandleSdkMessage
  <1>2. gas \in Nat /\ Uses(NoMsg, gas) /\ frames' = frames
    BY DispatcherAssumption DEF HandleSdkMessage
  <1>4. /\ MetersOk(meters') /\ Placed(frames', meters') /\ Covered(work', meters')
        /\ Remaining(Last(meters')) = Remaining(Last(meters)) - gas
        /\ Remaining(Last(meters)) \in Int
    BY <1>1, <1>2, AlikeSame, UsesMeters, Zenon
  <1>5. step' # OutOfGas => gas <= Remaining(Last(meters))
    BY Zenon DEF HandleSdkMessage
  <1>6. step' # OutOfGas => Remaining(Last(meters')) >= 0
    BY <1>2, <1>4, <1>5
  <1>7. step' # Idle
    BY StepKinds, Zenon DEF HandleSdkMessage
  <1> QED
    BY <1>4, <1>6, <1>7, Zenon DEF GInv

\* A reply takes gas, from the meter of the caller.
LEMMA ReplyMeters ==
  ASSUME IInv, GInv, NEW gas \in Cost, Reply(gas)
  PROVE  GInv'
  <1>1. step.op = "reply" /\ IsStack(frames) /\ IsSeq(frames)
    BY StepKinds, Zenon DEF Reply, IInv, IsStack
  <1>2. frames # << >>
    BY <1>1 DEF IInv, StepInv
  <1>3. PICK e : e = Replied(Top.done)
    OBVIOUS
  <1>4. PICK g : g = Answered(Top, e)
    OBVIOUS
  <1>5. PICK fs : /\ fs = [frames EXCEPT ![Len(frames)].done = Replied(@)]
                  /\ ContractRuns(fs, Top.contract, gas, TRUE)
    BY Zenon DEF Reply
  <1>6. IsFrame(Top) /\ Len(frames) \in 1..Len(frames) /\ Top = frames[Len(frames)]
    BY <1>1, <1>2, LastFrame, Zenon DEF Top
  <1>7. Replaces(fs, frames, g)
    BY <1>3, <1>4, <1>5, <1>6, Zenon DEF Replaces, Answered
  <1>8. g.inFlight = Top.inFlight /\ g.limited = Top.limited
    BY <1>4, <1>6, AnsweredFields
  <1>9. Alike(fs, frames) /\ IsSeq(fs)
    BY <1>1, <1>2, <1>7, <1>8, AlikeSet, ReplaceIsSeq DEF Top
  <1> QED
    BY <1>1, <1>5, <1>9, RunMeters, Zenon

\* A response gets a meter for its submessage.
LEMMA PlacedPush ==
  ASSUME NEW fs, IsSeq(fs), fs # << >>, ~Last(fs).limited, NEW ms, IsSeq(ms), Placed(fs, ms),
         NEW g, g.limited, NEW q, Replaces(q, fs, g),
         NEW x, x.limit = g.inFlight.limit, NEW new, Ends(new, ms, Len(ms) + 1, x)
  PROVE  Placed(q, new)
  <1>1. PICK at : PlacedAt(fs, ms, at)
    BY Zenon DEF Placed
  <1>2. PICK n \in Nat \ {0} : n = Len(fs) /\ Last(fs) = fs[n]
    BY LenZero DEF IsSeq, Last
  <1>3. PICK m \in Nat \ {0} : m = Len(ms) /\ m = Len(at)
    BY <1>1 DEF PlacedAt, IsSeq
  <1>4. PICK bt : bt = Append(at, n)
    BY Zenon
  <1>5. /\ IsSeq(bt) /\ Len(bt) = m + 1 /\ bt[m + 1] = n
        /\ \A k \in 1..m : bt[k] = at[k]
    BY <1>1, <1>3, <1>4, AppendIsSeq DEF PlacedAt
  <1>6. Len(q) = n /\ n \in 1..n /\ \A i \in 1..n : q[i] = IF i = n THEN g ELSE fs[i]
    BY <1>2, ReplaceIsSeq
  <1>7. Len(new) = m + 1 /\ new[m + 1] = x /\ \A k \in 1..m : new[k] = ms[k]
    BY <1>3 DEF Ends
  <1>8. ASSUME NEW k \in 1..m, k > 1
        PROVE  /\ at[k] \in 1..n /\ fs[at[k]].limited /\ at[k] # n /\ at[k] < n
               /\ fs[at[k]].inFlight.limit = ms[k].limit
    <2>1. at[k] \in 1..n /\ fs[at[k]].limited /\ fs[at[k]].inFlight.limit = ms[k].limit
      BY <1>1, <1>2, <1>3, <1>8, Zenon DEF PlacedAt
    <2>2. at[k] # n
      BY <1>2, <2>1, Zenon
    <2>3. at[k] < n
      BY <2>1, <2>2
    <2> QED
      BY <2>1, <2>2, <2>3, Zenon
  <1>9. \A k \in 1..(m + 1) : k = m + 1 \/ (k \in 1..m /\ k # m + 1 /\ k < m + 1)
    BY <1>3
  <1>10. ASSUME NEW k \in 1..(m + 1), k > 1
         PROVE  bt[k] \in 1..n /\ q[bt[k]].limited /\ q[bt[k]].inFlight.limit = new[k].limit
    <2>1. CASE k = m + 1
      BY <1>5, <1>6, <1>7, <2>1, Zenon
    <2>2. CASE k \in 1..m
      <3>1. bt[k] = at[k] /\ q[at[k]] = fs[at[k]] /\ new[k] = ms[k]
        BY <1>5, <1>6, <1>7, <1>8, <1>10, <2>2, Zenon
      <3> QED
        BY <1>8, <1>10, <2>2, <3>1, Zenon
    <2> QED
      BY <1>9, <2>1, <2>2, Zenon
  <1>11. ASSUME NEW j \in 1..(m + 1), NEW k \in 1..(m + 1), 1 < j, j < k
         PROVE  bt[j] < bt[k]
    <2>1. j \in 1..m
      BY <1>3, <1>11
    <2>2. CASE k = m + 1
      BY <1>5, <1>8, <1>11, <2>1, <2>2
    <2>3. CASE k \in 1..m
      BY <1>1, <1>3, <1>5, <1>11, <2>1, <2>3, Zenon DEF PlacedAt
    <2> QED
      BY <1>9, <2>2, <2>3, Zenon
  <1>12. ASSUME NEW i \in 1..n, q[i].limited
         PROVE  \E k \in 1..(m + 1) : k > 1 /\ bt[k] = i
    <2>1. CASE i = n
      <3>1. m + 1 \in 1..(m + 1) /\ m + 1 > 1
        BY <1>3
      <3> QED
        BY <1>5, <2>1, <3>1, Zenon
    <2>2. CASE i # n
      <3>1. fs[i].limited
        BY <1>6, <1>12, <2>2, Zenon
      <3>2. PICK k \in 1..m : k > 1 /\ at[k] = i
        BY <1>1, <1>2, <1>3, <3>1, Zenon DEF PlacedAt
      <3>3. k \in 1..(m + 1)
        BY <1>3
      <3> QED
        BY <1>5, <3>2, <3>3, Zenon
    <2> QED
      BY <2>1, <2>2
  <1>13. m + 1 > 0
    BY <1>3
  <1>14. PlacedAt(q, new, bt)
    BY <1>5, <1>6, <1>7, <1>10, <1>11, <1>12, <1>13, Zenon DEF PlacedAt
  <1> QED
    BY <1>14, Zenon DEF Placed

\* The innermost meter is that of the innermost response, if this has one.
LEMMA PlacedTop ==
  ASSUME NEW fs, IsSeq(fs), fs # << >>, Last(fs).limited, NEW ms, IsSeq(ms),
         NEW at, PlacedAt(fs, ms, at)
  PROVE  /\ Len(ms) > 1 /\ at[Len(at)] = Len(fs) /\ Len(at) \in Nat
         /\ Last(fs).inFlight.limit = Last(ms).limit
  <1>1. PICK n \in Nat \ {0} : n = Len(fs) /\ Last(fs) = fs[n] /\ n \in 1..n
    BY LenZero DEF IsSeq, Last
  <1>2. PICK m \in Nat \ {0} : m = Len(ms) /\ m = Len(at) /\ m \in 1..m
    BY DEF PlacedAt, IsSeq
  <1>3. PICK k \in 1..m : k > 1 /\ at[k] = n
    BY <1>1, <1>2, Zenon DEF PlacedAt
  <1>4. m > 1
    BY <1>2, <1>3
  <1>5. at[m] \in 1..n /\ fs[at[m]].inFlight.limit = ms[m].limit
    BY <1>1, <1>2, <1>4, Zenon DEF PlacedAt
  <1>6. k = m
    <2>1. k < m => at[k] < at[m]
      BY <1>2, <1>3, Zenon DEF PlacedAt
    <2> QED
      BY <1>2, <1>3, <1>5, <2>1
  <1> QED
    BY <1>1, <1>2, <1>3, <1>4, <1>5, <1>6, Zenon DEF Last

\* The innermost response leaves its meter.
LEMMA PlacedPop ==
  ASSUME NEW fs, IsSeq(fs), fs # << >>, Last(fs).limited, NEW ms, IsSeq(ms), Placed(fs, ms),
         NEW g, ~g.limited, NEW q, Replaces(q, fs, g),
         NEW x, x.limit = ms[Len(ms) - 1].limit, NEW new, Ends(new, ms, Len(ms) - 1, x)
  PROVE  Placed(q, new)
  <1>1. PICK at : PlacedAt(fs, ms, at)
    BY Zenon DEF Placed
  <1>2. PICK n \in Nat \ {0} : n = Len(fs) /\ Last(fs) = fs[n]
    BY LenZero DEF IsSeq, Last
  <1>3. /\ Len(ms) > 1 /\ at[Len(at)] = Len(fs) /\ Len(at) \in Nat
        /\ IsSeq(at) /\ Len(at) = Len(ms)
    <2>1. IsSeq(at) /\ Len(at) = Len(ms)
      BY <1>1, Zenon DEF PlacedAt
    <2> QED
      BY <1>1, <2>1, PlacedTop, Zenon
  <1>4. PICK m \in Nat \ {0} : m = Len(ms) - 1 /\ m + 1 = Len(at) /\ at # << >>
    BY <1>3, LenZero
  <1>5. PICK bt : bt = Front(at)
    OBVIOUS
  <1>6. /\ IsSeq(bt) /\ Len(bt) = m /\ \A k \in 1..m : bt[k] = at[k]
    <2>1. IsSeq(bt) /\ Len(bt) = Len(at) - 1 /\ \A k \in 1..(Len(at) - 1) : bt[k] = at[k]
      BY <1>3, <1>4, <1>5, FrontIsSeq, Zenon
    <2> QED
      BY <1>3, <1>4, <2>1
  <1>7. Len(q) = n /\ n \in 1..n /\ \A i \in 1..n : q[i] = IF i = n THEN g ELSE fs[i]
    BY <1>2, ReplaceIsSeq
  <1>8. Len(new) = m /\ new[m] = x /\ (\A k \in 1..(m - 1) : new[k] = ms[k]) /\ x.limit = ms[m].limit
    BY <1>4, Zenon DEF Ends
  <1>9. \A k \in 1..m : new[k].limit = ms[k].limit
    <2>1. \A k \in 1..m : k = m \/ k \in 1..(m - 1)
      BY <1>4
    <2> QED
      BY <1>8, <2>1, Zenon
  <1>10. \A k \in 1..m : k \in 1..(m + 1) /\ k < m + 1
    BY <1>4
  <1>11. ASSUME NEW k \in 1..m, k > 1
         PROVE  /\ bt[k] \in 1..n /\ q[bt[k]].limited
                /\ q[bt[k]].inFlight.limit = new[k].limit
    <2>1. /\ at[k] \in 1..n /\ fs[at[k]].limited
          /\ fs[at[k]].inFlight.limit = ms[k].limit
      BY <1>1, <1>2, <1>4, <1>10, <1>11, Zenon DEF PlacedAt
    <2>2. at[k] < at[m + 1]
      <3>1. m + 1 \in 1..(m + 1)
        BY <1>4
      <3> QED
        BY <1>1, <1>4, <1>10, <1>11, <3>1, Zenon DEF PlacedAt
    <2>3. at[m + 1] = n
      BY <1>2, <1>3, <1>4, Zenon
    <2>4. at[k] # n
      BY <2>1, <2>2, <2>3
    <2>5. bt[k] = at[k] /\ new[k].limit = ms[k].limit
      BY <1>6, <1>9, Zenon
    <2>6. q[at[k]] = fs[at[k]]
      BY <1>7, <2>1, <2>4, Zenon
    <2> QED
      BY <2>1, <2>5, <2>6, Zenon
  <1>12. ASSUME NEW j \in 1..m, NEW k \in 1..m, 1 < j, j < k
         PROVE  bt[j] < bt[k]
    BY <1>1, <1>4, <1>6, <1>10, <1>12, Zenon DEF PlacedAt
  <1>13. ASSUME NEW i \in 1..n, q[i].limited
         PROVE  \E k \in 1..m : k > 1 /\ bt[k] = i
    <2>1. i # n /\ fs[i].limited
      BY <1>7, <1>13, Zenon
    <2>2. PICK k \in 1..(m + 1) : k > 1 /\ at[k] = i
      BY <1>1, <1>2, <1>4, <2>1, Zenon DEF PlacedAt
    <2>3. k # m + 1
      BY <1>2, <1>3, <1>4, <2>1, <2>2, Zenon
    <2>4. k \in 1..m
      BY <1>4, <2>3
    <2> QED
      BY <1>6, <2>2, <2>4, Zenon
  <1>14. m > 0
    BY <1>4
  <1>15. PlacedAt(q, new, bt)
    BY <1>6, <1>7, <1>8, <1>11, <1>12, <1>13, <1>14, Zenon DEF PlacedAt
  <1> QED
    BY <1>15, Zenon DEF Placed

\* The stack of responses.
LEMMA Stack ==
  ASSUME IInv, frames # << >>
  PROVE  /\ IsSeq(frames) /\ IsFrame(Top) /\ Len(frames) \in 1..Len(frames)
         /\ Top = frames[Len(frames)] /\ Top = Last(frames)
         /\ Top.inFlight = NoMsg => ~Top.limited
  <1>1. IsStack(frames) /\ IsSeq(frames)
    BY Zenon DEF IInv, IsStack
  <1>2. /\ IsFrame(Top) /\ Len(frames) \in 1..Len(frames)
        /\ Top = frames[Len(frames)] /\ Top = Last(frames)
    BY <1>1, LastFrame, Zenon DEF Top
  <1>3. Top.inFlight = NoMsg => ~Top.limited
    BY <1>2, Zenon DEF IsFrame
  <1> QED
    BY <1>1, <1>2, <1>3, Zenon

\* A submessage gets a meter if its limit is below what is left.
LEMMA DispatchSubmessageMeters ==
  ASSUME IInv, GInv, DispatchSubmessage
  PROVE  GInv'
  <1>1. step.op = "loop" /\ step # Idle /\ step # OutOfGas
    BY StepKinds DEF DispatchSubmessage
  <1>2. frames # << >> /\ Top.inFlight = NoMsg
    BY <1>1 DEF IInv, StepInv
  <1>3. PICK limited : limited = LimitGas(Head(Top.msgs).limit, Remaining(Last(meters)))
    BY Zenon
  <1>4. frames' = [frames EXCEPT ![Len(frames)].msgs = Tail(Top.msgs),
                                 ![Len(frames)].inFlight = Head(Top.msgs),
                                 ![Len(frames)].limited = limited]
    BY <1>3, Zenon DEF DispatchSubmessage, Top, Last
  <1>5. PICK g : g = Sent(Top, Tail(Top.msgs), Head(Top.msgs), limited)
    OBVIOUS
  <1>6. Replaces(frames', frames, g)
    BY <1>2, <1>4, <1>5, Stack, Zenon DEF Replaces, Top, Last, Sent
  <1>7. g.limited = limited /\ g.inFlight = Head(Top.msgs)
    BY <1>2, <1>5, Stack, SentFields
  <1>8. step' # Idle /\ step' # OutOfGas /\ work' = work
    BY StepKinds, Zenon DEF DispatchSubmessage
  <1>9. CASE ~limited
    <2>1. meters' = meters
      BY <1>3, <1>9, Zenon DEF DispatchSubmessage
    <2>2. Alike(frames', frames)
      BY <1>2, <1>6, <1>7, <1>9, Stack, AlikeSet, Zenon
    <2>3. Placed(frames', meters')
      BY <1>1, <2>1, <2>2, MetersTop, PlacedLike, Zenon
    <2> QED
      BY <1>1, <1>8, <2>1, <2>3, MetersTop, Zenon DEF GInv
  <1>10. CASE limited
    <2>1. PICK l : l = Head(Top.msgs).limit
      OBVIOUS
    <2>2. PICK x : x = [limit |-> l, consumed |-> 0]
      BY Zenon
    <2>3. meters' = Append(meters, x)
      BY <1>3, <1>10, <2>1, <2>2, Zenon DEF DispatchSubmessage
    <2>4. l # NoLimit /\ l < Remaining(Last(meters))
      BY <1>3, <1>10, <2>1, Zenon DEF LimitGas
    <2>5. l \in Nat
      <3>1. Top.msgs \in Seq(SubMsg) /\ Top.msgs # << >>
        BY <1>2, Stack, Zenon DEF IsFrame, DispatchSubmessage
      <3>2. Head(Top.msgs) \in SubMsg
        BY <3>1
      <3> QED
        BY <2>1, <2>4, <3>2 DEF SubMsg
    <2>6. IsMeter(x) /\ x.limit = l /\ Remaining(x) = l /\ Spent(x) = 0
      BY <2>2, <2>5 DEF IsMeter, Remaining, Spent
    <2>7. PICK n \in Nat \ {0} : n = Len(meters) /\ (n + 1) - 1 = n /\ Last(meters) = meters[n]
      BY <1>1, MetersTop
    <2>8. Ends(meters', meters, n + 1, x)
      BY <1>1, <2>3, <2>7, MetersTop, PushEnds, Zenon
    <2>9. MetersOk(meters')
      BY <1>1, <2>4, <2>6, <2>7, <2>8, MetersTop, MetersEnd, Zenon
    <2>10. Placed(frames', meters')
      <3>1. x.limit = g.inFlight.limit /\ g.limited
        BY <1>7, <1>10, <2>1, <2>6, Zenon
      <3>2. IsSeq(frames) /\ ~Last(frames).limited /\ IsSeq(meters) /\ Placed(frames, meters)
        BY <1>1, <1>2, Stack, MetersTop, Zenon
      <3> QED
        BY <1>2, <1>6, <2>7, <2>8, <3>1, <3>2, PlacedPush, ZenonT(60)
    <2>11. Len(meters') = n + 1 /\ Last(meters') = x
      BY <2>8, Zenon DEF Ends, Last
    <2>12. Covered(work', meters')
      <3>1. PICK p : PaidOf(p, meters) /\ work <= p[n] /\ work \in Nat
        BY <1>1, <2>7, MetersTop, Zenon DEF Covered
      <3>2. IsSeq(meters)
        BY <1>1, MetersTop, Zenon
      <3>3. p[n] \in Nat /\ \E r : PaidOf(r, meters') /\ r[n + 1] = p[n] + 0
        BY <2>6, <2>7, <2>8, <3>1, <3>2, PaidEnd
      <3>4. PICK r : PaidOf(r, meters') /\ r[n + 1] = p[n]
        BY <3>3
      <3> QED
        BY <1>8, <2>11, <3>1, <3>4, Zenon DEF Covered
    <2>13. Remaining(Last(meters')) >= 0
      BY <2>5, <2>6, <2>11
    <2> QED
      BY <1>8, <2>9, <2>10, <2>12, <2>13, Zenon DEF GInv
  <1> QED
    BY <1>9, <1>10, Zenon

\* The innermost meter is left, and the one below charged with s.
LEMMA ChargedMeters ==
  ASSUME IInv, GInv, step # Idle, frames # << >>, Top.limited,
         frames' = [frames EXCEPT ![Len(frames)].limited = FALSE], work' = work,
         NEW s \in Nat, s <= Last(meters).limit, Spent(Last(meters)) <= s,
         meters' = Charged(s)
  PROVE  /\ MetersOk(meters') /\ Placed(frames', meters') /\ Covered(work', meters')
         /\ Remaining(Last(meters')) >= 0
  <1>1. IsSeq(frames) /\ IsSeq(meters) /\ Placed(frames, meters) /\ Last(frames).limited
    BY Stack, MetersTop, Zenon
  <1>2. Len(meters) > 1
    BY <1>1, PlacedTop, Zenon DEF Placed
  <1>3. PICK n \in Nat \ {0} : n = Len(meters) - 1 /\ n + 1 = Len(meters)
    BY <1>2, MetersTop
  <1>4. PICK ms : ms = Front(meters)
    OBVIOUS
  <1>5. IsSeq(ms) /\ Len(ms) = n /\ ms # << >> /\ Last(ms) = meters[n]
    <2>1. IsSeq(ms) /\ Len(ms) = n /\ \A i \in 1..n : ms[i] = meters[i]
      BY <1>3, <1>4, MetersTop, FrontIsSeq, Zenon
    <2>2. n \in 1..n
      BY <1>3
    <2> QED
      BY <1>3, <2>1, <2>2, LenZero DEF Last
  <1>6. /\ IsMeter(meters[n]) /\ IsMeter(Last(meters)) /\ Last(meters) = meters[n + 1]
        /\ Last(meters).limit < Remaining(meters[n])
    BY <1>2, <1>3, MetersTop, Zenon
  <1>7. PICK x : /\ Replaces(meters', ms, x) /\ IsMeter(x)
                 /\ x.limit = meters[n].limit /\ x.consumed = meters[n].consumed + s
    <2>1. meters' = Consume(ms, s)
      BY <1>4, Zenon DEF Charged
    <2> QED
      <3>1. IsMeter(Last(ms))
        BY <1>5, <1>6, Zenon
      <3>2. \E x : /\ Replaces(meters', ms, x) /\ IsMeter(x)
                   /\ x.limit = Last(ms).limit /\ x.consumed = Last(ms).consumed + s
        BY <1>5, <2>1, <3>1, ConsumeIs, Zenon
      <3> QED
        BY <1>5, <3>2, Zenon
  <1>8. Ends(meters', meters, n, x)
    BY <1>1, <1>2, <1>3, <1>4, <1>7, BelowEnds, Zenon
  <1>9. PICK a \in Nat, u \in Nat, l \in Nat, z \in Nat :
          /\ a = meters[n].limit /\ u = meters[n].consumed
          /\ l = Last(meters).limit /\ z = Spent(Last(meters))
    <2>1. Spent(Last(meters)) \in Nat
      BY <1>6, Zenon DEF IsMeter, Spent
    <2> QED
      BY <1>6, <2>1, Zenon DEF IsMeter
  <1>10. l < a - u /\ s <= l /\ z <= s /\ x.limit = a /\ x.consumed = u + s
    BY <1>6, <1>7, <1>9, Zenon DEF Remaining
  <1>11. Spent(meters[n]) = u /\ Spent(x) = u + s
    <2>1. u < a /\ u + s < a
      BY <1>9, <1>10
    <2> QED
      BY <1>9, <1>10, <2>1, Zenon DEF Spent
  <1>12. MetersOk(meters')
    <2>1. n > 1 => n - 1 \in 1..(Len(meters) - 1) /\ (n - 1) + 1 = n
      BY <1>3
    <2>2. n > 1 => meters[n].limit < Remaining(meters[n - 1])
      BY <2>1, MetersTop, Zenon DEF MetersOk
    <2> QED
      BY <1>7, <1>8, <2>2, MetersTop, MetersEnd, Zenon
  <1>13. Len(meters') = n /\ Last(meters') = x
    BY <1>8, Zenon DEF Ends, Last
  <1>14. Remaining(Last(meters')) >= 0
    <2>1. Remaining(x) = a - (u + s)
      BY <1>10, Zenon DEF Remaining
    <2> QED
      BY <1>10, <1>13, <2>1
  <1>15. Placed(frames', meters')
    <2>1. PICK g : g = Released(Top)
      OBVIOUS
    <2>2. Replaces(frames', frames, g)
      BY <2>1, Stack, Zenon DEF Replaces, Released
    <2>3. ~g.limited
      BY <2>1, Stack, ReleasedFields
    <2> QED
      BY <2>3, <1>1, <1>3, <1>7, <1>8, <2>2, PlacedPop, ZenonT(60)
  <1>16. Covered(work', meters')
    <2>1. PICK p : PaidOf(p, meters) /\ work <= p[n + 1] /\ work \in Nat
      BY <1>3, MetersTop, Zenon DEF Covered
    <2>2. p[n - 1] \in Nat /\ \E r : PaidOf(r, meters') /\ r[n] = p[n - 1] + Spent(x)
      BY <1>1, <1>7, <1>8, <2>1, PaidEnd
    <2>3. PICK r : PaidOf(r, meters') /\ r[n] = p[n - 1] + (u + s)
      BY <1>11, <2>2, Zenon
    <2>4. n \in 1..Len(meters) /\ n + 1 \in 1..Len(meters) /\ (n + 1) - 1 = n
      BY <1>3
    <2>5. p[n] = p[n - 1] + u /\ p[n + 1] = p[n] + z
      BY <1>6, <1>9, <1>11, <2>1, <2>4, Zenon DEF PaidOf
    <2>6. work <= r[n]
      BY <1>9, <1>10, <2>1, <2>2, <2>3, <2>5
    <2> QED
      BY <1>13, <2>1, <2>3, <2>6, Zenon DEF Covered
  <1> QED
    BY <1>12, <1>14, <1>15, <1>16

\* Gas that a submessage may use is never more than its limit.
LEMMA SpentFits ==
  ASSUME NEW m, IsMeter(m)
  PROVE  Spent(m) <= m.limit /\ Spent(m) <= m.consumed /\ (Remaining(m) >= 0 => m.consumed <= m.limit)
  BY DEF IsMeter, Spent, Remaining

\* Charging a submessage never fails: its limit fits into what its caller has left.
LEMMA ChargeLimitedMeters ==
  ASSUME IInv, GInv, ChargeLimited
  PROVE  GInv' /\ step' = step
  <1>1. step.op = "done" /\ frames # << >> /\ Top.limited
    BY DEF ChargeLimited
  <1>2. step # Idle /\ step # OutOfGas
    BY <1>1, StepKinds
  <1>3. PICK s : s = Last(meters).consumed
    OBVIOUS
  <1>4. /\ meters' = Charged(s) /\ work' = work
        /\ frames' = [frames EXCEPT ![Len(frames)].limited = FALSE]
        /\ step' = IF Remaining(Last(Charged(s))) < 0 THEN OutOfGas ELSE step
    BY <1>3, Zenon DEF ChargeLimited, SpentOf
  <1>5. s \in Nat /\ s <= Last(meters).limit /\ Spent(Last(meters)) <= s
    BY <1>2, <1>3, MetersTop, SpentFits, Zenon DEF IsMeter
  <1>6. /\ MetersOk(meters') /\ Placed(frames', meters') /\ Covered(work', meters')
        /\ Remaining(Last(meters')) >= 0
    BY <1>1, <1>2, <1>4, <1>5, ChargedMeters, Zenon
  <1>7. ~(Remaining(Last(meters')) < 0)
    <2>1. Remaining(Last(meters')) \in Int
      <3>1. PICK m : m = Last(meters') /\ IsMeter(m)
        <4>1. IsSeq(meters') /\ Len(meters') > 0
          BY <1>6, Zenon DEF MetersOk, Placed, PlacedAt
        <4>2. Len(meters') \in 1..Len(meters')
          BY <4>1 DEF IsSeq
        <4> QED
          BY <1>6, <4>2, Zenon DEF MetersOk, Last
      <3> QED
        BY <3>1 DEF IsMeter, Remaining
    <2> QED
      BY <1>6, <2>1
  <1>8. step' = step
    BY <1>4, <1>7, Zenon
  <1> QED
    BY <1>2, <1>6, <1>8, Zenon DEF GInv

\* The limit of a submessage is charged to the meter below, and fits.
LEMMA RecoverOutOfGasMeters ==
  ASSUME IInv, GInv, RecoverOutOfGas
  PROVE  GInv'
  <1>1. step = OutOfGas /\ step # Idle /\ frames # << >> /\ Top.limited
    BY StepKinds DEF RecoverOutOfGas
  <1>2. PICK s : s = Top.inFlight.limit
    OBVIOUS
  <1>3. /\ meters' = Charged(s) /\ work' = work
        /\ frames' = [frames EXCEPT ![Len(frames)].limited = FALSE]
        /\ step' \in {OutOfGas, Done(FALSE, 0)}
    BY <1>2, Zenon DEF RecoverOutOfGas
  <1>4. s = Last(meters).limit
    BY <1>1, <1>2, Stack, MetersTop, PlacedTop, Zenon DEF Placed
  <1>5. s \in Nat /\ s <= Last(meters).limit /\ Spent(Last(meters)) <= s
    <2>1. IsMeter(Last(meters)) /\ s \in Nat
      BY <1>1, <1>4, MetersTop, Zenon DEF IsMeter
    <2>2. Spent(Last(meters)) <= Last(meters).limit
      BY <2>1, SpentFits, Zenon
    <2> QED
      BY <1>4, <2>1, <2>2
  <1>6. /\ MetersOk(meters') /\ Placed(frames', meters') /\ Covered(work', meters')
        /\ Remaining(Last(meters')) >= 0
    BY <1>1, <1>3, <1>5, ChargedMeters, Zenon
  <1>7. step' # Idle
    BY <1>3, StepKinds, Zenon
  <1> QED
    BY <1>6, <1>7, Zenon DEF GInv

\* Steps that have nothing to do with gas.
LEMMA MetersStay ==
  ASSUME GInv, step # Idle, step' # Idle, step = OutOfGas => step' = OutOfGas,
         meters' = meters, work' = work, Alike(frames', frames)
  PROVE  GInv'
  <1>1. Placed(frames', meters')
    BY MetersTop, PlacedLike, Zenon
  <1> QED
    BY <1>1, MetersTop, Zenon DEF GInv

\* A submessage is dealt with.
LEMMA SettleMeters ==
  ASSUME IInv, GInv, SubmessageSucceeds \/ SubmessageFails
  PROVE  GInv'
  <1>1. step.op = "done" /\ frames # << >> /\ ~Top.limited /\ meters' = meters /\ work' = work
    BY Zenon DEF SubmessageSucceeds, SubmessageFails
  <1>2. step # Idle /\ step # OutOfGas
    BY <1>1, StepKinds
  <1>3. Settle(Top.data)
    BY Zenon DEF SubmessageSucceeds, SubmessageFails, AfterSuccess
  <1>4. PICK e : e = Append(Top.done, [replyOn |-> Top.inFlight.replyOn, ok |-> step.ok,
                                       replies |-> 0])
    BY Zenon
  <1>5. PICK g : g = Settled(Top, Top.data, e)
    OBVIOUS
  <1>6. Replaces(frames', frames, g)
    <2>1. frames' = [frames EXCEPT ![Len(frames)].inFlight = NoMsg,
                                   ![Len(frames)].data = Top.data, ![Len(frames)].done = e]
      BY <1>3, <1>4, Zenon DEF Settle, Top, Last
    <2> QED
      BY <1>1, <1>5, <2>1, Stack, Zenon DEF Replaces, Settled
  <1>7. g.limited = Top.limited
    BY <1>1, <1>5, Stack, SettledFields
  <1>8. Alike(frames', frames)
    BY <1>1, <1>6, <1>7, Stack, AlikeSet, Zenon
  <1>9. step' # Idle
    <2>1. step' \in {ReplyTo(TRUE), ReplyTo(FALSE), Loop, Failed}
      BY Zenon DEF SubmessageSucceeds, SubmessageFails, AfterFailure
    <2> QED
      BY <2>1, StepKinds, Zenon
  <1> QED
    BY <1>1, <1>2, <1>8, <1>9, MetersStay

\* Refusing a submessage leaves the meters as they are.
LEMMA RejectSubmessageMeters ==
  ASSUME IInv, GInv, RejectSubmessage
  PROVE  GInv'
  <1>1. step # Idle /\ step # OutOfGas /\ step' # Idle
    BY StepKinds DEF RejectSubmessage
  <1>2. meters' = meters /\ work' = work /\ Alike(frames', frames)
    BY AlikeSame, Zenon DEF RejectSubmessage
  <1> QED
    BY <1>1, <1>2, MetersStay

\* A response whose loop is through has no submessage in flight.
LEMMA ResponseReturnsMeters ==
  ASSUME IInv, GInv, ResponseReturns
  PROVE  GInv'
  <1>1. step.op = "loop" /\ step # Idle /\ step # OutOfGas
    BY StepKinds DEF ResponseReturns
  <1>2. frames # << >> /\ Top.inFlight = NoMsg
    BY <1>1 DEF IInv, StepInv
  <1>3. meters' = meters /\ work' = work
    BY DEF ResponseReturns
  <1>4. PICK q : q = Front(frames)
    OBVIOUS
  <1>5. Alike(q, frames)
    BY <1>2, <1>4, Stack, AlikePop, Zenon
  <1>6. step' # Idle
    BY StepKinds, Zenon DEF ResponseReturns
  <1>7. CASE ~Top.isReply
    <2>1. frames' = q
      BY <1>4, <1>7, Zenon DEF ResponseReturns
    <2> QED
      BY <1>1, <1>3, <1>5, <1>6, <2>1, MetersStay, Zenon
  <1>8. CASE Top.isReply
    <2>1. frames' = [q EXCEPT ![Len(frames) - 1].data = Overridden(@, Top.data)]
      BY <1>4, <1>8, Zenon DEF ResponseReturns
    <2>2. IsStack(q) /\ Len(q) = Len(frames) - 1 /\ q # << >> /\ IsSeq(q)
      BY <1>2, <1>4, <1>8, StackPop, Zenon DEF IInv, IsStack, Top
    <2>3. IsFrame(Last(q)) /\ Len(q) \in 1..Len(q) /\ Last(q) = q[Len(q)]
      BY <2>2, LastFrame, Zenon
    <2>4. PICK e : e = Overridden(Last(q).data, Top.data)
      OBVIOUS
    <2>5. PICK g : g = Returned(Last(q), e)
      OBVIOUS
    <2>6. Replaces(frames', q, g)
      BY <2>1, <2>2, <2>3, <2>4, <2>5, Zenon DEF Replaces, Returned
    <2>7. g.inFlight = Last(q).inFlight /\ g.limited = Last(q).limited
      BY <2>3, <2>5, ReturnedFields
    <2>8. Alike(frames', q)
      BY <2>2, <2>6, <2>7, AlikeSet, Zenon
    <2>9. Alike(frames', frames)
      BY <1>5, <2>8, AlikeBoth, Zenon
    <2> QED
      BY <1>1, <1>3, <1>6, <2>9, MetersStay, Zenon
  <1> QED
    BY <1>7, <1>8, Zenon

\* A loop that fails has no meter of its own.
LEMMA ResponseFailsMeters ==
  ASSUME IInv, GInv, ResponseFails
  PROVE  GInv'
  <1>1. step.op = "fail" /\ step # Idle /\ step # OutOfGas
    BY StepKinds DEF ResponseFails
  <1>2. frames # << >> /\ Top.inFlight = NoMsg
    BY <1>1 DEF IInv, StepInv
  <1>3. meters' = meters /\ work' = work /\ frames' = Front(frames)
    BY DEF ResponseFails
  <1>4. Alike(frames', frames)
    BY <1>2, <1>3, Stack, AlikePop, Zenon
  <1>5. step' # Idle
    BY StepKinds, Zenon DEF ResponseFails
  <1> QED
    BY <1>1, <1>3, <1>4, <1>5, MetersStay, Zenon

\* A panic leaves a loop that has set no limit.
LEMMA UnwindMeters ==
  ASSUME IInv, GInv, Unwind
  PROVE  GInv'
  <1>1. /\ frames # << >> /\ ~Top.limited /\ step = OutOfGas /\ step' = step
        /\ meters' = meters /\ work' = work /\ frames' = Front(frames)
    BY DEF Unwind
  <1>2. step # Idle
    BY <1>1, StepKinds
  <1>3. Alike(frames', frames)
    BY <1>1, Stack, AlikePop, Zenon
  <1> QED
    BY <1>1, <1>2, <1>3, MetersStay, Zenon

\* A transaction starts with its own meter.
LEMMA StartTxMeters ==
  ASSUME StartTx
  PROVE  GInv'
  <1>1. PICK x : x = [limit |-> TxGas, consumed |-> 0]
    BY Zenon
  <1>2. IsMeter(x) /\ Remaining(x) = TxGas /\ TxGas \in Nat /\ Spent(x) = 0
    BY <1>1, DispatcherAssumption DEF IsMeter, Remaining, Spent
  <1>3. meters' = <<x>> /\ frames' = << >> /\ work' = 0 /\ step' = RunMsg(TRUE)
    BY <1>1, Zenon DEF StartTx
  <1>4. Len(meters') = 1 /\ meters'[1] = x /\ meters' \in Seq({x})
    BY <1>3
  <1>5. IsSeq(meters')
    BY <1>4, SeqIsSeq, Zenon
  <1>6. MetersOk(meters')
    <2>1. \A k \in 1..1 : k = 1
      OBVIOUS
    <2>2. 1..(1 - 1) = {}
      OBVIOUS
    <2> QED
      BY <1>2, <1>4, <1>5, <2>1, <2>2, Zenon DEF MetersOk
  <1>7. Placed(frames', meters')
    <2>1. PICK at : at = <<0>>
      BY Zenon
    <2>2. Len(at) = 1 /\ at \in Seq({0})
      BY <2>1
    <2>3. IsSeq(at) /\ Len(at) > 0 /\ \A k \in 1..Len(at) : ~(k > 1)
      BY <2>2, SeqIsSeq
    <2>4. \A j, k \in 1..Len(at) : ~(1 < j /\ j < k)
      BY <2>2
    <2>5. 1..Len(frames') = {}
      BY <1>3, EmptyIsSeq
    <2>6. PlacedAt(frames', meters', at)
      BY <1>4, <2>2, <2>3, <2>4, <2>5, Zenon DEF PlacedAt
    <2> QED
      BY <2>6, Zenon DEF Placed
  <1>8. Covered(work', meters')
    <2>1. PICK p : p = [k \in 0..1 |-> 0]
      BY Zenon
    <2>2. p \in [0..1 -> Nat] /\ p[0] = 0 /\ p[1] = 0
      BY <2>1
    <2>3. \A k \in 1..1 : p[k] = p[k - 1] + Spent(meters'[k])
      BY <1>2, <1>4, <2>2
    <2>4. PaidOf(p, meters')
      BY <1>4, <2>2, <2>3, Zenon DEF PaidOf
    <2>5. work' \in Nat /\ work' <= p[Len(meters')]
      BY <1>3, <1>4, <2>2
    <2> QED
      BY <2>4, <2>5, Zenon DEF Covered
  <1>9. step' # Idle
    BY <1>3, StepKinds, Zenon
  <1>10. Remaining(Last(meters')) >= 0
    BY <1>2, <1>4 DEF Last
  <1> QED
    BY <1>6, <1>7, <1>8, <1>9, <1>10, Zenon DEF GInv

\* Every step keeps the meters nested and the work paid for.
LEMMA MetersStep ==
  ASSUME IInv, GInv, [Next]_vars
  PROVE  GInv'
  <1>1. ASSUME EndTx \/ AbortTx PROVE GInv'
    BY <1>1, Zenon DEF EndTx, AbortTx, GInv
  <1>2. CASE Next
    BY <1>1, <1>2, StartTxMeters, ExecuteMeters, HandleSdkMessageMeters, ReplyMeters,
       DispatchSubmessageMeters, RejectSubmessageMeters, ChargeLimitedMeters,
       RecoverOutOfGasMeters, SettleMeters, ResponseReturnsMeters, ResponseFailsMeters,
       UnwindMeters, Zenon DEF Next
  <1>3. CASE UNCHANGED vars
    BY <1>3 DEF vars, GInv
  <1> QED
    BY <1>2, <1>3
============================================================================
