--------------------------- MODULE QueriesProofs ---------------------------
(***************************************************************************)
(* Proofs about Queries: a running contract fits into the gas of its call, *)
(* all work is charged up to the limit, queries nest boundedly, and the  *)
(* events of a response are charged at their worth.                        *)
(***************************************************************************)
EXTENDS Queries, Loops

----------------------------------------------------------------------------
(* Arithmetic of the gas register.                                         *)

\* The constants as numbers.
LEMMA Numbers ==
  /\ Word \in Nat \ {0} /\ GasMultiplier \in Nat \ {0}
  /\ InstanceCost \in Nat /\ InstanceCostDiscount \in Nat /\ LoadCost \in Nat
  /\ EventPerAttributeCost \in Nat /\ EventAttributeDataCost \in Nat
  /\ EventAttributeDataFreeTier \in Nat /\ CustomEventCost \in Nat
  /\ maxQueryStackSize \in Nat /\ queryGasLimit \in Nat
  BY QueriesAssumption, Zenon

\* Quotient and remainder.
LEMMA Division ==
  ASSUME NEW x \in Int, NEW d \in Nat \ {0}
  PROVE  /\ x % d \in 0..(d - 1)
         /\ x \div d \in Int
         /\ x = (x % d) + (x \div d) * d
  OBVIOUS

\* A number differs from its remainder by a multiple of the divisor.
LEMMA Remainder ==
  ASSUME NEW x \in Int, NEW d \in Nat \ {0}
  PROVE  \E q \in Int : x = (x % d) + q * d
  <1>1. x \div d \in Int /\ x = (x % d) + (x \div d) * d
    BY Division
  <1> QED
    BY <1>1, Zenon

\* The difference of two remainders, taken modulo d again.
LEMMA RemainderOfDifference ==
  ASSUME NEW x \in Int, NEW y \in Int, NEW d \in Nat \ {0}
  PROVE  \E q \in Int : x - y = (((x % d) - (y % d)) % d) + q * d
  <1>1. PICK a \in Int : a = x % d
    BY Division
  <1>2. PICK b \in Int : b = y % d
    BY Division
  <1>3. PICK c \in Int : c = (a - b) % d
    BY Division
  <1>4. PICK p \in Int : x = a + p * d
    BY <1>1, Remainder, Zenon
  <1>5. PICK r \in Int : y = b + r * d
    BY <1>2, Remainder, Zenon
  <1>6. PICK s \in Int : a - b = c + s * d
    <2>1. a - b \in Int
      OBVIOUS
    <2> QED
      BY <1>3, <2>1, Remainder, Zenon
  <1>7. PICK q \in Int : q = p - r + s
    OBVIOUS
  <1>8. x - y = c + q * d
    BY <1>4, <1>5, <1>6, <1>7
  <1> QED
    BY <1>1, <1>2, <1>3, <1>8, Zenon

\* A multiple of d between -d and d is zero.
LEMMA SmallMultiple ==
  ASSUME NEW q \in Int, NEW d \in Nat \ {0}
  PROVE  /\ q * d > -d => q >= 0 /\ q * d >= 0
         /\ q * d < d => q <= 0 /\ q * d <= 0
  <1>1. q >= 1 => q * d >= d
    OBVIOUS
  <1>2. q <= -1 => q * d <= -d
    OBVIOUS
  <1>3. q = 0 => q * d = 0
    OBVIOUS
  <1>4. q * d \in Int
    OBVIOUS
  <1> QED
    BY <1>1, <1>2, <1>3, <1>4

\* Multiplying keeps the order.
LEMMA GasOrder ==
  ASSUME NEW a \in Int, NEW b \in Int
  PROVE  a <= b => GasMultiplier * a <= GasMultiplier * b
  BY Numbers

\* Products of numbers are numbers.
LEMMA Product ==
  ASSUME NEW a \in Nat, NEW b \in Nat
  PROVE  a * b \in Nat
  OBVIOUS

\* The VM gas of an amount of SDK gas.
LEMMA GasType ==
  ASSUME NEW a \in Nat
  PROVE  GasMultiplier * a \in Nat
  BY Numbers

\* ToWasmVMGas is exact up to a multiple of the word, and exact below it; then
\* its test for overflow does not fire.
LEMMA Conversion ==
  ASSUME NEW x \in Nat
  PROVE  /\ ToWasmVMGas(x) \in 0..(Word - 1)
         /\ \E q \in Int : GasMultiplier * x = ToWasmVMGas(x) + q * Word
         /\ GasMultiplier * x < Word =>
              ToWasmVMGas(x) = GasMultiplier * x /\ ~Overflows(x)
  <1>1. GasMultiplier * x \in Nat
    BY GasType
  <1>2. PICK v : v = ToWasmVMGas(x)
    OBVIOUS
  <1>3. v = (GasMultiplier * x) % Word
    <2>1. x * GasMultiplier = GasMultiplier * x
      BY Numbers
    <2> QED
      BY <1>2, <2>1, Zenon DEF ToWasmVMGas
  <1>4. v \in 0..(Word - 1)
    BY <1>1, <1>3, Division, Numbers
  <1>5. PICK q \in Int : GasMultiplier * x = v + q * Word
    <2>1. GasMultiplier * x \in Int
      BY <1>1
    <2> QED
      BY <1>3, <2>1, Remainder, Numbers, Zenon
  <1>6. ASSUME GasMultiplier * x < Word
        PROVE  v = GasMultiplier * x /\ ~(v < x)
    <2>1. q * Word > -Word /\ q * Word < Word
      BY <1>1, <1>4, <1>5, <1>6, Numbers
    <2>2. q = 0
      BY <2>1, SmallMultiple, Numbers
    <2>3. v = GasMultiplier * x
      BY <1>1, <1>4, <1>5, <2>2, Numbers
    <2>4. x <= GasMultiplier * x
      BY Numbers
    <2> QED
      BY <1>1, <2>3, <2>4
  <1> QED
    BY <1>2, <1>4, <1>5, <1>6, Zenon DEF Overflows

\* FromWasmVMGas rounds down.
LEMMA RoundsDown ==
  ASSUME NEW x \in Nat
  PROVE  /\ FromWasmVMGas(x) \in Nat
         /\ GasMultiplier * FromWasmVMGas(x) <= x
         /\ x < GasMultiplier * (FromWasmVMGas(x) + 1)
  <1>1. PICK r \in Int : r = x % GasMultiplier
    BY Division, Numbers
  <1>2. PICK q \in Int : q = x \div GasMultiplier
    BY Division, Numbers
  <1>3. r \in 0..(GasMultiplier - 1) /\ x = r + q * GasMultiplier
    BY <1>1, <1>2, Division, Numbers
  <1>4. q * GasMultiplier > -GasMultiplier
    BY <1>3, Numbers
  <1>5. q >= 0
    BY <1>4, SmallMultiple, Numbers
  <1>6. q * GasMultiplier = GasMultiplier * q
        /\ GasMultiplier * (q + 1) = GasMultiplier * q + GasMultiplier
    BY Numbers
  <1>7. GasMultiplier * q \in Int
    BY Numbers
  <1>8. GasMultiplier * q <= x /\ x < GasMultiplier * (q + 1)
    BY <1>3, <1>6, <1>7, Numbers
  <1> QED
    BY <1>2, <1>5, <1>8 DEF FromWasmVMGas

----------------------------------------------------------------------------
(* The events of a response.                                               *)

\* Total sums up from left to right.
LEMMA TotalRuns ==
  ASSUME NEW l \in Seq(Nat)
  PROVE  \E g \in [0..Len(l) -> Nat] :
           /\ g[0] = 0 /\ \A i \in 1..Len(l) : g[i] = g[i - 1] + l[i]
           /\ Total(l) = g[Len(l)]
  <1> DEFINE N == Len(l)
             F == [z \in (1..N) \X Nat |-> z[2] + l[z[1]]]
             Run(f) == [i \in 0..N |-> IF i = 0 THEN 0 ELSE f[i - 1] + l[i]]
             h == CHOOSE f : f = Run(f)
  <1>1. N \in Nat /\ 0 \in Nat /\ \A n \in 1..N : l[n] \in Nat
    OBVIOUS
  <1>2. \A n \in 1..N, y \in Nat : F[<<n, y>>] = y + l[n] /\ F[<<n, y>>] \in Nat
    <2> SUFFICES ASSUME NEW n \in 1..N, NEW y \in Nat
                 PROVE  F[<<n, y>>] = y + l[n] /\ F[<<n, y>>] \in Nat
      BY Zenon
    <2>1. <<n, y>> \in (1..N) \X Nat /\ <<n, y>>[1] = n /\ <<n, y>>[2] = y
      OBVIOUS
    <2>2. F[<<n, y>>] = <<n, y>>[2] + l[<<n, y>>[1]]
      BY <2>1, Zenon
    <2>3. F[<<n, y>>] = y + l[n]
      BY <2>1, <2>2, Zenon
    <2>4. l[n] \in Nat
      BY <1>1
    <2> HIDE DEF F
    <2> QED
      BY <2>3, <2>4
  <1> HIDE DEF F
  <1>3. PICK g \in [0..N -> Nat] : IsRun(g, N, 0, F)
    BY <1>1, <1>2, LoopRuns, Zenon
  <1>4. g = Run(g)
    <2>1. ASSUME NEW i \in 0..N
          PROVE  g[i] = IF i = 0 THEN 0 ELSE g[i - 1] + l[i]
      <3>1. CASE i = 0
        BY <1>3, <3>1, Zenon DEF IsRun
      <3>2. CASE i # 0
        <4>0. i \in 1..N /\ i - 1 \in 0..N
          BY <1>1, <3>2
        <4>1. i \in 1..N /\ g[i - 1] \in Nat
          BY <4>0, Zenon
        <4>2. g[i] = F[<<i, g[i - 1]>>]
          BY <1>3, <4>1, Zenon DEF IsRun
        <4> QED
          BY <1>2, <3>2, <4>1, <4>2, Zenon
      <3> QED
        BY <3>1, <3>2
    <2> QED
      BY <2>1, Zenon
  <1>5. h = Run(h)
    BY <1>4, Zenon
  <1>6. Total(l) = h[N]
    BY Zenon DEF Total
  <1> HIDE DEF h
  <1>7. h[0] = 0 /\ \A i \in 1..N : h[i] = h[i - 1] + l[i]
    <2>1. 0 \in 0..N /\ \A i \in 1..N : i \in 0..N /\ i # 0
      BY <1>1
    <2> QED
      BY <1>5, <2>1, Zenon
  <1> DEFINE T == {n \in 0..N : h[n] \in Nat}
  <1>8. 0 \in T
    BY <1>1, <1>7
  <1>9. ASSUME NEW n \in 1..N, n - 1 \in T
        PROVE  n \in T
    BY <1>1, <1>7, <1>9, SMTT(30)
  <1>10. \A n \in 0..N : n \in T
    <2> HIDE DEF T, N
    <2> QED
      BY <1>1, <1>8, <1>9, RoundInduction, Zenon
  <1>11. h \in [0..N -> Nat]
    <2>1. DOMAIN h = 0..N
      BY <1>5, Zenon
    <2>2. h = [i \in 0..N |-> h[i]]
      BY <1>5, <2>1, Zenon
    <2> QED
      BY <1>10, <2>2, Zenon
  <1> QED
    BY <1>6, <1>7, <1>11, Zenon

\* What is beyond the free tier, and what remains of it.
Over(bytes, tier) == IF bytes <= tier THEN 0 ELSE bytes - tier
Left(bytes, tier) == IF bytes <= tier THEN tier - bytes ELSE 0

\* Both are numbers.
LEMMA TierType ==
  ASSUME NEW a \in Nat, NEW tier \in Nat
  PROVE  Over(a, tier) \in Nat /\ Left(a, tier) \in Nat
  BY DEF Over, Left

\* calcWithFreeTier in two steps is calcWithFreeTier of the sum.
LEMMA FreeTier ==
  ASSUME NEW a \in Nat, NEW b \in Nat, NEW tier \in Nat
  PROVE  /\ Over(a + b, tier) = Over(a, tier) + Over(b, Left(a, tier))
         /\ Left(a + b, tier) = Left(b, Left(a, tier))
  BY DEF Over, Left

\* A sum of lengths is a number, and zero when there are none.
LEMMA TotalType ==
  ASSUME NEW l \in Seq(Nat)
  PROVE  Total(l) \in Nat /\ (l = << >> => Total(l) = 0)
  <1>1. PICK g \in [0..Len(l) -> Nat] : g[0] = 0 /\ Total(l) = g[Len(l)]
    BY TotalRuns, Zenon
  <1>2. Len(l) \in 0..Len(l) /\ (l = << >> => Len(l) = 0)
    OBVIOUS
  <1> QED
    BY <1>1, <1>2, Zenon

\* eventAttributeCosts pays for bytes beyond the free tier and for attributes.
LEMMA AttributeCosts ==
  ASSUME NEW attrs \in Seq(Nat), NEW tier \in Nat
  PROVE  /\ eventAttributeCosts(attrs, tier)[1] =
              EventAttributeDataCost * Over(Total(attrs), tier)
                + EventPerAttributeCost * Len(attrs)
         /\ eventAttributeCosts(attrs, tier)[2] = Left(Total(attrs), tier)
         /\ eventAttributeCosts(attrs, tier) \in Nat \X Nat
  <1> DEFINE bytes == Total(attrs)
             cost == EventAttributeDataCost * Over(bytes, tier)
                       + EventPerAttributeCost * Len(attrs)
             e == eventAttributeCosts(attrs, tier)
  <1>1. bytes \in Nat /\ Len(attrs) \in Nat /\ (attrs = << >> => bytes = 0 /\ Len(attrs) = 0)
    BY TotalType
  <1> HIDE DEF bytes
  <1>2. Over(bytes, tier) \in Nat /\ Left(bytes, tier) \in Nat
    BY <1>1, TierType, Zenon
  <1>3. cost \in Nat
    <2>1. /\ EventAttributeDataCost * Over(bytes, tier) \in Nat
          /\ EventPerAttributeCost * Len(attrs) \in Nat
      BY <1>1, <1>2, Product, Numbers, Zenon
    <2> QED
      BY <2>1
  <1>4. CASE attrs = << >>
    <2>1. e = <<0, tier>>
      BY <1>4, Zenon DEF eventAttributeCosts
    <2>2. Over(bytes, tier) = 0 /\ Left(bytes, tier) = tier
      BY <1>1, <1>4 DEF Over, Left
    <2>3. cost = 0
      BY <1>1, <1>4, <2>2, Numbers
    <2> QED
      BY <2>1, <2>2, <2>3 DEF bytes
  <1>5. CASE attrs # << >>
    <2>1. e = <<cost, Left(bytes, tier)>>
      BY <1>5, Zenon DEF eventAttributeCosts, Over, Left, bytes
    <2> HIDE DEF cost
    <2>2. e[1] = cost /\ e[2] = Left(bytes, tier) /\ e \in Nat \X Nat
      BY <1>2, <1>3, <2>1
    <2> QED
      BY <2>2, Zenon DEF bytes, cost
  <1> QED
    BY <1>4, <1>5, Zenon

\* One event in the loop of EventCosts.
EventAdd(acc, e) ==
  LET cost == eventAttributeCosts(e.attributes, acc[2]) IN
  <<acc[1] + CustomEventCost + EventAttributeDataCost * e.type + cost[1], cost[2]>>

Event == [type : Nat, attributes : Seq(Nat)]

\* The costs grow by the event, its type, its attributes and its bytes.
LEMMA EventAddCosts ==
  ASSUME NEW acc \in Nat \X Nat, NEW e \in Event
  PROVE  /\ EventAdd(acc, e)[1] =
              acc[1] + CustomEventCost + EventAttributeDataCost * e.type
                + (EventAttributeDataCost * Over(Total(e.attributes), acc[2])
                   + EventPerAttributeCost * Len(e.attributes))
         /\ EventAdd(acc, e)[2] = Left(Total(e.attributes), acc[2])
         /\ EventAdd(acc, e) \in Nat \X Nat
  <1> DEFINE cost == eventAttributeCosts(e.attributes, acc[2])
             sum == acc[1] + CustomEventCost + EventAttributeDataCost * e.type + cost[1]
  <1>1. /\ acc[1] \in Nat /\ acc[2] \in Nat
        /\ e.type \in Nat /\ e.attributes \in Seq(Nat)
    BY DEF Event
  <1>2. /\ cost[1] = EventAttributeDataCost * Over(Total(e.attributes), acc[2])
                       + EventPerAttributeCost * Len(e.attributes)
        /\ cost[2] = Left(Total(e.attributes), acc[2])
        /\ cost \in Nat \X Nat
    BY <1>1, AttributeCosts, Zenon
  <1>3. EventAdd(acc, e) = <<sum, cost[2]>>
    BY Zenon DEF EventAdd
  <1> HIDE DEF cost
  <1>4. cost[1] \in Nat /\ cost[2] \in Nat
    BY <1>2
  <1>5. sum \in Nat
    <2>1. EventAttributeDataCost * e.type \in Nat
      BY <1>1, Product, Numbers, Zenon
    <2>2. \A i, j, k, l \in Nat : i + j + k + l \in Nat
      OBVIOUS
    <2> QED
      BY <1>1, <1>4, <2>1, <2>2, Numbers, Zenon
  <1>6. sum = acc[1] + CustomEventCost + EventAttributeDataCost * e.type
                + (EventAttributeDataCost * Over(Total(e.attributes), acc[2])
                   + EventPerAttributeCost * Len(e.attributes))
    BY <1>2, Zenon
  <1> HIDE DEF sum
  <1>7. /\ EventAdd(acc, e)[1] = sum /\ EventAdd(acc, e)[2] = cost[2]
        /\ EventAdd(acc, e) \in Nat \X Nat
    BY <1>3, <1>4, <1>5
  <1> QED
    BY <1>2, <1>6, <1>7, Zenon

\* EventCosts is a loop over the events, started with the attributes of the
\* response.
LEMMA EventRuns ==
  ASSUME NEW attrs \in Seq(Nat), NEW events \in Seq(Event)
  PROVE  \E g \in [0..Len(events) -> Nat \X Nat] :
           /\ g[0] = eventAttributeCosts(attrs, EventAttributeDataFreeTier)
           /\ \A i \in 1..Len(events) : g[i] = EventAdd(g[i - 1], events[i])
           /\ EventCosts(attrs, events) = g[Len(events)][1]
  <1> DEFINE N == Len(events)
             S == Nat \X Nat
             x == eventAttributeCosts(attrs, EventAttributeDataFreeTier)
             F == [z \in (1..N) \X S |-> EventAdd(z[2], events[z[1]])]
             Run(f) == [i \in 0..N |-> IF i = 0 THEN x ELSE EventAdd(f[i - 1], events[i])]
             h == CHOOSE f : f = Run(f)
  <1>1. N \in Nat /\ x \in S /\ \A n \in 1..N : events[n] \in Event
    <2>1. x \in S
      BY AttributeCosts, Numbers, Zenon
    <2> HIDE DEF x
    <2> QED
      BY <2>1
  <1> HIDE DEF S
  <1>2. \A n \in 1..N, y \in S : F[<<n, y>>] = EventAdd(y, events[n]) /\ F[<<n, y>>] \in S
    <2> SUFFICES ASSUME NEW n \in 1..N, NEW y \in S
                 PROVE  F[<<n, y>>] = EventAdd(y, events[n]) /\ F[<<n, y>>] \in S
      BY Zenon
    <2>1. <<n, y>> \in (1..N) \X S /\ <<n, y>>[1] = n /\ <<n, y>>[2] = y
      OBVIOUS
    <2>2. F[<<n, y>>] = EventAdd(<<n, y>>[2], events[<<n, y>>[1]])
      BY <2>1, Zenon
    <2>3. F[<<n, y>>] = EventAdd(y, events[n])
      BY <2>1, <2>2, Zenon
    <2>4. EventAdd(y, events[n]) \in S
      BY <1>1, EventAddCosts, Zenon DEF S
    <2> HIDE DEF F
    <2> QED
      BY <2>3, <2>4, Zenon
  <1> HIDE DEF F
  <1>3. PICK g \in [0..N -> S] : IsRun(g, N, x, F)
    BY <1>1, <1>2, LoopRuns, Zenon
  <1>4. g = Run(g)
    <2>1. ASSUME NEW i \in 0..N
          PROVE  g[i] = IF i = 0 THEN x ELSE EventAdd(g[i - 1], events[i])
      <3>1. CASE i = 0
        BY <1>3, <3>1, Zenon DEF IsRun
      <3>2. CASE i # 0
        <4>1. i \in 1..N /\ i - 1 \in 0..N
          BY <1>1, <3>2
        <4>2. g[i - 1] \in S
          BY <4>1, Zenon
        <4>3. g[i] = F[<<i, g[i - 1]>>]
          BY <1>3, <4>1, Zenon DEF IsRun
        <4> QED
          BY <1>2, <3>2, <4>1, <4>2, <4>3, Zenon
      <3> QED
        BY <3>1, <3>2, Zenon
    <2> HIDE DEF x
    <2> QED
      BY <2>1, Zenon
  <1>5. h = Run(h)
    BY <1>4, Zenon
  <1>6. EventCosts(attrs, events) = h[N][1]
    BY Zenon DEF EventCosts, EventAdd
  <1> HIDE DEF h, x
  <1>7. h[0] = x /\ \A i \in 1..N : h[i] = EventAdd(h[i - 1], events[i])
    <2>1. 0 \in 0..N /\ \A i \in 1..N : i \in 0..N /\ i # 0
      BY <1>1
    <2> QED
      BY <1>5, <2>1, Zenon
  <1> DEFINE T == {n \in 0..N : h[n] \in S}
  <1>8. 0 \in T
    <2>1. 0 \in 0..N
      BY <1>1
    <2> QED
      BY <1>1, <1>7, <2>1, Zenon
  <1>9. ASSUME NEW n \in 1..N, n - 1 \in T
        PROVE  n \in T
    <2>1. n \in 0..N
      BY <1>1
    <2>2. EventAdd(h[n - 1], events[n]) \in S
      BY <1>1, <1>9, EventAddCosts, Zenon DEF S
    <2> QED
      BY <1>7, <2>1, <2>2, Zenon
  <1>10. \A n \in 0..N : n \in T
    <2> HIDE DEF T, N
    <2> QED
      BY <1>1, <1>8, <1>9, RoundInduction, Zenon
  <1>11. h \in [0..N -> S]
    <2>1. DOMAIN h = 0..N
      BY <1>5, Zenon
    <2>2. h = [i \in 0..N |-> h[i]]
      BY <1>5, <2>1, Zenon
    <2> QED
      BY <1>10, <2>2, Zenon
  <1> QED
    BY <1>6, <1>7, <1>11, Zenon DEF S, x

\* So its result is a number.
LEMMA EventCostsType ==
  ASSUME NEW attrs \in Seq(Nat), NEW events \in Seq(Event)
  PROVE  EventCosts(attrs, events) \in Nat
  <1>1. PICK g \in [0..Len(events) -> Nat \X Nat] : EventCosts(attrs, events) = g[Len(events)][1]
    BY EventRuns, Zenon
  <1>2. Len(events) \in 0..Len(events)
    OBVIOUS
  <1>3. PICK x \in Nat \X Nat : x = g[Len(events)]
    BY <1>2, Zenon
  <1>4. x[1] \in Nat
    OBVIOUS
  <1> QED
    BY <1>1, <1>3, <1>4, Zenon

\* One more event, priced at once or on top of the others.
LEMMA Distribute ==
  ASSUME NEW d \in Nat, NEW p \in Nat, NEW c \in Nat, NEW over \in Nat, NEW o \in Nat,
         NEW t \in Nat, NEW ty \in Nat, NEW n \in Nat, NEW m \in Nat, NEW i \in Nat
  PROVE  d * (over + t) + p * n + c * (i - 1) + c + d * ty + (d * o + p * m)
           = d * ((over + o) + (t + ty)) + p * (n + m) + c * i
  OBVIOUS

\* EventCosts, which hands what is left of the free tier from the attributes of
\* the response to each event in turn, charges what the events are worth: the
\* free tier is given once, and every event, type, attribute and further byte
\* is paid.
THEOREM EventsChargedAtWorth ==
  ASSUME NEW attrs \in Seq(Nat), NEW events \in Seq(Event)
  PROVE  EventCosts(attrs, events) = EventsWorth(attrs, events)
  <1> DEFINE N == Len(events)
             D == EventAttributeDataCost
             P == EventPerAttributeCost
             C == CustomEventCost
             tier == EventAttributeDataFreeTier
             bs == [i \in DOMAIN events |-> Total(events[i].attributes)]
             ns == [i \in DOMAIN events |-> Len(events[i].attributes)]
             ts == [i \in DOMAIN events |-> events[i].type]
  <1>1. /\ N \in Nat /\ DOMAIN events = 1..N
        /\ \A i \in 1..N : /\ events[i] \in Event
                           /\ events[i].type \in Nat /\ events[i].attributes \in Seq(Nat)
                           /\ Total(events[i].attributes) \in Nat
                           /\ Len(events[i].attributes) \in Nat
    <2>1. N \in Nat /\ DOMAIN events = 1..N
      OBVIOUS
    <2>2. ASSUME NEW i \in 1..N
          PROVE  /\ events[i] \in Event
                 /\ events[i].type \in Nat /\ events[i].attributes \in Seq(Nat)
                 /\ Total(events[i].attributes) \in Nat
                 /\ Len(events[i].attributes) \in Nat
      <3>1. events[i] \in Event
        OBVIOUS
      <3>2. events[i].type \in Nat /\ events[i].attributes \in Seq(Nat)
        BY <3>1, Zenon DEF Event
      <3>3. Total(events[i].attributes) \in Nat
        BY <3>2, TotalType, Zenon
      <3>4. Len(events[i].attributes) \in Nat
        BY <3>2
      <3> QED
        BY <3>1, <3>2, <3>3, <3>4, Zenon
    <2> QED
      BY <2>1, <2>2, Zenon
  <1>2. /\ bs \in Seq(Nat) /\ Len(bs) = N
        /\ ns \in Seq(Nat) /\ Len(ns) = N
        /\ ts \in Seq(Nat) /\ Len(ts) = N
    BY <1>1
  <1>3. \A i \in 1..N : /\ bs[i] = Total(events[i].attributes)
                        /\ ns[i] = Len(events[i].attributes)
                        /\ ts[i] = events[i].type
    BY <1>1, Zenon
  <1>4. EventsWorth(attrs, events) =
          D * (Over(Total(attrs) + Total(bs), tier) + Total(ts))
            + P * (Len(attrs) + Total(ns)) + C * N
    <2>1. Total(attrs) \in Nat /\ Total(bs) \in Nat
      BY <1>2, TotalType, Zenon
    <2>2. PICK bytes \in Nat : bytes = Total(attrs) + Total(bs)
      BY <2>1
    <2>3. Over(bytes, tier) = IF bytes > tier THEN bytes - tier ELSE 0
      BY Numbers DEF Over
    <2> QED
      BY <2>2, <2>3, Zenon DEF EventsWorth
  <1> HIDE DEF bs, ns, ts
  <1>5. PICK b \in [0..N -> Nat] : /\ b[0] = 0 /\ \A i \in 1..N : b[i] = b[i - 1] + bs[i]
                                   /\ Total(bs) = b[N]
    BY <1>2, TotalRuns, Zenon
  <1>6. PICK n \in [0..N -> Nat] : /\ n[0] = 0 /\ \A i \in 1..N : n[i] = n[i - 1] + ns[i]
                                   /\ Total(ns) = n[N]
    BY <1>2, TotalRuns, Zenon
  <1>7. PICK t \in [0..N -> Nat] : /\ t[0] = 0 /\ \A i \in 1..N : t[i] = t[i - 1] + ts[i]
                                   /\ Total(ts) = t[N]
    BY <1>2, TotalRuns, Zenon
  <1>8. PICK g \in [0..N -> Nat \X Nat] :
           /\ g[0] = eventAttributeCosts(attrs, tier)
           /\ \A i \in 1..N : g[i] = EventAdd(g[i - 1], events[i])
           /\ EventCosts(attrs, events) = g[N][1]
    BY EventRuns, Zenon
  <1> DEFINE A == Total(attrs)
             L == Len(attrs)
             Right(i) == /\ g[i][1] = D * (Over(A + b[i], tier) + t[i]) + P * (L + n[i]) + C * i
                         /\ g[i][2] = Left(A + b[i], tier)
             T == {i \in 0..N : Right(i)}
  <1>9. A \in Nat /\ L \in Nat
    BY TotalType
  <1>10. D \in Nat /\ P \in Nat /\ C \in Nat /\ tier \in Nat
    BY Numbers, Zenon
  <1>11. /\ g[0][1] = D * Over(A, tier) + P * L
         /\ g[0][2] = Left(A, tier)
    BY <1>8, <1>10, AttributeCosts, ZenonT(60)
  <1> HIDE DEF A, L, D, P, C, tier, N
  <1>12. 0 \in T
    <2>0. Over(A, tier) \in Nat
      BY <1>9, <1>10, TierType, Zenon
    <2>1. A + 0 = A /\ L + 0 = L /\ Over(A, tier) \in Nat /\ 0 \in 0..N
      BY <1>1, <1>9, <2>0
    <2>2. D * (Over(A, tier) + 0) + P * L + C * 0 = D * Over(A, tier) + P * L
      BY <1>9, <1>10, <2>1
    <2> QED
      BY <1>5, <1>6, <1>7, <1>11, <2>1, <2>2, Zenon
  <1>13. ASSUME NEW i \in 1..N, i - 1 \in T
         PROVE  i \in T
    <2> DEFINE k == i - 1
               e == events[i]
               o == Over(bs[i], Left(A + b[k], tier))
    <2>1. /\ k \in 0..N /\ i \in 0..N /\ i \in Nat
          /\ b[k] \in Nat /\ n[k] \in Nat /\ t[k] \in Nat
      <3>1. k \in 0..N /\ i \in 0..N /\ i \in Nat
        BY <1>1
      <3> HIDE DEF k
      <3> QED
        BY <3>1, Zenon
    <2>2. Right(k) /\ e \in Event /\ g[k] \in Nat \X Nat
      BY <1>1, <1>13, <2>1, Zenon
    <2>3. /\ b[i] = b[k] + bs[i] /\ n[i] = n[k] + ns[i] /\ t[i] = t[k] + ts[i]
          /\ g[i] = EventAdd(g[k], e)
      BY <1>5, <1>6, <1>7, <1>8, Zenon
    <2>4. bs[i] \in Nat /\ ns[i] \in Nat /\ ts[i] \in Nat
      BY <1>1, <1>3, Zenon
    <2>5. /\ g[i][1] = g[k][1] + C + D * ts[i] + (D * Over(bs[i], g[k][2]) + P * ns[i])
          /\ g[i][2] = Left(bs[i], g[k][2])
      <3> HIDE DEF k
      <3>1. /\ EventAdd(g[k], e)[1] = g[k][1] + C + D * e.type
                 + (D * Over(Total(e.attributes), g[k][2]) + P * Len(e.attributes))
            /\ EventAdd(g[k], e)[2] = Left(Total(e.attributes), g[k][2])
        <4> HIDE DEF e
        <4> QED
          BY <2>2, EventAddCosts, Zenon DEF C, D, P
      <3> QED
        BY <1>3, <2>3, <3>1, Zenon
    <2> HIDE DEF k, e, T
    <2>6. PICK a \in Nat : a = A + b[k]
      BY <1>9, <2>1
    <2>7. A + b[i] = a + bs[i]
      BY <1>9, <2>1, <2>3, <2>4, <2>6, SMTT(30)
    <2>8. /\ Over(a, tier) \in Nat /\ o \in Nat
          /\ Over(a + bs[i], tier) = Over(a, tier) + o
          /\ Left(a + bs[i], tier) = Left(bs[i], Left(a, tier))
      <3>1. Left(a, tier) \in Nat /\ Over(a, tier) \in Nat
        BY <1>10, TierType, Zenon
      <3>2. o = Over(bs[i], Left(a, tier))
        BY <2>6, Zenon
      <3> HIDE DEF o
      <3>3. o \in Nat
        BY <2>4, <3>1, <3>2, TierType, Zenon
      <3>4. /\ Over(a + bs[i], tier) = Over(a, tier) + Over(bs[i], Left(a, tier))
            /\ Left(a + bs[i], tier) = Left(bs[i], Left(a, tier))
        BY <1>10, <2>4, FreeTier, ZenonT(60)
      <3> QED
        BY <3>1, <3>2, <3>3, <3>4, Zenon
    <2>9. L + n[k] \in Nat /\ L + n[i] = (L + n[k]) + ns[i]
      BY <1>9, <2>1, <2>3, <2>4, SMTT(60)
    <2>10. g[i][1] = D * (Over(a, tier) + t[k]) + P * (L + n[k]) + C * (i - 1) + C
                       + D * ts[i] + (D * o + P * ns[i])
      BY <2>2, <2>5, <2>6, Zenon DEF k
    <2> HIDE DEF o
    <2>11. g[i][1] = D * ((Over(a, tier) + o) + (t[k] + ts[i])) + P * ((L + n[k]) + ns[i]) + C * i
      <3>1. PICK v \in Nat : v = Over(a, tier)
        BY <2>8, Zenon
      <3>2. PICK x \in Nat : x = t[k]
        BY <2>1, Zenon
      <3>3. PICK y \in Nat : y = L + n[k]
        BY <2>9, Zenon
      <3>4. PICK m \in Nat : m = ns[i]
        BY <2>4, Zenon
      <3>5. PICK ty \in Nat : ty = ts[i]
        BY <2>4, Zenon
      <3>6. D * (v + x) + P * y + C * (i - 1) + C + D * ty + (D * o + P * m)
            = D * ((v + o) + (x + ty)) + P * (y + m) + C * i
        BY <1>10, <2>1, <2>8, Distribute
      <3>7. D * (Over(a, tier) + t[k]) + P * (L + n[k]) + C * (i - 1) + C
              + D * ts[i] + (D * o + P * ns[i])
            = D * ((Over(a, tier) + o) + (t[k] + ts[i])) + P * ((L + n[k]) + ns[i]) + C * i
        BY <3>1, <3>2, <3>3, <3>4, <3>5, <3>6, Zenon
      <3> QED
        BY <2>10, <3>7, Zenon
    <2>12. g[i][1] = D * (Over(A + b[i], tier) + t[i]) + P * (L + n[i]) + C * i
      BY <2>3, <2>7, <2>8, <2>9, <2>11, Zenon
    <2>13. g[i][2] = Left(A + b[i], tier)
      BY <2>2, <2>5, <2>6, <2>7, <2>8, Zenon
    <2> QED
      BY <2>1, <2>12, <2>13, Zenon DEF T
  <1> HIDE DEF T
  <1>14. N \in T
    <2>1. N \in 0..N
      BY <1>1
    <2> QED
      BY <1>1, <1>12, <1>13, <2>1, RoundInduction, Zenon
  <1> QED
    BY <1>4, <1>5, <1>6, <1>7, <1>8, <1>14, Zenon DEF T, A, L

----------------------------------------------------------------------------
(* A call and its gas.                                                     *)

Call ==
  [limit : Nat, consumed : Nat, size : Nat,
   internal : Nat, external : Nat, vmLimit : Nat]

\* A call whose contract runs: the meter is within its limit, the VM within its
\* own, and what the VM may still report is what the meter has left, up to a
\* multiple of the word.
Sound(c) ==
  /\ c.consumed <= c.limit
  /\ c.internal + c.external <= c.vmLimit /\ c.vmLimit < Word
  /\ \E q \in Int : GasMultiplier * (c.limit - c.consumed) = c.vmLimit - c.external + q * Word

\* What was done for a call, itself and its finished queries, is charged to its
\* meter or still counted by its VM, or its limit is reached; f VMs have ended.
Covered(c, w, f) ==
  \/ w <= GasMultiplier * (c.consumed + f) + c.internal
  \/ GasMultiplier * c.limit <= GasMultiplier * (c.consumed + f) + c.internal

\* The same for a call whose own VM has ended or never started.
Settled(c, w, f) ==
  /\ c.internal = 0
  /\ w <= GasMultiplier * (c.consumed + f) \/ c.limit < c.consumed + f

\* A call in either state, with a limit whose conversion does not overflow.
Owes(c, w, f) == GasMultiplier * c.limit < Word => Covered(c, w, f)
Paid(c, w, f) == GasMultiplier * c.limit < Word => Settled(c, w, f)

\* The gas of a call as numbers.
LEMMA CallFields ==
  ASSUME NEW c \in Call
  PROVE  /\ c.limit \in Nat /\ c.consumed \in Nat /\ c.internal \in Nat
         /\ c.external \in Nat /\ c.vmLimit \in Nat /\ c.size \in Nat
         /\ Remaining(c) = c.vmLimit - c.internal - c.external
  BY Zenon DEF Call, Remaining

\* While a contract runs, the meter can pay what it counted, what the VM used
\* and what the VM has left; below the word it has exactly that.
LEMMA SoundPays ==
  ASSUME NEW c \in Call, Sound(c)
  PROVE  /\ Remaining(c) \in Nat /\ Remaining(c) < Word
         /\ GasMultiplier * c.consumed + c.internal + Remaining(c) <= GasMultiplier * c.limit
         /\ GasMultiplier * c.limit < Word =>
              GasMultiplier * c.consumed + c.internal + Remaining(c) = GasMultiplier * c.limit
  <1>1. PICK limit \in Nat : limit = c.limit
    BY CallFields, Zenon
  <1>2. PICK used \in Nat : used = c.consumed
    BY CallFields, Zenon
  <1>3. PICK int \in Nat : int = c.internal
    BY CallFields, Zenon
  <1>4. PICK ext \in Nat : ext = c.external
    BY CallFields, Zenon
  <1>5. PICK vm \in Nat : vm = c.vmLimit
    BY CallFields, Zenon
  <1>6. Remaining(c) = vm - int - ext
    BY <1>3, <1>4, <1>5, CallFields, Zenon
  <1>7. PICK q \in Int : GasMultiplier * (limit - used) = vm - ext + q * Word
    BY <1>1, <1>2, <1>4, <1>5, Zenon DEF Sound
  <1>8. used <= limit /\ int + ext <= vm /\ vm < Word
    BY <1>1, <1>2, <1>3, <1>4, <1>5, Zenon DEF Sound
  <1>9. PICK a \in Nat : a = GasMultiplier * limit
    BY GasType
  <1>10. PICK b \in Nat : b = GasMultiplier * used
    BY GasType
  <1>11. PICK m \in Int : m = q * Word
    BY Numbers
  <1>12. GasMultiplier * (limit - used) = a - b /\ b <= a
    BY <1>8, <1>9, <1>10, GasOrder, Numbers
  <1>13. a - b = vm - ext + m
    BY <1>7, <1>11, <1>12
  <1>14. m >= 0
    <2>1. m > -Word
      BY <1>8, <1>12, <1>13, Numbers
    <2> QED
      BY <1>11, <2>1, SmallMultiple, Numbers
  <1>15. a < Word => m <= 0
    <2> SUFFICES ASSUME a < Word PROVE m <= 0
      OBVIOUS
    <2>1. m < Word
      BY <1>8, <1>13, Numbers
    <2> QED
      BY <1>11, <2>1, SmallMultiple, Numbers
  <1>16. /\ vm - int - ext \in Nat /\ vm - int - ext < Word
         /\ b + int + (vm - int - ext) <= a
         /\ a < Word => b + int + (vm - int - ext) = a
    BY <1>8, <1>13, <1>14, <1>15, Numbers
  <1> QED
    BY <1>1, <1>2, <1>3, <1>6, <1>9, <1>10, <1>16, Zenon

\* QueryHandler.Query gives a query what the VM of its caller has left, less
\* than one SDK gas short of it.
LEMMA SubLimitFits ==
  ASSUME NEW c \in Call, Sound(c)
  PROVE  /\ SubLimit(c) \in Nat
         /\ GasMultiplier * SubLimit(c) <= Remaining(c)
         /\ Remaining(c) < GasMultiplier * (SubLimit(c) + 1)
         /\ GasMultiplier * SubLimit(c) < Word
  <1>1. PICK r \in Nat : r = Remaining(c) /\ r < Word
    BY SoundPays, Zenon
  <1>2. PICK l \in Nat : /\ l = SubLimit(c)
                         /\ GasMultiplier * l <= r /\ r < GasMultiplier * (l + 1)
    BY <1>1, RoundsDown, Zenon DEF SubLimit
  <1>3. GasMultiplier * l < Word
    <2>1. PICK g \in Nat : g = GasMultiplier * l
      BY GasType
    <2>2. g < Word
      BY <1>1, <1>2, <2>1, Numbers
    <2> QED
      BY <2>1, <2>2, Zenon
  <1> QED
    BY <1>1, <1>2, <1>3, Zenon

\* What a callback tells the VM is the gas it used, up to a multiple of the word.
LEMMA Told ==
  ASSUME NEW before \in Nat, NEW n \in Nat
  PROVE  /\ GasTold(before, before + n) \in 0..(Word - 1)
         /\ \E q \in Int : GasMultiplier * n = GasTold(before, before + n) + q * Word
  <1>1. PICK x \in Nat : x = (before + n) * GasMultiplier
    BY Numbers
  <1>2. PICK y \in Nat : y = before * GasMultiplier
    BY Numbers
  <1>3. GasMultiplier * n = x - y
    BY <1>1, <1>2, Numbers
  <1>4. GasTold(before, before + n) = ((x % Word) - (y % Word)) % Word
    BY <1>1, <1>2, Zenon DEF GasTold, ToWasmVMGas
  <1>5. \E q \in Int : x - y = (((x % Word) - (y % Word)) % Word) + q * Word
    <2>1. x \in Int /\ y \in Int
      OBVIOUS
    <2> QED
      BY <2>1, RemainderOfDifference, Numbers, Zenon
  <1>6. ((x % Word) - (y % Word)) % Word \in 0..(Word - 1)
    <2>1. PICK a \in Int : a = x % Word
      BY Division, Numbers
    <2>2. PICK b \in Int : b = y % Word
      BY Division, Numbers
    <2>3. (a - b) % Word \in 0..(Word - 1)
      BY Division, Numbers
    <2> QED
      BY <2>1, <2>2, <2>3, Zenon
  <1> QED
    BY <1>3, <1>4, <1>5, <1>6, Zenon

\* The meter of call c counts n more and nothing else happens to the call,
\* except that the VM's own gas may be cut where the limit is reached.
Charged(c, r, n) ==
  /\ r \in Call /\ r.consumed = c.consumed + n
  /\ r.limit = c.limit /\ r.size = c.size
  /\ \/ r.internal = c.internal
     \/ GasMultiplier * c.limit < Word =>
          GasMultiplier * c.limit <= GasMultiplier * r.consumed + r.internal

\* A callback that returns to the contract charges its gas, also where it ends
\* the run of the VM.
LEMMA CalledCharges ==
  ASSUME NEW c \in Call, Sound(c), NEW n \in Nat
  PROVE  /\ Charged(c, Called(c, n).call, n)
         /\ Called(c, n).step \in {"run", "vmErr"}
         /\ Called(c, n).step = "run" => Sound(Called(c, n).call)
  <1>1. PICK limit \in Nat : limit = c.limit
    BY CallFields, Zenon
  <1>2. PICK used \in Nat : used = c.consumed
    BY CallFields, Zenon
  <1>3. PICK int \in Nat : int = c.internal
    BY CallFields, Zenon
  <1>4. PICK ext \in Nat : ext = c.external
    BY CallFields, Zenon
  <1>5. PICK vm \in Nat : vm = c.vmLimit
    BY CallFields, Zenon
  <1>6. used <= limit /\ int + ext <= vm /\ vm < Word
    BY <1>1, <1>2, <1>3, <1>4, <1>5, Zenon DEF Sound
  <1>7. PICK after \in Nat : after = used + n
    OBVIOUS
  <1>8. PICK told \in Nat : /\ told = GasTold(used, after) /\ told < Word
                            /\ \E q \in Int : GasMultiplier * n = told + q * Word
    <2>1. /\ GasTold(used, after) \in 0..(Word - 1)
          /\ \E q \in Int : GasMultiplier * n = GasTold(used, after) + q * Word
      BY <1>7, Told, Zenon
    <2>2. GasTold(used, after) \in Nat /\ GasTold(used, after) < Word
      BY <2>1, Numbers
    <2> QED
      BY <2>1, <2>2, Zenon
  <1>9. PICK left \in Int : left = vm - int - ext - told
    OBVIOUS
  <1>10. Remaining(c) - told = left
    BY <1>3, <1>4, <1>5, <1>9, CallFields, Zenon
  <1> DEFINE panics == after > limit \/ Overflows(after)
  <1>11. CASE panics
    <2>1. Called(c, n) = [call |-> [c EXCEPT !.consumed = after], step |-> "vmErr"]
      BY <1>1, <1>2, <1>7, <1>11, Zenon DEF Called
    <2>2. PICK r : r = [c EXCEPT !.consumed = after]
      BY Zenon
    <2>3. /\ r \in Call /\ r.consumed = after /\ r.limit = c.limit /\ r.size = c.size
          /\ r.internal = c.internal
      BY <2>2, Zenon DEF Call
    <2>4. Called(c, n).call = r /\ Called(c, n).step = "vmErr"
      <3>1. Called(c, n) = [call |-> r, step |-> "vmErr"]
        BY <2>1, <2>2, Zenon
      <3> QED
        BY <3>1
    <2>5. Charged(c, r, n)
      BY <1>2, <1>7, <2>3, Zenon DEF Charged
    <2> QED
      BY <2>4, <2>5
  <1>12. CASE ~panics /\ left < 0
    <2> DEFINE int1 == IF int + left > 0 THEN int + left ELSE 0
    <2>1. Called(c, n) = [call |-> [c EXCEPT !.consumed = after, !.external = @ + told,
                                             !.internal = IF @ + left > 0 THEN @ + left ELSE 0],
                          step |-> "vmErr"]
      BY <1>1, <1>2, <1>7, <1>8, <1>10, <1>12, Zenon DEF Called
    <2>2. int1 \in Nat /\ ext + told \in Nat /\ int1 >= int + left
      OBVIOUS
    <2>3. PICK r : r = [c EXCEPT !.consumed = after, !.external = ext + told, !.internal = int1]
      OBVIOUS
    <2>4. Called(c, n).call = r /\ Called(c, n).step = "vmErr"
      <3>1. Called(c, n) = [call |-> r, step |-> "vmErr"]
        BY <1>3, <1>4, <2>1, <2>3, Zenon
      <3> QED
        BY <3>1
    <2> HIDE DEF int1
    <2>5. /\ r \in Call /\ r.consumed = after /\ r.limit = c.limit /\ r.size = c.size
          /\ r.internal = int1
      BY <2>2, <2>3, Zenon DEF Call
    <2>6. GasMultiplier * limit < Word =>
            GasMultiplier * limit <= GasMultiplier * after + int1
      <3> SUFFICES ASSUME GasMultiplier * limit < Word
                   PROVE  GasMultiplier * limit <= GasMultiplier * after + int1
        OBVIOUS
      <3>1. PICK a \in Nat : a = GasMultiplier * limit
        BY GasType
      <3>2. PICK b \in Nat : b = GasMultiplier * used
        BY GasType
      <3>3. PICK g \in Nat : g = GasMultiplier * n
        BY GasType
      <3>4. b + int + (vm - int - ext) = a
        BY <1>1, <1>2, <1>3, <1>4, <1>5, <3>1, <3>2, SoundPays, CallFields, Zenon
      <3>5. GasMultiplier * after = b + g
        BY <1>7, <3>2, <3>3, Numbers
      <3>6. g < Word
        <4>1. n <= limit
          BY <1>7, <1>12
        <4>2. g <= a
          BY <3>1, <3>3, <4>1, GasOrder
        <4> QED
          BY <3>1, <4>2, Numbers
      <3>7. told = g
        <4>1. PICK q \in Int : g = told + q * Word
          BY <1>8, <3>3, Zenon
        <4>2. PICK m \in Int : m = q * Word
          BY Numbers
        <4>3. m > -Word /\ m < Word
          BY <1>8, <3>6, <4>1, <4>2, Numbers
        <4>4. m = 0
          BY <4>2, <4>3, SmallMultiple, Numbers
        <4> QED
          BY <4>1, <4>2, <4>4
      <3>8. a <= (b + g) + int1
        BY <1>9, <2>2, <3>4, <3>7
      <3> QED
        BY <3>1, <3>5, <3>8, Zenon
    <2>7. Charged(c, r, n)
      BY <1>1, <1>2, <1>7, <2>5, <2>6, Zenon DEF Charged
    <2> QED
      BY <2>4, <2>7
  <1>13. CASE ~panics /\ ~(left < 0)
    <2>1. Called(c, n) = [call |-> [c EXCEPT !.consumed = after, !.external = @ + told],
                          step |-> "run"]
      BY <1>1, <1>2, <1>7, <1>8, <1>10, <1>13, Zenon DEF Called
    <2>2. PICK e \in Nat : e = ext + told
      OBVIOUS
    <2>3. PICK r : r = [c EXCEPT !.consumed = after, !.external = e]
      OBVIOUS
    <2>4. Called(c, n).call = r /\ Called(c, n).step = "run"
      <3>1. Called(c, n) = [call |-> r, step |-> "run"]
        BY <1>4, <2>1, <2>2, <2>3, Zenon
      <3> QED
        BY <3>1
    <2>5. /\ r \in Call /\ r.consumed = after /\ r.limit = c.limit /\ r.size = c.size
          /\ r.internal = c.internal
          /\ r.external = e /\ r.vmLimit = c.vmLimit
      BY <2>3, Zenon DEF Call
    <2>6. Charged(c, r, n)
      BY <1>2, <1>7, <2>5, Zenon DEF Charged
    <2>7. after <= limit /\ int + e <= vm
      BY <1>9, <1>13, <2>2
    <2>8. \E q \in Int : GasMultiplier * (limit - after) = vm - e + q * Word
      <3>1. PICK p \in Int : GasMultiplier * (limit - used) = vm - ext + p * Word
        BY <1>1, <1>2, <1>4, <1>5, Zenon DEF Sound
      <3>2. PICK s \in Int : GasMultiplier * n = told + s * Word
        BY <1>8, Zenon
      <3>3. PICK q \in Int : q = p - s
        OBVIOUS
      <3>4. GasMultiplier * (limit - after) = GasMultiplier * (limit - used) - GasMultiplier * n
        BY <1>7, Numbers
      <3>5. q * Word = p * Word - s * Word
        BY <3>3, Numbers
      <3>6. GasMultiplier * (limit - after) = vm - e + q * Word
        <4>1. PICK u \in Int : u = p * Word
          BY Numbers
        <4>2. PICK v \in Int : v = s * Word
          BY Numbers
        <4> QED
          BY <2>2, <3>1, <3>2, <3>4, <3>5, <4>1, <4>2
      <3> QED
        BY <3>6, Zenon
    <2>9. Sound(r)
      BY <1>1, <1>3, <1>5, <1>6, <2>5, <2>7, <2>8, Zenon DEF Sound
    <2> QED
      BY <2>4, <2>6, <2>9
  <1> QED
    BY <1>11, <1>12, <1>13, Zenon

\* A callback that is charged keeps its call covered.
LEMMA ChargedCovers ==
  ASSUME NEW c \in Call, NEW n \in Nat, NEW r, Charged(c, r, n),
         NEW w \in Int, NEW f \in Nat, Owes(c, w, f)
  PROVE  Owes(r, w + GasMultiplier * n, f)
  <1> SUFFICES ASSUME GasMultiplier * r.limit < Word
               PROVE  Covered(r, w + GasMultiplier * n, f)
    BY Zenon DEF Owes
  <1>1. PICK limit \in Nat : limit = c.limit
    BY CallFields, Zenon
  <1>2. PICK used \in Nat : used = c.consumed
    BY CallFields, Zenon
  <1>3. PICK int \in Nat : int = c.internal
    BY CallFields, Zenon
  <1>4. PICK int1 \in Nat : int1 = r.internal
    BY CallFields, Zenon DEF Charged
  <1>5. r.limit = limit /\ r.consumed = used + n
    BY <1>1, <1>2, Zenon DEF Charged
  <1>6. PICK a \in Nat : a = GasMultiplier * limit
    BY GasType
  <1>7. PICK b \in Nat : b = GasMultiplier * (used + f)
    BY GasType
  <1>8. PICK g \in Nat : g = GasMultiplier * n
    BY GasType
  <1>9. PICK d \in Nat : d = GasMultiplier * f
    BY GasType
  <1>10. GasMultiplier * (used + n + f) = b + g /\ GasMultiplier * (used + n) = b + g - d
    BY <1>7, <1>8, <1>9, Numbers
  <1>11. w <= b + int \/ a <= b + int
    BY <1>1, <1>2, <1>3, <1>5, <1>6, <1>7, Zenon DEF Owes, Covered
  <1>12. int1 = int \/ a <= b + g - d + int1
    BY <1>1, <1>2, <1>3, <1>4, <1>5, <1>6, <1>10, Zenon DEF Charged
  <1>13. w + g <= b + g + int1 \/ a <= b + g + int1
    BY <1>11, <1>12
  <1> QED
    BY <1>4, <1>5, <1>6, <1>8, <1>10, <1>13, Zenon DEF Covered

\* So does a query: what it did is charged with it, and if it reached its limit
\* its caller reaches its own.
LEMMA QueryCovers ==
  ASSUME NEW c \in Call, Sound(c), NEW d \in Call, d.limit = SubLimit(c),
         NEW r, Charged(c, r, d.consumed),
         NEW w \in Int, NEW f \in Nat, Owes(c, w, f),
         NEW v \in Int, NEW e \in Nat, Paid(d, v, e)
  PROVE  Owes(r, w + v, f + e)
  <1> SUFFICES ASSUME GasMultiplier * r.limit < Word
               PROVE  Covered(r, w + v, f + e)
    BY Zenon DEF Owes
  <1>1. PICK limit \in Nat : limit = c.limit
    BY CallFields, Zenon
  <1>2. PICK used \in Nat : used = c.consumed
    BY CallFields, Zenon
  <1>3. PICK int \in Nat : int = c.internal
    BY CallFields, Zenon
  <1>4. PICK int1 \in Nat : int1 = r.internal
    BY CallFields, Zenon DEF Charged
  <1>5. PICK n \in Nat : n = d.consumed
    BY CallFields, Zenon
  <1>6. PICK l \in Nat : l = d.limit
    BY CallFields, Zenon
  <1>7. PICK rem \in Nat : rem = Remaining(c)
    BY SoundPays, Zenon
  <1>8. r.limit = limit /\ r.consumed = used + n
    BY <1>1, <1>2, <1>5, Zenon DEF Charged
  <1>9. PICK a \in Nat : a = GasMultiplier * limit
    BY GasType
  <1>10. PICK b \in Nat : b = GasMultiplier * used
    BY GasType
  <1>11. PICK g \in Nat : g = GasMultiplier * (n + e)
    BY GasType
  <1>12. PICK h \in Nat : h = GasMultiplier * f
    BY GasType
  <1>13. PICK x \in Nat : x = GasMultiplier * e
    BY GasType
  <1>14. /\ GasMultiplier * (used + n + (f + e)) = b + g + h
         /\ GasMultiplier * (used + n) = b + g - x
         /\ GasMultiplier * (used + f) = b + h
    BY <1>10, <1>11, <1>12, <1>13, Numbers
  <1>15. int1 = int \/ a <= b + g - x + int1
    BY <1>1, <1>3, <1>4, <1>8, <1>9, <1>14, Zenon DEF Charged
  <1>16. w <= b + h + int \/ a <= b + h + int
    BY <1>1, <1>2, <1>3, <1>8, <1>9, <1>14, Zenon DEF Owes, Covered
  <1>17. b + int + rem = a
    BY <1>1, <1>2, <1>3, <1>7, <1>8, <1>9, <1>10, SoundPays, Zenon
  <1>18. rem < GasMultiplier * (l + 1) /\ GasMultiplier * l < Word
    BY <1>6, <1>7, SubLimitFits, Zenon
  <1>19. v <= g \/ l < n + e
    BY <1>5, <1>6, <1>11, <1>18, Zenon DEF Paid, Settled
  <1>20. l < n + e => rem < g
    <2> SUFFICES ASSUME l < n + e PROVE rem < g
      OBVIOUS
    <2>1. GasMultiplier * (l + 1) <= GasMultiplier * (n + e)
      BY GasOrder
    <2>2. PICK y \in Nat : y = GasMultiplier * (l + 1)
      BY GasType
    <2> QED
      BY <1>11, <1>18, <2>1, <2>2
  <1>21. w + v <= b + g + h + int1 \/ a <= b + g + h + int1
    BY <1>15, <1>16, <1>17, <1>19, <1>20
  <1> QED
    BY <1>4, <1>8, <1>9, <1>14, <1>21, Zenon DEF Covered

----------------------------------------------------------------------------
(* The invariant.                                                          *)

Returned == {"answers", "errs", "panics"}

TypeInv ==
  /\ calls \in Seq(Call)
  /\ step \in {"idle", "run", "vmOk", "vmErr"} \cup Returned
  /\ step = "idle" <=> calls = << >>
  /\ loaded \in (SUBSET Checksum) \cup {NoContracts}
  /\ work \in Nat /\ finished \in Nat

\* The stack size in the context of a call is its depth.
Nested ==
  \A k \in 1..Len(calls) :
    /\ calls[k].size = IF loaded = NoContracts THEN k ELSE k - 1
    /\ calls[k].size <= maxQueryStackSize

\* Callers run and gave their query all that their VM had left.
Waiting ==
  \A k \in 1..Len(calls) :
    /\ k < Len(calls) => Sound(calls[k]) /\ calls[k + 1].limit = SubLimit(calls[k])
    /\ k = Len(calls) /\ step = "run" => Sound(calls[k])

\* The innermost call, which may have returned.
TopOwes(st, c, w, f) == IF st \in Returned THEN Paid(c, w, f) ELSE Owes(c, w, f)

\* The work and the ended VMs, shared out among the calls of q: those of the
\* first k calls are W[k] and F[k].
SharesOf(W, F, q, st, wk, fin) ==
  /\ W \in [0..Len(q) -> Nat] /\ F \in [0..Len(q) -> Nat]
  /\ W[0] = 0 /\ F[0] = 0 /\ W[Len(q)] = wk /\ F[Len(q)] = fin
  /\ \A k \in 1..Len(q) :
       /\ F[k - 1] <= F[k]
       /\ k < Len(q) => Owes(q[k], W[k] - W[k - 1], F[k] - F[k - 1])
       /\ k = Len(q) => TopOwes(st, q[k], W[k] - W[k - 1], F[k] - F[k - 1])

\* The contracts that will get the discount and that the VM has not run yet.
Unrun(known, r) == IF known = NoContracts THEN {} ELSE known \ r

\* A set has at most k elements.
AtMost(S, k) == \E f : \A x \in S : \E i \in 1..k : f[i] = x

\* The work w and the loads that the contracts of S may still cost beyond what
\* they will be charged are at most wk.
Credit(S, w, wk) ==
  \E k \in Nat : AtMost(S, k) /\ w + GasMultiplier * (InstanceCost * k) <= wk

Backlog == IF calls = << >> THEN {} ELSE Unrun(loaded, ran)

\* What the calls have to pay for covers the work and the loads to come.
Shares ==
  \E wk \in Nat : /\ Credit(Backlog, work, wk)
                  /\ \E W, F : SharesOf(W, F, calls, step, wk, finished)

IInv == TypeInv /\ Nested /\ Waiting /\ Shares

\* When the last of m calls changes, is added or becomes the last one, the
\* others keep their shares and it has the rest.
LastHasRest(W, F, q, st, q2, st2, wk2, fin2, m) ==
  /\ q \in Seq(Call) /\ q2 \in Seq(Call) /\ wk2 \in Nat /\ fin2 \in Nat
  /\ m \in Nat \ {0} /\ m = Len(q2) /\ m - 1 <= Len(q)
  /\ \A k \in 1..(m - 1) : q2[k] = q[k]
  /\ m - 1 = Len(q) => st \notin Returned
  /\ F[m - 1] <= fin2
  /\ TopOwes(st2, q2[m], wk2 - W[m - 1], fin2 - F[m - 1])

\* Then the shares of the new stack account for all work.
LEMMA SharesStep ==
  ASSUME NEW q, NEW st, NEW wk, NEW fin, NEW W, NEW F, SharesOf(W, F, q, st, wk, fin),
         NEW q2, NEW st2, NEW wk2, NEW fin2, NEW m,
         LastHasRest(W, F, q, st, q2, st2, wk2, fin2, m)
  PROVE  \E W2, F2 : SharesOf(W2, F2, q2, st2, wk2, fin2)
  <1>0. /\ q \in Seq(Call) /\ q2 \in Seq(Call) /\ wk2 \in Nat /\ fin2 \in Nat
        /\ m \in Nat \ {0} /\ m = Len(q2) /\ m - 1 <= Len(q)
        /\ \A k \in 1..(m - 1) : q2[k] = q[k]
        /\ m - 1 = Len(q) => st \notin Returned
        /\ F[m - 1] <= fin2
        /\ TopOwes(st2, q2[m], wk2 - W[m - 1], fin2 - F[m - 1])
    BY Zenon DEF LastHasRest
  <1> DEFINE W2 == [i \in 0..m |-> IF i = m THEN wk2 ELSE W[i]]
             F2 == [i \in 0..m |-> IF i = m THEN fin2 ELSE F[i]]
  <1>1. Len(q) \in Nat
    BY <1>0
  <1>2. \A i \in 0..m : i # m => i \in 0..Len(q) /\ i <= m - 1
    BY <1>0, <1>1
  <1>3. W \in [0..Len(q) -> Nat] /\ F \in [0..Len(q) -> Nat] /\ W[0] = 0 /\ F[0] = 0
    BY Zenon DEF SharesOf
  <1>4. W2 \in [0..m -> Nat] /\ F2 \in [0..m -> Nat]
    BY <1>0, <1>2, <1>3, Zenon
  <1>5. m \in 0..m /\ 0 \in 0..m /\ 0 # m
    BY <1>0
  <1>6. W2[m] = wk2 /\ F2[m] = fin2 /\ W2[0] = 0 /\ F2[0] = 0
    BY <1>0, <1>3, <1>5, Zenon
  <1>7. \A i \in 0..m : i # m => W2[i] = W[i] /\ F2[i] = F[i]
    BY Zenon
  <1> HIDE DEF W2, F2
  <1>8. ASSUME NEW k \in 1..m
        PROVE  /\ F2[k - 1] <= F2[k]
               /\ k < m => Owes(q2[k], W2[k] - W2[k - 1], F2[k] - F2[k - 1])
               /\ k = m => TopOwes(st2, q2[k], W2[k] - W2[k - 1], F2[k] - F2[k - 1])
    <2>1. k - 1 \in 0..m /\ k - 1 # m /\ k \in 0..m
      BY <1>0
    <2>2. W2[k - 1] = W[k - 1] /\ F2[k - 1] = F[k - 1]
      BY <1>7, <2>1, Zenon
    <2>3. CASE k = m
      <3>1. ~(k < m)
        BY <1>0, <2>3
      <3> QED
        BY <1>0, <1>6, <2>2, <2>3, <3>1, Zenon
    <2>4. CASE k # m
      <3>1. k \in 1..(m - 1) /\ k \in 1..Len(q) /\ (k < Len(q) \/ (k = Len(q) /\ m - 1 = Len(q)))
        BY <1>0, <1>1, <2>4
      <3>2. W2[k] = W[k] /\ F2[k] = F[k] /\ q2[k] = q[k]
        BY <1>0, <1>7, <2>1, <2>4, <3>1, Zenon
      <3>3. F[k - 1] <= F[k] /\ Owes(q[k], W[k] - W[k - 1], F[k] - F[k - 1])
        BY <1>0, <3>1, Zenon DEF SharesOf, TopOwes
      <3> QED
        BY <2>2, <2>4, <3>2, <3>3, Zenon
    <2> QED
      BY <2>3, <2>4, Zenon
  <1>9. SharesOf(W2, F2, q2, st2, wk2, fin2)
    BY <1>0, <1>4, <1>6, <1>8, Zenon DEF SharesOf
  <1> QED
    BY <1>9, Zenon

\* The innermost call becomes c.
Retop(c) ==
  /\ calls' \in Seq(Call) /\ Len(calls') = Len(calls) /\ calls'[Len(calls)] = c
  /\ \A k \in 1..(Len(calls) - 1) : calls'[k] = calls[k]

\* What SetTop does, or leaving the calls alone.
LEMMA SetTopIs ==
  ASSUME calls \in Seq(Call), calls # << >>, NEW c \in Call,
         SetTop(c) \/ (c = Top /\ UNCHANGED calls)
  PROVE  Retop(c)
  <1>1. Len(calls) \in Nat \ {0} /\ DOMAIN calls = 1..Len(calls)
    OBVIOUS
  <1>2. CASE SetTop(c)
    <2>1. calls' = [calls EXCEPT ![Len(calls)] = c]
      BY <1>2, Zenon DEF SetTop
    <2>2. PICK q \in Seq(Call) : q = calls
      BY Zenon
    <2>3. PICK r : r = calls'
      BY Zenon
    <2>4. q # << >> /\ r = [q EXCEPT ![Len(q)] = c]
      BY <2>1, <2>2, <2>3, Zenon
    <2>5. /\ r \in Seq(Call) /\ Len(r) = Len(q) /\ r[Len(q)] = c
          /\ \A k \in 1..(Len(q) - 1) : r[k] = q[k]
      BY <2>4
    <2> QED
      BY <2>2, <2>3, <2>5, Zenon DEF Retop
  <1>3. CASE c = Top /\ UNCHANGED calls
    BY <1>1, <1>3 DEF Top, Retop
  <1> QED
    BY <1>2, <1>3, Zenon

\* The innermost call while there is one.
LEMMA TopFacts ==
  ASSUME IInv, step # "idle"
  PROVE  /\ calls \in Seq(Call) /\ calls # << >> /\ Len(calls) \in Nat \ {0}
         /\ Top \in Call /\ Top = calls[Len(calls)]
         /\ step = "run" => Sound(Top)
  <1>1. calls \in Seq(Call) /\ calls # << >>
    BY Zenon DEF IInv, TypeInv
  <1>2. Len(calls) \in Nat \ {0} /\ Len(calls) \in 1..Len(calls)
    BY <1>1
  <1>3. calls[Len(calls)] \in Call
    BY <1>1, <1>2
  <1>4. step = "run" => Sound(calls[Len(calls)])
    BY <1>2, Zenon DEF IInv, Waiting
  <1> QED
    BY <1>1, <1>2, <1>3, <1>4, Zenon DEF Top

\* More work needs as much more to pay for it.
LEMMA CreditGrows ==
  ASSUME NEW S, NEW w \in Nat, NEW wk \in Nat, NEW d \in Nat, Credit(S, w, wk)
  PROVE  Credit(S, w + d, wk + d)
  <1>1. PICK k \in Nat : AtMost(S, k) /\ w + GasMultiplier * (InstanceCost * k) <= wk
    BY Zenon DEF Credit
  <1>2. PICK p \in Nat : p = GasMultiplier * (InstanceCost * k)
    BY Product, GasType, Numbers, Zenon
  <1>3. w + d + p <= wk + d
    BY <1>1, <1>2
  <1> QED
    BY <1>1, <1>2, <1>3, Zenon DEF Credit

\* A step of the innermost call keeps the invariant if it keeps the gas of that
\* call in order.
LEMMA TopStep ==
  ASSUME IInv, step # "idle", NEW c \in Call, Retop(c),
         c.limit = Top.limit, c.size = Top.size,
         UNCHANGED <<loaded, ran>>,
         step' \in {"run", "vmOk", "vmErr"} \cup Returned,
         step' = "run" => Sound(c),
         NEW dw \in Nat, work' = work + dw, NEW df \in Nat, finished' = finished + df,
         \A w \in Int, f \in Nat :
           TopOwes(step, Top, w, f) => TopOwes(step', c, w + dw, f + df)
  PROVE  IInv'
  <1> DEFINE n == Len(calls)
  <1>1. /\ calls \in Seq(Call) /\ calls # << >> /\ n \in Nat \ {0}
        /\ Top \in Call /\ Top = calls[n]
    BY TopFacts, Zenon
  <1>2. /\ calls' \in Seq(Call) /\ Len(calls') = n /\ calls'[n] = c
        /\ \A k \in 1..(n - 1) : calls'[k] = calls[k]
    BY Zenon DEF Retop
  <1>3. calls' # << >> /\ DOMAIN calls' = 1..n /\ DOMAIN calls = 1..n
    BY <1>1, <1>2
  <1>4. \A k \in 1..n : k = n \/ k \in 1..(n - 1)
    BY <1>1
  <1>5. TypeInv'
    <2>1. step' # "idle" /\ step' \in {"idle", "run", "vmOk", "vmErr"} \cup Returned
      BY DEF Returned
    <2>2. work' \in Nat /\ finished' \in Nat
      BY DEF IInv, TypeInv
    <2> QED
      BY <1>2, <1>3, <2>1, <2>2, Zenon DEF IInv, TypeInv
  <1> HIDE DEF n
  <1>6. \A k \in 1..n : /\ calls'[k].size = calls[k].size
                        /\ calls'[k].limit = calls[k].limit
    BY <1>1, <1>2, <1>4, Zenon
  <1>7. Nested'
    BY <1>2, <1>6, Zenon DEF IInv, Nested, n
  <1>9. Waiting'
    <2> SUFFICES ASSUME NEW k \in 1..n
                 PROVE  /\ k < n => /\ Sound(calls'[k])
                                    /\ calls'[k + 1].limit = SubLimit(calls'[k])
                        /\ k = n /\ step' = "run" => Sound(calls'[k])
      BY <1>2, Zenon DEF Waiting
    <2>1. CASE k = n
      <3>1. ~(k < n)
        BY <1>1, <2>1
      <3> QED
        BY <1>2, <2>1, <3>1, Zenon
    <2>2. CASE k # n
      <3>1. k \in 1..(n - 1) /\ k < n /\ k + 1 \in 1..n
        BY <1>1, <2>2
      <3>2. Sound(calls[k]) /\ calls[k + 1].limit = SubLimit(calls[k])
        BY <3>1, Zenon DEF IInv, Waiting, n
      <3> QED
        BY <1>2, <1>6, <2>2, <3>1, <3>2, Zenon
    <2> QED
      BY <2>1, <2>2, Zenon
  <1>10. Shares'
    <2>0. PICK wk \in Nat : /\ Credit(Backlog, work, wk)
                            /\ \E W, F : SharesOf(W, F, calls, step, wk, finished)
      BY Zenon DEF IInv, Shares
    <2>a. PICK wk2 \in Nat : wk2 = wk + dw
      OBVIOUS
    <2>b. Credit(Backlog', work', wk2)
      <3>1. Backlog' = Backlog
        BY <1>1, <1>3, Zenon DEF Backlog
      <3> QED
        BY <2>0, <2>a, <3>1, CreditGrows, Zenon DEF IInv, TypeInv
    <2>1. PICK W, F : SharesOf(W, F, calls, step, wk, finished)
      BY <2>0, Zenon
    <2>2. /\ W[n] = wk /\ F[n] = finished /\ F[n - 1] <= F[n]
          /\ TopOwes(step, calls[n], W[n] - W[n - 1], F[n] - F[n - 1])
          /\ W \in [0..n -> Nat] /\ F \in [0..n -> Nat]
      <3>1. n \in 1..n
        BY <1>1
      <3> QED
        BY <2>1, <3>1, Zenon DEF SharesOf, n
    <2>3. W[n] \in Nat /\ W[n - 1] \in Nat /\ F[n] \in Nat /\ F[n - 1] \in Nat
      <3>1. n \in 0..n /\ n - 1 \in 0..n
        BY <1>1
      <3> QED
        BY <2>2, <3>1, Zenon
    <2>4. PICK w \in Int : w = W[n] - W[n - 1]
      BY <2>3
    <2>5. PICK f \in Nat : f = F[n] - F[n - 1]
      BY <2>2, <2>3
    <2>6. TopOwes(step', c, w + dw, f + df)
      BY <1>1, <2>2, <2>4, <2>5, Zenon
    <2>7. /\ w + dw = wk2 - W[n - 1]
          /\ f + df = finished' - F[n - 1]
          /\ F[n - 1] <= finished'
      <3>1. PICK x \in Nat : x = W[n - 1]
        BY <2>3, Zenon
      <3>2. PICK y \in Nat : y = F[n - 1]
        BY <2>3, Zenon
      <3>3. wk \in Nat /\ finished \in Nat /\ y <= finished
        BY <2>2, <2>3, <3>2, Zenon
      <3>4. w = wk - x /\ f = finished - y
        BY <2>2, <2>4, <2>5, <3>1, <3>2, Zenon
      <3>5. /\ w + dw = wk2 - x
            /\ f + df = finished' - y
            /\ y <= finished'
        BY <2>a, <3>3, <3>4
      <3> QED
        BY <3>1, <3>2, <3>5, Zenon
    <2>8. TopOwes(step', calls'[n], wk2 - W[n - 1], finished' - F[n - 1])
      BY <1>2, <2>6, <2>7, Zenon
    <2>9. n - 1 <= Len(calls) /\ n - 1 # Len(calls) /\ n = Len(calls')
      BY <1>1, <1>2 DEF n
    <2>10. \E W2, F2 : SharesOf(W2, F2, calls', step', wk2, finished')
      <3>1. LastHasRest(W, F, calls, step, calls', step', wk2, finished', n)
        <4>1. wk2 \in Nat /\ finished' \in Nat
          BY <1>5, Zenon DEF TypeInv
        <4> QED
          BY <1>1, <1>2, <2>7, <2>8, <2>9, <4>1, Zenon DEF LastHasRest
      <3> QED
        BY <2>1, <3>1, SharesStep, Zenon
    <2> QED
      BY <2>b, <2>10, Zenon DEF Shares
  <1> QED
    BY <1>5, <1>7, <1>9, <1>10, Zenon DEF IInv

----------------------------------------------------------------------------
(* The steps of the innermost call.                                        *)

\* The VM counts m more, and at most that much was done.
LEMMA InternalGrows ==
  ASSUME NEW c \in Call, NEW r \in Call, NEW m \in Nat, NEW k \in Nat, k <= m,
         r.limit = c.limit, r.consumed = c.consumed, r.internal = c.internal + m,
         NEW w \in Int, NEW f \in Nat, Owes(c, w, f)
  PROVE  Owes(r, w + k, f + 0)
  <1> SUFFICES ASSUME GasMultiplier * r.limit < Word
               PROVE  Covered(r, w + k, f + 0)
    BY Zenon DEF Owes
  <1>1. PICK a \in Nat : a = GasMultiplier * c.limit
    BY CallFields, GasType, Zenon
  <1>2. c.consumed + f \in Nat /\ f + 0 = f
    BY CallFields
  <1>3. PICK b \in Nat : b = GasMultiplier * (c.consumed + f)
    BY <1>2, GasType, Zenon
  <1>4. PICK i \in Nat : i = c.internal
    BY CallFields, Zenon
  <1>5. w <= b + i \/ a <= b + i
    BY <1>1, <1>3, <1>4, Zenon DEF Owes, Covered
  <1>6. w + k <= b + (i + m) \/ a <= b + (i + m)
    BY <1>5
  <1> QED
    BY <1>1, <1>2, <1>3, <1>4, <1>6, Zenon DEF Covered

\* A contract computes.
LEMMA ComputeStep ==
  ASSUME IInv, NEW n \in Nat, Compute(n)
  PROVE  IInv'
  <1>1. /\ step = "run" /\ step # "idle"
        /\ UNCHANGED <<loaded, txs, finished, ran, charged>>
    BY DEF Compute
  <1>2. /\ calls \in Seq(Call) /\ calls # << >> /\ Top \in Call /\ Sound(Top)
    BY <1>1, TopFacts, Zenon
  <1>3. Remaining(Top) \in Nat /\ Top.internal \in Nat
    BY <1>2, SoundPays, CallFields, Zenon
  <1>4. step \notin Returned
    BY <1>1 DEF Returned
  <1>5. PICK c : c = Top
    BY Zenon
  <1>6. work \in Nat /\ finished \in Nat
    BY Zenon DEF IInv, TypeInv
  <1>7. finished' = finished + 0
    BY <1>1, <1>6
  <1>8. CASE n <= Remaining(Top)
    <2>1. PICK m \in Nat : m = c.internal + n
      BY <1>3, <1>5
    <2>2. PICK r : r = [c EXCEPT !.internal = m]
      BY Zenon
    <2>3. SetTop(r) /\ work' = work + n /\ step' = "run"
      BY <1>1, <1>5, <1>8, <2>1, <2>2, Zenon DEF Compute
    <2>4. /\ r \in Call /\ r.limit = c.limit /\ r.size = c.size /\ r.consumed = c.consumed
          /\ r.internal = m /\ r.external = c.external /\ r.vmLimit = c.vmLimit
      BY <1>2, <1>5, <2>2, Zenon DEF Call
    <2>5. Retop(r)
      BY <1>2, <2>3, <2>4, SetTopIs, Zenon
    <2>6. m + c.external <= c.vmLimit
      BY <1>2, <1>3, <1>5, <1>8, <2>1, CallFields
    <2>7. Sound(r)
      BY <1>2, <1>5, <2>4, <2>6, Zenon DEF Sound
    <2>8. ASSUME NEW w \in Int, NEW f \in Nat, TopOwes(step, Top, w, f)
          PROVE  TopOwes(step', r, w + n, f + 0)
      <3>1. Owes(c, w, f)
        BY <1>4, <1>5, <2>8, Zenon DEF TopOwes
      <3>2. n <= n
        OBVIOUS
      <3>3. Owes(r, w + n, f + 0)
        BY <1>2, <1>5, <2>1, <2>4, <3>1, <3>2, InternalGrows, Zenon
      <3> QED
        BY <1>1, <1>4, <2>3, <3>3, Zenon DEF TopOwes
    <2>9. step' \in {"run", "vmOk", "vmErr"} \cup Returned
      BY <2>3, Zenon
    <2>10. 0 \in Nat
      OBVIOUS
    <2> QED
      BY <1>1, <1>5, <1>7, <2>3, <2>4, <2>5, <2>7, <2>8, <2>9, <2>10, TopStep, Zenon
  <1>9. CASE ~(n <= Remaining(Top))
    <2>1. PICK m \in Nat : m = c.internal + Remaining(Top)
      BY <1>3, <1>5
    <2>2. PICK r : r = [c EXCEPT !.internal = m]
      BY Zenon
    <2>3. SetTop(r) /\ work' = work /\ step' = "vmErr"
      BY <1>5, <1>9, <2>1, <2>2, Zenon DEF Compute
    <2>4. /\ r \in Call /\ r.limit = c.limit /\ r.size = c.size /\ r.consumed = c.consumed
          /\ r.internal = m
      BY <1>2, <1>5, <2>2, Zenon DEF Call
    <2>5. Retop(r)
      BY <1>2, <2>3, <2>4, SetTopIs, Zenon
    <2>6. 0 \in Nat /\ 0 <= Remaining(Top) /\ work' = work + 0
      BY <1>3, <1>6, <2>3
    <2>7. step' \notin Returned /\ step' # "run"
      BY <2>3 DEF Returned
    <2>8. ASSUME NEW w \in Int, NEW f \in Nat, TopOwes(step, Top, w, f)
          PROVE  TopOwes(step', r, w + 0, f + 0)
      <3>1. Owes(c, w, f)
        BY <1>4, <1>5, <2>8, Zenon DEF TopOwes
      <3>2. Owes(r, w + 0, f + 0)
        BY <1>2, <1>3, <1>5, <2>1, <2>4, <2>6, <3>1, InternalGrows, Zenon
      <3> QED
        BY <2>7, <3>2, Zenon DEF TopOwes
    <2>9. step' \in {"run", "vmOk", "vmErr"} \cup Returned
      BY <2>3, Zenon
    <2> QED
      BY <1>1, <1>5, <1>7, <2>4, <2>5, <2>6, <2>7, <2>8, <2>9, TopStep, Zenon
  <1> QED
    BY <1>8, <1>9, Zenon

\* A callback of the running contract that is charged.
LEMMA ChargeStep ==
  ASSUME IInv, step = "run", NEW n \in Nat, NEW r, Charged(Top, r, n), SetTop(r),
         work' = work + n * GasMultiplier, UNCHANGED <<loaded, ran, finished>>,
         step' \in {"run", "vmErr"}, step' = "run" => Sound(r)
  PROVE  IInv'
  <1>1. step # "idle" /\ step \notin Returned /\ step' \notin Returned
        /\ step' \in {"run", "vmOk", "vmErr"} \cup Returned
    BY DEF Returned
  <1>2. calls \in Seq(Call) /\ calls # << >> /\ Top \in Call
    BY <1>1, TopFacts, Zenon
  <1>3. PICK g \in Nat : g = GasMultiplier * n
    BY GasType
  <1>4. work' = work + g /\ finished' = finished + 0 /\ 0 \in Nat
    BY <1>3, Numbers DEF IInv, TypeInv
  <1>5. /\ r \in Call /\ r.limit = Top.limit /\ r.size = Top.size
    BY Zenon DEF Charged
  <1>6. Retop(r)
    BY <1>2, <1>5, SetTopIs, Zenon
  <1>7. ASSUME NEW w \in Int, NEW f \in Nat, TopOwes(step, Top, w, f)
        PROVE  TopOwes(step', r, w + g, f + 0)
    <2>1. Owes(Top, w, f)
      BY <1>1, <1>7, Zenon DEF TopOwes
    <2>2. Owes(r, w + g, f)
      BY <1>2, <1>3, <2>1, ChargedCovers, Zenon
    <2>3. f + 0 = f
      OBVIOUS
    <2> QED
      BY <1>1, <2>2, <2>3, Zenon DEF TopOwes
  <1> QED
    BY <1>1, <1>4, <1>5, <1>6, <1>7, TopStep, Zenon

\* A step in which only the state of the innermost run changes.
LEMMA OnlyStep ==
  ASSUME IInv, step = "run", step' = "vmErr", UNCHANGED <<calls, work, loaded, ran, finished>>
  PROVE  IInv'
  <1>1. step # "idle" /\ step \notin Returned /\ step' \notin Returned /\ step' # "run"
        /\ step' \in {"run", "vmOk", "vmErr"} \cup Returned
    BY DEF Returned
  <1>2. calls \in Seq(Call) /\ calls # << >> /\ Top \in Call
    BY <1>1, TopFacts, Zenon
  <1>3. work' = work + 0 /\ finished' = finished + 0 /\ 0 \in Nat
    BY DEF IInv, TypeInv
  <1>4. Retop(Top)
    BY <1>2, SetTopIs, Zenon
  <1>5. ASSUME NEW w \in Int, NEW f \in Nat, TopOwes(step, Top, w, f)
        PROVE  TopOwes(step', Top, w + 0, f + 0)
    <2>1. Owes(Top, w, f)
      BY <1>1, <1>5, Zenon DEF TopOwes
    <2>2. w + 0 = w /\ f + 0 = f
      OBVIOUS
    <2> QED
      BY <1>1, <2>1, <2>2, Zenon DEF TopOwes
  <1> QED
    BY <1>1, <1>2, <1>3, <1>4, <1>5, TopStep, Zenon

\* A storage access.
LEMMA AccessStep ==
  ASSUME IInv, NEW n \in Nat, Access(n)
  PROVE  IInv'
  <1>1. step = "run" /\ step # "idle" /\ UNCHANGED <<loaded, ran, finished>>
    BY DEF Access
  <1>2. Top \in Call /\ Sound(Top)
    BY <1>1, TopFacts, Zenon
  <1>3. CASE Overflows(Top.consumed)
    BY <1>1, <1>3, OnlyStep, Zenon DEF Access
  <1>4. CASE ~Overflows(Top.consumed)
    <2>1. PICK r : r = Called(Top, n).call
      BY Zenon
    <2>2. SetTop(r) /\ step' = Called(Top, n).step /\ work' = work + n * GasMultiplier
      BY <1>4, <2>1, Zenon DEF Access
    <2>3. /\ Charged(Top, r, n) /\ step' \in {"run", "vmErr"} /\ (step' = "run" => Sound(r))
      BY <1>2, <2>1, <2>2, CalledCharges, Zenon
    <2> QED
      BY <1>1, <2>2, <2>3, ChargeStep, Zenon
  <1> QED
    BY <1>3, <1>4, Zenon

\* A query that panicked charges its gas.
LEMMA InVainCharges ==
  ASSUME NEW c \in Call, NEW n \in Nat
  PROVE  /\ Charged(c, CalledInVain(c, n).call, n)
         /\ CalledInVain(c, n).step = "vmErr"
  <1>1. PICK m \in Nat : m = c.consumed + n
    BY CallFields
  <1>2. PICK r : r = [c EXCEPT !.consumed = m]
    BY Zenon
  <1>3. CalledInVain(c, n) = [call |-> r, step |-> "vmErr"]
    BY <1>1, <1>2, Zenon DEF CalledInVain
  <1>4. CalledInVain(c, n).call = r /\ CalledInVain(c, n).step = "vmErr"
    BY <1>3
  <1>5. /\ r \in Call /\ r.consumed = m /\ r.limit = c.limit /\ r.size = c.size
        /\ r.internal = c.internal
    BY <1>2, Zenon DEF Call
  <1>6. Charged(c, r, n)
    BY <1>1, <1>5, Zenon DEF Charged
  <1> QED
    BY <1>4, <1>6, Zenon

\* A query that the chain answers.
LEMMA ChainQueryStep ==
  ASSUME IInv, NEW n \in Nat, ChainQuery(n)
  PROVE  IInv'
  <1>1. step = "run" /\ step # "idle" /\ UNCHANGED <<loaded, ran, finished>>
        /\ work' = work + n * GasMultiplier
    BY DEF ChainQuery
  <1>2. Top \in Call /\ Sound(Top)
    BY <1>1, TopFacts, Zenon
  <1>3. CASE n > SubLimit(Top)
    <2>1. PICK r : r = CalledInVain(Top, n).call
      BY Zenon
    <2>2. SetTop(r) /\ step' = CalledInVain(Top, n).step
      BY <1>3, <2>1, Zenon DEF ChainQuery
    <2>3. Charged(Top, r, n) /\ step' = "vmErr"
      BY <1>2, <2>1, <2>2, InVainCharges, Zenon
    <2>4. step' \in {"run", "vmErr"} /\ step' # "run"
      BY <2>3
    <2> QED
      BY <1>1, <2>2, <2>3, <2>4, ChargeStep, Zenon
  <1>4. CASE ~(n > SubLimit(Top))
    <2>1. PICK r : r = Called(Top, n).call
      BY Zenon
    <2>2. SetTop(r) /\ step' = Called(Top, n).step
      BY <1>4, <2>1, Zenon DEF ChainQuery
    <2>3. /\ Charged(Top, r, n) /\ step' \in {"run", "vmErr"} /\ (step' = "run" => Sound(r))
      BY <1>2, <2>1, <2>2, CalledCharges, Zenon
    <2> QED
      BY <1>1, <2>2, <2>3, ChargeStep, Zenon
  <1> QED
    BY <1>3, <1>4, Zenon

\* The VM returns.
LEMMA VmReturnsStep ==
  ASSUME IInv, NEW n \in Nat, VmReturns(n)
  PROVE  IInv'
  <1>1. step = "run" /\ step # "idle" /\ UNCHANGED <<loaded, ran, finished>>
    BY DEF VmReturns
  <1>2. calls \in Seq(Call) /\ calls # << >> /\ Top \in Call
    BY <1>1, TopFacts, Zenon
  <1>3. CASE Top.vmLimit < n + Top.internal
    BY <1>1, <1>3, OnlyStep, Zenon DEF VmReturns
  <1>4. CASE ~(Top.vmLimit < n + Top.internal)
    <2>1. PICK c : c = Top
      BY Zenon
    <2>2. PICK m \in Nat : m = c.internal + n
      BY <1>2, <2>1, CallFields
    <2>3. PICK r : r = [c EXCEPT !.internal = m]
      BY Zenon
    <2>4. SetTop(r) /\ work' = work + n /\ step' \in {"vmOk", "vmErr"}
      BY <1>4, <2>1, <2>2, <2>3, Zenon DEF VmReturns
    <2>5. /\ r \in Call /\ r.limit = c.limit /\ r.size = c.size /\ r.consumed = c.consumed
          /\ r.internal = m
      BY <1>2, <2>1, <2>3, Zenon DEF Call
    <2>6. Retop(r)
      BY <1>2, <2>4, <2>5, SetTopIs, Zenon
    <2>7. /\ step \notin Returned /\ step' \notin Returned /\ step' # "run"
          /\ step' \in {"run", "vmOk", "vmErr"} \cup Returned
      BY <1>1, <2>4 DEF Returned
    <2>8. finished' = finished + 0 /\ 0 \in Nat /\ n <= n
      BY <1>1 DEF IInv, TypeInv
    <2>9. ASSUME NEW w \in Int, NEW f \in Nat, TopOwes(step, Top, w, f)
          PROVE  TopOwes(step', r, w + n, f + 0)
      <3>1. Owes(c, w, f)
        BY <2>1, <2>7, <2>9, Zenon DEF TopOwes
      <3>2. Owes(r, w + n, f + 0)
        BY <1>2, <2>1, <2>2, <2>5, <2>8, <3>1, InternalGrows, Zenon
      <3> QED
        BY <2>7, <3>2, Zenon DEF TopOwes
    <2> QED
      BY <1>1, <2>1, <2>4, <2>5, <2>6, <2>7, <2>8, <2>9, TopStep, Zenon
  <1> QED
    BY <1>3, <1>4, Zenon

\* consumeRuntimeGas settles a call: rounding costs it less than one SDK gas,
\* which the VM that ended accounts for.
LEMMA RuntimeSettles ==
  ASSUME NEW c \in Call, NEW r \in Call, NEW w \in Int, NEW f \in Nat,
         r.limit = c.limit, r.internal = 0,
         r.consumed = c.consumed + FromWasmVMGas(c.internal), Owes(c, w, f)
  PROVE  Paid(r, w + 0, f + 1)
  <1> SUFFICES ASSUME GasMultiplier * r.limit < Word
               PROVE  Settled(r, w + 0, f + 1)
    BY Zenon DEF Paid
  <1>1. PICK limit \in Nat : limit = c.limit
    BY CallFields, Zenon
  <1>2. PICK used \in Nat : used = c.consumed
    BY CallFields, Zenon
  <1>3. PICK int \in Nat : int = c.internal
    BY CallFields, Zenon
  <1>4. PICK x \in Nat : x = FromWasmVMGas(int) /\ int < GasMultiplier * (x + 1)
    BY RoundsDown, Zenon
  <1>5. r.consumed = used + x /\ r.limit = limit
    BY <1>1, <1>2, <1>3, <1>4, Zenon
  <1>6. PICK a \in Nat : a = GasMultiplier * limit
    BY GasType
  <1>7. PICK b \in Nat : b = GasMultiplier * (used + f)
    BY GasType
  <1>8. PICK g \in Nat : g = GasMultiplier * (x + 1)
    BY GasType
  <1>9. GasMultiplier * (used + x + (f + 1)) = b + g
    BY <1>7, <1>8, Numbers
  <1>10. w <= b + int \/ a <= b + int
    BY <1>1, <1>2, <1>3, <1>5, <1>6, <1>7, Zenon DEF Owes, Covered
  <1>11. w + 0 <= b + g \/ a < b + g
    BY <1>4, <1>8, <1>10
  <1>12. a < b + g => limit < used + x + (f + 1)
    <2>1. used + x + (f + 1) <= limit => GasMultiplier * (used + x + (f + 1)) <= a
      BY <1>6, GasOrder
    <2> QED
      BY <1>9, <2>1
  <1> QED
    BY <1>5, <1>9, <1>11, <1>12, Zenon DEF Settled

\* The VM's own gas is charged.
LEMMA ChargeRuntimeStep ==
  ASSUME IInv, ChargeRuntime
  PROVE  IInv'
  <1>1. step \in {"vmOk", "vmErr"} /\ UNCHANGED <<loaded, ran, work>>
        /\ finished' = finished + 1
    BY Zenon DEF ChargeRuntime
  <1>2. /\ step # "idle" /\ step \notin Returned
    BY <1>1 DEF Returned
  <1>3. calls \in Seq(Call) /\ calls # << >> /\ Top \in Call
    BY <1>2, TopFacts, Zenon
  <1>4. PICK c : c = Top
    BY Zenon
  <1>5. PICK m \in Nat : m = c.consumed + FromWasmVMGas(c.internal)
    <2>1. c.internal \in Nat /\ c.consumed \in Nat
      BY <1>3, <1>4, CallFields, Zenon
    <2>2. FromWasmVMGas(c.internal) \in Nat
      BY <2>1, RoundsDown, Zenon
    <2> QED
      BY <2>1, <2>2
  <1>6. PICK r : r = [c EXCEPT !.consumed = m, !.internal = 0, !.external = 0, !.vmLimit = 0]
    BY Zenon
  <1>7. SetTop(r) /\ step' \in Returned
    <2>1. SetTop(r)
      BY <1>4, <1>5, <1>6, Zenon DEF ChargeRuntime
    <2>2. step' = IF m >= c.limit THEN "panics" ELSE IF step = "vmOk" THEN "answers" ELSE "errs"
      BY <1>4, <1>5, Zenon DEF ChargeRuntime
    <2> QED
      BY <2>1, <2>2, Zenon DEF Returned
  <1>8. 0 \in Nat /\ 1 \in Nat /\ work' = work + 0
    BY <1>1 DEF IInv, TypeInv
  <1>9. /\ r \in Call /\ r.limit = c.limit /\ r.size = c.size /\ r.consumed = m
        /\ r.internal = 0
    BY <1>3, <1>4, <1>6, <1>8, Zenon DEF Call
  <1>10. Retop(r)
    BY <1>3, <1>7, <1>9, SetTopIs, Zenon
  <1>11. ASSUME NEW w \in Int, NEW f \in Nat, TopOwes(step, Top, w, f)
         PROVE  TopOwes(step', r, w + 0, f + 1)
    <2>1. Owes(c, w, f)
      BY <1>2, <1>4, <1>11, Zenon DEF TopOwes
    <2>2. Paid(r, w + 0, f + 1)
      BY <1>3, <1>4, <1>5, <1>9, <2>1, RuntimeSettles, Zenon
    <2> QED
      BY <1>7, <2>2, Zenon DEF TopOwes
  <1>12. step' # "run" /\ step' \in {"run", "vmOk", "vmErr"} \cup Returned
    BY <1>7 DEF Returned
  <1> QED
    BY <1>1, <1>2, <1>4, <1>8, <1>9, <1>10, <1>11, <1>12, TopStep, Zenon

\* The events of a response are charged at their worth.
LEMMA ChargeEventsStep ==
  ASSUME IInv, NEW resp \in Responses, ChargeEvents(resp.attrs, resp.events)
  PROVE  IInv'
  <1>1. /\ step = "answers" /\ UNCHANGED <<loaded, ran, finished>>
    BY Zenon DEF ChargeEvents
  <1>2. step # "idle" /\ step \in Returned
    BY <1>1 DEF Returned
  <1>3. calls \in Seq(Call) /\ calls # << >> /\ Top \in Call
    BY <1>2, TopFacts, Zenon
  <1>4. resp.attrs \in Seq(Nat) /\ resp.events \in Seq(Event)
    BY QueriesAssumption, Zenon DEF Event
  <1>5. PICK e \in Nat : e = EventCosts(resp.attrs, resp.events)
    BY <1>4, EventCostsType, Zenon
  <1>6. e = EventsWorth(resp.attrs, resp.events)
    BY <1>4, <1>5, EventsChargedAtWorth, Zenon
  <1>7. PICK g \in Nat : g = GasMultiplier * e
    BY GasType
  <1>8. PICK c : c = Top
    BY Zenon
  <1>9. PICK m \in Nat : m = c.consumed + e
    <2>1. c.consumed \in Nat
      BY <1>3, <1>8, CallFields, Zenon
    <2> QED
      BY <2>1
  <1>10. PICK r : r = [c EXCEPT !.consumed = m]
    BY Zenon
  <1>11. SetTop(r) /\ work' = work + g /\ step' \in {"panics", "answers"}
    <2>1. SetTop(r) /\ work' = work + g
      BY <1>5, <1>6, <1>7, <1>8, <1>9, <1>10, Zenon DEF ChargeEvents
    <2>2. step' = IF m > c.limit THEN "panics" ELSE "answers"
      BY <1>5, <1>8, <1>9, Zenon DEF ChargeEvents
    <2> QED
      BY <2>1, <2>2, Zenon
  <1>12. /\ r \in Call /\ r.limit = c.limit /\ r.size = c.size /\ r.consumed = m
         /\ r.internal = c.internal
    BY <1>3, <1>8, <1>10, Zenon DEF Call
  <1>13. Retop(r)
    BY <1>3, <1>11, <1>12, SetTopIs, Zenon
  <1>14. finished' = finished + 0 /\ 0 \in Nat
    BY <1>1 DEF IInv, TypeInv
  <1>15. /\ step' # "run" /\ step' \in {"run", "vmOk", "vmErr"} \cup Returned
         /\ step' \in Returned
    BY <1>11 DEF Returned
  <1>16. ASSUME NEW w \in Int, NEW f \in Nat, TopOwes(step, Top, w, f)
         PROVE  TopOwes(step', r, w + g, f + 0)
    <2>1. Paid(c, w, f)
      BY <1>2, <1>8, <1>16, Zenon DEF TopOwes
    <2>2. Paid(r, w + g, f + 0)
      <3> SUFFICES ASSUME GasMultiplier * r.limit < Word
                   PROVE  Settled(r, w + g, f + 0)
        BY Zenon DEF Paid
      <3>1. PICK limit \in Nat : limit = c.limit
        BY <1>3, <1>8, CallFields, Zenon
      <3>2. PICK used \in Nat : used = c.consumed
        BY <1>3, <1>8, CallFields, Zenon
      <3>3. PICK b \in Nat : b = GasMultiplier * (used + f)
        BY GasType
      <3>4. /\ c.internal = 0
            /\ w <= b \/ limit < used + f
        BY <1>12, <2>1, <3>1, <3>2, <3>3, Zenon DEF Paid, Settled
      <3>5. GasMultiplier * (m + (f + 0)) = b + g
        BY <1>7, <1>9, <3>2, <3>3, Numbers
      <3>6. w + g <= b + g \/ limit < m + (f + 0)
        BY <1>9, <3>2, <3>4
      <3> QED
        BY <1>12, <3>1, <3>4, <3>5, <3>6, Zenon DEF Settled
    <2> QED
      BY <1>15, <2>2, Zenon DEF TopOwes
  <1> QED
    BY <1>1, <1>2, <1>8, <1>11, <1>12, <1>13, <1>14, <1>15, <1>16, TopStep, Zenon

----------------------------------------------------------------------------
(* Calls begin and return.                                                 *)

\* What the meter of a call counts before the VM runs.
EnterCost(limit, h, known) ==
  IF LoadCost <= limit THEN LoadCost + SetupContractCost(Discount(h, known)) ELSE LoadCost

\* A call that starts: it is in order.
Starts(c, limit, size, h, known) ==
  /\ c \in Call /\ calls' = Append(calls, c)
  /\ c.limit = limit /\ c.size = size /\ c.internal = 0
  /\ c.consumed = EnterCost(limit, h, known)
  /\ step' \in {"run", "panics"} /\ (step' = "run" => Sound(c))

\* The set of loaded contracts and the work after that: the call pays for what
\* is loaded, or for a contract that will be loaded with the discount later.
Loads(limit, h, known) ==
  /\ loaded' \in (SUBSET Checksum) \cup {NoContracts}
  /\ loaded' = NoContracts <=> known = NoContracts
  /\ work' \in Nat
  /\ \A wk \in Nat : Credit(Unrun(known, ran), work, wk) =>
       Credit(Unrun(loaded', ran'), work', wk + GasMultiplier * EnterCost(limit, h, known))

\* What the run of the VM is given is what the meter has left, in VM gas.
LEMMA EnterSound ==
  ASSUME NEW c \in Call, c.internal = 0, c.external = 0, c.consumed <= c.limit,
         c.vmLimit = runtimeGas(c.limit, c.consumed)
  PROVE  Sound(c)
  <1>1. PICK limit \in Nat : limit = c.limit
    BY CallFields, Zenon
  <1>2. PICK used \in Nat : used = c.consumed
    BY CallFields, Zenon
  <1>3. PICK vm \in Nat : vm = c.vmLimit
    BY CallFields, Zenon
  <1>4. vm = IF used >= limit THEN 0 ELSE ToWasmVMGas(limit - used)
    BY <1>1, <1>2, <1>3, Zenon DEF runtimeGas
  <1>5. used <= limit
    BY <1>1, <1>2, Zenon
  <1>6. vm < Word /\ \E q \in Int : GasMultiplier * (limit - used) = vm - 0 + q * Word
    <2>1. CASE used >= limit
      <3>1. vm = 0 /\ limit - used = 0
        BY <1>4, <1>5, <2>1
      <3>2. GasMultiplier * (limit - used) = vm - 0 + 0 * Word /\ vm < Word /\ 0 \in Int
        BY <3>1, Numbers
      <3> QED
        BY <3>2, Zenon
    <2>2. CASE ~(used >= limit)
      <3>1. PICK x \in Nat : x = limit - used
        BY <1>5
      <3>2. vm = ToWasmVMGas(x)
        BY <1>4, <2>2, <3>1, Zenon
      <3>3. PICK q \in Int : GasMultiplier * x = vm + q * Word
        BY <3>2, Conversion, Zenon
      <3>4. vm < Word /\ vm - 0 = vm
        <4>1. vm \in 0..(Word - 1)
          BY <3>2, Conversion, Zenon
        <4> QED
          BY <4>1, Numbers
      <3> QED
        BY <3>1, <3>3, <3>4, Zenon
    <2> QED
      BY <2>1, <2>2, Zenon
  <1>7. 0 + 0 <= vm
    OBVIOUS
  <1> QED
    BY <1>1, <1>2, <1>3, <1>5, <1>6, <1>7, Zenon DEF Sound

\* execute and QuerySmart up to the VM.
LEMMA EnterStarts ==
  ASSUME NEW limit \in Nat, NEW size \in Nat, NEW h \in Checksum,
         NEW known \in (SUBSET Checksum) \cup {NoContracts},
         Enter(limit, size, h, known)
  PROVE  \E c : Starts(c, limit, size, h, known)
  <1>2. PICK setup \in Nat : setup = SetupContractCost(Discount(h, known))
    BY Numbers, Zenon DEF SetupContractCost
  <1>3. PICK cost \in Nat : cost = LoadCost + setup
    BY Numbers
  <1> DEFINE found == LoadCost <= limit
  <1>5. PICK starts \in BOOLEAN :
          starts = (cost <= limit /\ (cost < limit => ~Overflows(limit - cost)))
    BY Zenon
  <1>6. PICK used \in Nat : used = IF found THEN cost ELSE LoadCost
    BY Numbers, Zenon
  <1>7. starts => used = cost /\ cost <= limit
    <2>1. LoadCost <= cost
      BY <1>3, Numbers
    <2>2. cost <= limit => LoadCost <= limit
      BY <2>1, Numbers
    <2> QED
      BY <1>5, <1>6, <2>2, Zenon
  <1>8. PICK vm \in Nat : vm = IF starts THEN runtimeGas(limit, cost) ELSE 0
    <2>1. ASSUME starts PROVE runtimeGas(limit, cost) \in Nat
      <3>1. CASE cost >= limit
        BY <3>1 DEF runtimeGas
      <3>2. CASE ~(cost >= limit)
        <4>1. PICK x \in Nat : x = limit - cost
          BY <1>7, <2>1
        <4>2. ToWasmVMGas(x) \in Nat
          <5>1. ToWasmVMGas(x) \in 0..(Word - 1)
            BY Conversion, Zenon
          <5> QED
            BY <5>1, Numbers
        <4> QED
          BY <3>2, <4>1, <4>2, Zenon DEF runtimeGas
      <3> QED
        BY <3>1, <3>2, Zenon
    <2>2. 0 \in Nat
      OBVIOUS
    <2> QED
      BY <2>1, <2>2, Zenon
  <1>10. PICK c : c = [limit |-> limit, consumed |-> used, size |-> size,
                       internal |-> 0, external |-> 0, vmLimit |-> vm]
    BY Zenon
  <1>11. /\ c \in Call /\ c.limit = limit /\ c.consumed = used /\ c.size = size
         /\ c.internal = 0 /\ c.external = 0
         /\ c.vmLimit = vm
    <2>1. 0 \in Nat
      OBVIOUS
    <2>2. c \in Call
      BY <1>10, <2>1, Zenon DEF Call
    <2> QED
      BY <1>10, <2>2, Zenon
  <1>12. /\ calls' = Append(calls, c)
         /\ step' = IF starts THEN "run" ELSE "panics"
    BY <1>2, <1>3, <1>5, <1>6, <1>8, <1>10, Zenon DEF Enter
  <1>13. starts => Sound(c)
    BY <1>7, <1>8, <1>11, EnterSound, Zenon
  <1>14. c.consumed = EnterCost(limit, h, known)
    BY <1>2, <1>3, <1>6, <1>11, Zenon DEF EnterCost
  <1>15. /\ step' \in {"run", "panics"} /\ (step' = "run" => starts)
    BY <1>12
  <1> QED
    BY <1>11, <1>12, <1>13, <1>14, <1>15, Zenon DEF Starts

\* Counting the contracts in TxContracts that the VM has not run: none at first.
LEMMA CountEmpty == AtMost({}, 0)
  BY Zenon DEF AtMost

\* A contract that AddContract puts into the set makes them at most one more.
LEMMA CountAdd ==
  ASSUME NEW S, NEW x, NEW k \in Nat, AtMost(S, k)
  PROVE  \E j \in Nat : j <= k + 1 /\ AtMost(S \cup {x}, j)
  <1>1. PICK f : \A y \in S : \E i \in 1..k : f[i] = y
    BY Zenon DEF AtMost
  <1>2. PICK j \in Nat : j = k + 1 /\ j <= k + 1
    OBVIOUS
  <1>3. j \in 1..j /\ \A i \in 1..k : i \in 1..j /\ i # j
    BY <1>2
  <1> DEFINE g == [i \in 1..j |-> IF i = j THEN x ELSE f[i]]
  <1>4. g[j] = x /\ \A i \in 1..k : g[i] = f[i]
    BY <1>3, Zenon
  <1> HIDE DEF g
  <1>5. \A y \in S \cup {x} : \E i \in 1..j : g[i] = y
    BY <1>1, <1>3, <1>4, Zenon
  <1>6. AtMost(S \cup {x}, j)
    BY <1>5, Zenon DEF AtMost
  <1> QED
    BY <1>2, <1>6, Zenon

\* A contract of the set that the VM runs for the first time makes them one less.
LEMMA CountRemove ==
  ASSUME NEW S, NEW x, NEW k \in Nat, AtMost(S, k)
  PROVE  \E j \in Nat : j <= k /\ (x \in S => j + 1 = k) /\ AtMost(S \ {x}, j)
  <1>1. PICK f : \A y \in S : \E i \in 1..k : f[i] = y
    BY Zenon DEF AtMost
  <1>2. CASE x \notin S
    <2>1. k <= k /\ AtMost(S \ {x}, k)
      <3>1. k <= k
        OBVIOUS
      <3> QED
        BY <1>1, <3>1, Zenon DEF AtMost
    <2> QED
      BY <1>2, <2>1, Zenon
  <1>3. CASE x \in S
    <2>1. PICK p \in 1..k : f[p] = x
      BY <1>1, <1>3, Zenon
    <2>2. PICK j \in Nat : j + 1 = k /\ j <= k
      OBVIOUS
    <2> DEFINE g == [i \in 1..k |-> IF i = p THEN f[k] ELSE f[i]]
    <2>3. k \in 1..k /\ \A i \in 1..k : i = k \/ i \in 1..j
      BY <2>2
    <2>4. g[p] = f[k] /\ \A i \in 1..k : i # p => g[i] = f[i]
      BY Zenon
    <2> HIDE DEF g
    <2>5. ASSUME NEW y \in S \ {x}
          PROVE  \E i \in 1..j : g[i] = y
      <3>1. PICK i \in 1..k : f[i] = y
        BY <1>1, Zenon
      <3>2. i # p /\ y # x
        BY <2>1, <3>1, Zenon
      <3>3. CASE i = k
        BY <2>3, <2>4, <3>1, <3>2, <3>3, Zenon
      <3>4. CASE i # k
        BY <2>3, <2>4, <3>1, <3>2, <3>4, Zenon
      <3> QED
        BY <3>3, <3>4, Zenon
    <2>6. AtMost(S \ {x}, j)
      BY <2>5, Zenon DEF AtMost
    <2> QED
      BY <2>2, <2>6, Zenon
  <1> QED
    BY <1>2, <1>3, Zenon

\* Nothing done and nothing to load.
LEMMA NoCredit == Credit({}, 0, 0)
  <1>1. 0 \in Nat /\ 0 + GasMultiplier * (InstanceCost * 0) <= 0
    BY Numbers
  <1> QED
    BY <1>1, CountEmpty, Zenon DEF Credit

\* Work of d and e more loads to come, or e fewer where e is negative, are
\* covered by GasMultiplier * u more.
LEMMA CreditMoves ==
  ASSUME NEW S, NEW T, NEW w \in Nat, NEW wk \in Nat, NEW d \in Nat, NEW u \in Nat,
         Credit(S, w, wk),
         \A k \in Nat : AtMost(S, k) =>
           \E j \in Nat : AtMost(T, j) /\ d + InstanceCost * j <= u + InstanceCost * k
  PROVE  Credit(T, w + GasMultiplier * d, wk + GasMultiplier * u)
  <1>1. PICK k \in Nat : AtMost(S, k) /\ w + GasMultiplier * (InstanceCost * k) <= wk
    BY Zenon DEF Credit
  <1>2. PICK j \in Nat : AtMost(T, j) /\ d + InstanceCost * j <= u + InstanceCost * k
    BY <1>1, Zenon
  <1>3. PICK a \in Nat, b \in Nat : a = InstanceCost * k /\ b = InstanceCost * j
    BY Product, Numbers, Zenon
  <1>4. GasMultiplier * (d + b) <= GasMultiplier * (u + a)
    <2>1. d + b \in Int /\ u + a \in Int /\ d + b <= u + a
      BY <1>2, <1>3
    <2> QED
      BY <2>1, GasOrder, Zenon
  <1>5. PICK gd \in Nat, gu \in Nat, ga \in Nat, gb \in Nat :
          /\ gd = GasMultiplier * d /\ gu = GasMultiplier * u
          /\ ga = GasMultiplier * a /\ gb = GasMultiplier * b
    BY GasType, Zenon
  <1>6. GasMultiplier * (d + b) = gd + gb /\ GasMultiplier * (u + a) = gu + ga
    BY <1>5, Numbers
  <1>7. w + ga <= wk
    BY <1>1, <1>3, <1>5, Zenon
  <1>8. w + gd + gb <= wk + gu
    BY <1>4, <1>6, <1>7
  <1>9. w + GasMultiplier * d + GasMultiplier * (InstanceCost * j) <= wk + GasMultiplier * u
    BY <1>3, <1>5, <1>8, Zenon
  <1> QED
    BY <1>2, <1>9, Zenon DEF Credit

\* The loads to come after a call has started, or failed to.
LEMMA EnterCredit ==
  ASSUME NEW limit \in Nat, NEW size, NEW h \in Checksum,
         NEW known \in (SUBSET Checksum) \cup {NoContracts},
         Enter(limit, size, h, known), work \in Nat
  PROVE  /\ work' \in Nat
         /\ \A wk \in Nat : Credit(Unrun(known, ran), work, wk) =>
              Credit(Unrun(loaded', ran'), work', wk + GasMultiplier * EnterCost(limit, h, known))
  <1>1. PICK setup \in Nat : setup = SetupContractCost(Discount(h, known))
    BY Numbers, Zenon DEF SetupContractCost
  <1>2. PICK inst \in Nat : inst = InstanceCost
    BY Numbers, Zenon
  <1>3. PICK load \in Nat : load = LoadCost
    BY Numbers, Zenon
  <1>4. PICK found \in BOOLEAN : found <=> load <= limit
    BY Zenon
  <1>5. PICK starts \in BOOLEAN :
          starts = (load + setup <= limit /\ (load + setup < limit => ~Overflows(limit - (load + setup))))
    BY Zenon
  <1>6. starts => found
    <2>1. load + setup <= limit => load <= limit
      OBVIOUS
    <2> QED
      BY <1>4, <1>5, <2>1, Zenon
  <1>7. PICK instance \in Nat :
          instance = IF h \in Pinned \cup ran THEN setup ELSE inst
    BY Zenon
  <1>8. PICK d \in Nat : d = load + (IF starts THEN instance ELSE 0)
    <2>1. CASE starts
      <3>1. load + instance \in Nat
        OBVIOUS
      <3> QED
        BY <2>1, <3>1, Zenon
    <2>2. CASE ~starts
      <3>1. load + 0 \in Nat
        OBVIOUS
      <3> QED
        BY <2>2, <3>1, Zenon
    <2> QED
      BY <2>1, <2>2, Zenon
  <1>9. PICK u \in Nat : u = EnterCost(limit, h, known) /\ u = IF found THEN load + setup ELSE load
    <2>1. EnterCost(limit, h, known) = IF found THEN load + setup ELSE load
      BY <1>1, <1>3, <1>4, Zenon DEF EnterCost
    <2>2. load + setup \in Nat
      OBVIOUS
    <2> QED
      BY <2>1, <2>2, Zenon
  <1>10. work' = work + GasMultiplier * d /\ ran' = (IF starts THEN ran \cup {h} ELSE ran)
         /\ loaded' = IF ~found \/ known = NoContracts \/ h \in Pinned THEN known ELSE known \cup {h}
    BY <1>1, <1>2, <1>3, <1>4, <1>5, <1>7, <1>8, Zenon DEF Enter
  <1>11. \A S \in SUBSET Checksum : S # NoContracts
    BY QueriesAssumption, Zenon
  <1>12. known # NoContracts => known \cup {h} \in SUBSET Checksum /\ known \cup {h} # NoContracts
    <2> SUFFICES ASSUME known # NoContracts
                 PROVE  known \cup {h} \in SUBSET Checksum
      BY <1>11, Zenon
    <2>1. known \in SUBSET Checksum
      BY Zenon
    <2> QED
      BY <2>1
  <1> DEFINE S == Unrun(known, ran)
             T == Unrun(loaded', ran')
  <1>13. setup = inst \/ Discount(h, known)
    BY <1>1, <1>2, Zenon DEF SetupContractCost
  <1>14. CASE starts
    <2>1. T = S \ {h}
      <3>1. CASE known = NoContracts
        BY <1>6, <1>10, <1>14, <3>1, Zenon DEF Unrun
      <3>2. CASE known # NoContracts
        <4>1. loaded' = known \/ loaded' = known \cup {h}
          BY <1>10, Zenon
        <4>2. loaded' # NoContracts /\ ran' = ran \cup {h}
          BY <1>10, <1>12, <1>14, <3>2, <4>1, Zenon
        <4>3. T = loaded' \ ran' /\ S = known \ ran
          BY <3>2, <4>2, Zenon DEF Unrun
        <4> QED
          BY <4>1, <4>2, <4>3, Zenon
      <3> QED
        BY <3>1, <3>2, Zenon
    <2>2. instance = setup \/ (instance = inst /\ setup = inst) \/ (instance = inst /\ h \in S)
      <3>1. CASE h \in Pinned \cup ran
        BY <1>7, <3>1, Zenon
      <3>2. CASE h \notin Pinned \cup ran /\ ~Discount(h, known)
        BY <1>7, <1>13, <3>2, Zenon
      <3>3. CASE h \notin Pinned \cup ran /\ Discount(h, known)
        BY <1>7, <3>3, Zenon DEF Discount, Unrun
      <3> QED
        BY <3>1, <3>2, <3>3, Zenon
    <2>3. d = load + instance /\ u = load + setup
      BY <1>6, <1>8, <1>9, <1>14, Zenon
    <2> HIDE DEF S, T
    <2>4. ASSUME NEW k \in Nat, AtMost(S, k)
          PROVE  \E j \in Nat : AtMost(T, j) /\ d + InstanceCost * j <= u + InstanceCost * k
      <3>1. PICK j \in Nat : j <= k /\ (h \in S => j + 1 = k) /\ AtMost(T, j)
        BY <2>1, <2>4, CountRemove, Zenon
      <3>2. PICK a \in Nat, b \in Nat : a = inst * k /\ b = inst * j
        BY Product, Zenon
      <3>3. b <= a
        BY <3>1, <3>2
      <3>4. h \in S => b + inst = a
        <4>1. j + 1 = k => inst * j + inst = inst * k
          OBVIOUS
        <4> QED
          BY <3>1, <3>2, <4>1, Zenon
      <3>5. d + b <= u + a
        BY <2>2, <2>3, <3>3, <3>4
      <3> QED
        BY <1>2, <3>1, <3>2, <3>5, Zenon
    <2>5. ASSUME NEW wk \in Nat, Credit(S, work, wk)
          PROVE  Credit(T, work + GasMultiplier * d, wk + GasMultiplier * u)
      BY <2>4, <2>5, CreditMoves, Zenon
    <2>6. work + GasMultiplier * d \in Nat
      BY GasType
    <2> QED
      BY <1>9, <1>10, <2>5, <2>6, Zenon DEF S, T
  <1>15. CASE ~starts
    <2>1. T = S \/ (T = S \cup {h} /\ found /\ setup = inst)
      <3>1. CASE loaded' = known
        BY <1>10, <1>15, <3>1, Zenon
      <3>2. CASE loaded' # known
        <4>1. found /\ known # NoContracts /\ h \notin Pinned /\ loaded' = known \cup {h} /\ ran' = ran
          BY <1>10, <1>15, <3>2, Zenon
        <4>2. h \notin known
          <5>1. h \in known => known \cup {h} = known
            BY Zenon
          <5> QED
            BY <3>2, <4>1, <5>1, Zenon
        <4>3. setup = inst
          BY <1>13, <4>1, <4>2, Zenon DEF Discount
        <4>4. T = (known \cup {h}) \ ran /\ S = known \ ran
          BY <1>12, <4>1, Zenon DEF Unrun
        <4>5. CASE h \in ran
          <5>1. T = S
            BY <4>4, <4>5, Zenon
          <5> QED
            BY <5>1, Zenon
        <4>6. CASE h \notin ran
          <5>1. T = S \cup {h}
            BY <4>4, <4>6, Zenon
          <5> QED
            BY <4>1, <4>3, <5>1, Zenon
        <4> QED
          BY <4>5, <4>6, Zenon
      <3> QED
        BY <3>1, <3>2, Zenon
    <2>2. d = load /\ load <= u /\ (found => u = load + setup)
      <3>1. d = load + 0 /\ (found => u = load + setup) /\ (~found => u = load)
        BY <1>8, <1>9, <1>15, Zenon
      <3> QED
        BY <3>1
    <2> HIDE DEF S, T
    <2>4. ASSUME NEW k \in Nat, AtMost(S, k)
          PROVE  \E j \in Nat : AtMost(T, j) /\ d + InstanceCost * j <= u + InstanceCost * k
      <3>0. PICK a \in Nat : a = inst * k
        BY Product, Zenon
      <3>1. CASE T = S
        <4>1. d + a <= u + a
          BY <2>2
        <4> QED
          BY <1>2, <2>4, <3>0, <3>1, <4>1, Zenon
      <3>2. CASE T = S \cup {h} /\ found /\ setup = inst
        <4>1. PICK j \in Nat : j <= k + 1 /\ AtMost(T, j)
          BY <2>4, <3>2, CountAdd, Zenon
        <4>2. PICK b \in Nat : b = inst * j
          BY Product, Zenon
        <4>3. b <= a + inst
          BY <3>0, <4>1, <4>2
        <4>4. d + b <= u + a
          BY <2>2, <3>2, <4>3
        <4> QED
          BY <1>2, <3>0, <4>1, <4>2, <4>4, Zenon
      <3> QED
        BY <2>1, <3>1, <3>2, Zenon
    <2>5. ASSUME NEW wk \in Nat, Credit(S, work, wk)
          PROVE  Credit(T, work + GasMultiplier * d, wk + GasMultiplier * u)
      BY <2>4, <2>5, CreditMoves, Zenon
    <2>6. work + GasMultiplier * d \in Nat
      BY GasType
    <2> QED
      BY <1>9, <1>10, <2>5, <2>6, Zenon DEF S, T
  <1> QED
    BY <1>14, <1>15, Zenon

\* The contract is added to the set of the transaction, unless it is pinned.
LEMMA EnterLoads ==
  ASSUME NEW limit \in Nat, NEW size, NEW h \in Checksum,
         NEW known \in (SUBSET Checksum) \cup {NoContracts},
         Enter(limit, size, h, known), work \in Nat
  PROVE  Loads(limit, h, known)
  <1>1. loaded' = known \/ (known # NoContracts /\ loaded' = known \cup {h})
    BY Zenon DEF Enter
  <1>2. \A S \in SUBSET Checksum : S # NoContracts
    BY QueriesAssumption, Zenon
  <1>3. known # NoContracts => known \cup {h} \in SUBSET Checksum
    <2> SUFFICES ASSUME known # NoContracts
                 PROVE  known \cup {h} \in SUBSET Checksum
      BY Zenon
    <2>1. known \in SUBSET Checksum
      BY Zenon
    <2> QED
      BY <2>1
  <1>4. /\ loaded' \in (SUBSET Checksum) \cup {NoContracts}
        /\ loaded' = NoContracts <=> known = NoContracts
    BY <1>1, <1>2, <1>3, Zenon
  <1> QED
    BY <1>4, EnterCredit, Zenon DEF Loads

\* A new call keeps the invariant: it is the first, or its caller runs and gave
\* it all that its VM had left.
LEMMA PushStep ==
  ASSUME IInv, NEW c, NEW limit, NEW size, NEW h, NEW known,
         Starts(c, limit, size, h, known), Loads(limit, h, known), UNCHANGED finished,
         step \in {"idle", "run"},
         step = "run" => known = loaded /\ limit = SubLimit(Top),
         step = "idle" => known \in {{}, NoContracts},
         size = IF known = NoContracts THEN Len(calls) + 1 ELSE Len(calls),
         size <= maxQueryStackSize
  PROVE  IInv'
  <1>1. calls \in Seq(Call) /\ work \in Nat /\ finished \in Nat /\ (step = "idle" <=> calls = << >>)
    BY Zenon DEF IInv, TypeInv
  <1>0. PICK n \in Nat : n = Len(calls)
    BY <1>1
  <1>m. PICK m \in Nat \ {0} : m = n + 1 /\ m - 1 = n
    BY <1>0
  <1>2. c \in Call /\ calls' = Append(calls, c) /\ c.limit = limit /\ c.size = size
        /\ c.internal = 0 /\ c.consumed = EnterCost(limit, h, known)
        /\ step' \in {"run", "panics"} /\ (step' = "run" => Sound(c))
    BY Zenon DEF Starts
  <1>3. /\ calls' \in Seq(Call) /\ Len(calls') = m /\ calls' # << >> /\ calls'[m] = c
        /\ DOMAIN calls' = 1..m /\ DOMAIN calls = 1..n
        /\ \A k \in 1..n : calls'[k] = calls[k]
    BY <1>1, <1>0, <1>m, <1>2
  <1>4. /\ \A k \in 1..m : k = m \/ k \in 1..n
        /\ \A k \in 1..n : k \in 1..m /\ k < m /\ k # m
    BY <1>m
  <1>b. (n > 0 => step = "run") /\ (n = 0 => step = "idle")
    <2>1. n = 0 <=> calls = << >>
      BY <1>0, <1>1
    <2>2. n > 0 => n # 0
      OBVIOUS
    <2> QED
      BY <1>1, <2>1, <2>2, Zenon
  <1>5. PICK g \in Nat : g = GasMultiplier * c.consumed
    BY <1>2, CallFields, GasType, Zenon
  <1>6. TypeInv'
    <2>1. work' \in Nat /\ finished' \in Nat
      BY <1>1, Zenon DEF Loads
    <2>2. step' # "idle" /\ step' \in {"idle", "run", "vmOk", "vmErr"} \cup Returned
      BY <1>2 DEF Returned
    <2> QED
      BY <1>3, <2>1, <2>2, Zenon DEF TypeInv, Loads
  <1>7. n > 0 => (loaded' = NoContracts <=> loaded = NoContracts)
    BY <1>b, Zenon DEF Loads
  <1>8. Nested'
    <2> SUFFICES ASSUME NEW k \in 1..m
                 PROVE  /\ calls'[k].size = IF loaded' = NoContracts THEN k ELSE k - 1
                        /\ calls'[k].size <= maxQueryStackSize
      BY <1>3, Zenon DEF Nested
    <2>1. CASE k = m
      <3>2. loaded' = NoContracts <=> known = NoContracts
        BY Zenon DEF Loads
      <3> QED
        BY <1>0, <1>m, <1>2, <1>3, <2>1, <3>2, Zenon
    <2>2. CASE k # m
      <3>1. k \in 1..n /\ n > 0
        BY <1>m, <2>2
      <3> QED
        <4>1. /\ calls[k].size = IF loaded = NoContracts THEN k ELSE k - 1
              /\ calls[k].size <= maxQueryStackSize
          BY <1>0, <3>1, Zenon DEF IInv, Nested
        <4> QED
          BY <1>3, <1>7, <3>1, <4>1, Zenon
    <2> QED
      BY <2>1, <2>2, Zenon
  <1>10. Waiting'
    <2> SUFFICES ASSUME NEW k \in 1..m
                 PROVE  /\ k < m => /\ Sound(calls'[k])
                                    /\ calls'[k + 1].limit = SubLimit(calls'[k])
                        /\ k = m /\ step' = "run" => Sound(calls'[k])
      BY <1>3, Zenon DEF Waiting
    <2>1. CASE k = m
      <3>1. ~(k < m)
        BY <1>m, <2>1
      <3> QED
        BY <1>2, <1>3, <2>1, <3>1, Zenon
    <2>2. CASE k = n
      <3>0. k \in 1..n /\ k + 1 = m /\ k # m /\ n > 0
        BY <1>m, <2>2
      <3>1. k \in 1..n /\ k + 1 = m /\ k # m /\ step = "run"
        BY <1>b, <3>0, Zenon
      <3>2. Sound(calls[n]) /\ Top = calls[n]
        BY <1>0, <2>2, <3>1, <1>3, Zenon DEF IInv, Waiting, Top
      <3> QED
        BY <1>2, <1>3, <2>2, <3>1, <3>2, Zenon
    <2>3. CASE k # m /\ k # n
      <3>1. k \in 1..n /\ k + 1 \in 1..n /\ k < n
        BY <1>m, <2>3
      <3>2. Sound(calls[k]) /\ calls[k + 1].limit = SubLimit(calls[k])
        BY <1>0, <1>3, <3>1, Zenon DEF IInv, Waiting
      <3> QED
        BY <1>3, <2>3, <3>1, <3>2, Zenon
    <2> QED
      BY <2>1, <2>2, <2>3, Zenon
  <1>11. Shares'
    <2>0. PICK wk \in Nat : /\ Credit(Backlog, work, wk)
                            /\ \E W, F : SharesOf(W, F, calls, step, wk, finished)
      BY Zenon DEF IInv, Shares
    <2>a. PICK wk2 \in Nat : wk2 = wk + g
      OBVIOUS
    <2>b. Credit(Backlog', work', wk2)
      <3>1. Backlog = Unrun(known, ran)
        BY <1>1, Zenon DEF Backlog, Unrun
      <3>2. Backlog' = Unrun(loaded', ran')
        BY <1>3, Zenon DEF Backlog
      <3>3. wk2 = wk + GasMultiplier * EnterCost(limit, h, known)
        BY <1>2, <1>5, <2>a, Zenon
      <3> QED
        BY <2>0, <3>1, <3>2, <3>3, Zenon DEF Loads
    <2>1. PICK W, F : SharesOf(W, F, calls, step, wk, finished)
      BY <2>0, Zenon
    <2>2. W[n] = wk /\ F[n] = finished
      BY <1>0, <2>1, Zenon DEF SharesOf
    <2>3. m - 1 <= Len(calls) /\ step \notin Returned
      <3>1. n <= n
        OBVIOUS
      <3>2. step \notin Returned
        BY DEF Returned
      <3> QED
        BY <1>m, <1>0, <3>1, <3>2, Zenon
    <2>4. /\ wk2 - W[m - 1] = g /\ finished' - F[m - 1] = 0
          /\ F[m - 1] <= finished'
      <3>1. W[m - 1] = wk /\ F[m - 1] = finished /\ finished' = finished /\ wk2 = wk + g
        BY <1>m, <2>a, <2>2, Zenon
      <3> QED
        BY <1>1, <3>1
    <2>5. TopOwes(step', c, g, 0)
      <3>1. c.consumed + 0 = c.consumed /\ g <= g /\ g <= g + 0
        BY <1>2, CallFields
      <3>2. Paid(c, g, 0) /\ Owes(c, g, 0)
        BY <1>2, <1>5, <3>1, Zenon DEF Paid, Owes, Settled, Covered
      <3> QED
        BY <3>2, Zenon DEF TopOwes
    <2>6. LastHasRest(W, F, calls, step, calls', step', wk2, finished', m)
      <3>1. wk2 \in Nat /\ finished' \in Nat
        BY <1>6, Zenon DEF TypeInv
      <3> QED
        BY <1>1, <1>m, <1>3, <1>4, <2>3, <2>4, <2>5, <3>1, Zenon DEF LastHasRest
    <2>7. \E W2, F2 : SharesOf(W2, F2, calls', step', wk2, finished')
      BY <2>1, <2>6, SharesStep, Zenon
    <2> QED
      BY <2>b, <2>7, Zenon DEF Shares
  <1> QED
    BY <1>6, <1>8, <1>10, <1>11, Zenon DEF IInv

\* A transaction executes a contract.
LEMMA BeginTxStep ==
  ASSUME IInv, NEW gas \in TxGas, NEW h \in Checksum, BeginTx(gas, h)
  PROVE  IInv'
  <1>1. step = "idle" /\ Enter(gas, 0, h, {}) /\ UNCHANGED finished
    BY Zenon DEF BeginTx, Begin, NewTxContracts
  <1>2. gas \in Nat /\ 0 \in Nat /\ {} \in (SUBSET Checksum) \cup {NoContracts} /\ {} # NoContracts
        /\ 0 <= maxQueryStackSize
    <2>1. {} # NoContracts
      BY QueriesAssumption, Zenon
    <2> QED
      BY <2>1, QueriesAssumption
  <1>3. work \in Nat /\ calls = << >>
    BY <1>1, Zenon DEF IInv, TypeInv
  <1>4. PICK c : Starts(c, gas, 0, h, {})
    BY <1>1, <1>2, <1>3, EnterStarts, Zenon
  <1>5. Loads(gas, h, {})
    BY <1>1, <1>2, <1>3, EnterLoads, Zenon
  <1>6. Len(calls) = 0
    BY <1>3
  <1> QED
    BY <1>1, <1>2, <1>4, <1>5, <1>6, PushStep, Zenon

\* A client queries a contract.
LEMMA SmartContractStateStep ==
  ASSUME IInv, NEW h \in Checksum, SmartContractState(h)
  PROVE  IInv'
  <1>1. step = "idle" /\ Enter(queryGasLimit, StackSize(0), h, NoContracts) /\ UNCHANGED finished
        /\ StackSize(0) <= maxQueryStackSize
    BY Zenon DEF SmartContractState, Begin
  <1>2. queryGasLimit \in Nat /\ NoContracts \in (SUBSET Checksum) \cup {NoContracts}
    BY QueriesAssumption, Zenon
  <1>3. work \in Nat /\ calls = << >>
    BY <1>1, Zenon DEF IInv, TypeInv
  <1>4. StackSize(0) = Len(calls) + 1 /\ StackSize(0) \in Nat
    BY <1>3 DEF StackSize
  <1>5. PICK c : Starts(c, queryGasLimit, StackSize(0), h, NoContracts)
    BY <1>1, <1>2, <1>3, <1>4, EnterStarts, Zenon
  <1>6. Loads(queryGasLimit, h, NoContracts)
    BY <1>1, <1>2, <1>3, EnterLoads, Zenon
  <1>7. step # "run"
    BY <1>1
  <1> QED
    BY <1>1, <1>4, <1>5, <1>6, <1>7, PushStep, Zenon

\* A contract queries a contract.
LEMMA SmartQueryStep ==
  ASSUME IInv, NEW h \in Checksum, SmartQuery(h)
  PROVE  IInv'
  <1>1. step = "run" /\ Enter(SubLimit(Top), StackSize(Top.size), h, loaded) /\ UNCHANGED finished
        /\ StackSize(Top.size) <= maxQueryStackSize
    BY Zenon DEF SmartQuery
  <1>2. step # "idle"
    BY <1>1
  <1>3. Top \in Call /\ Sound(Top) /\ Len(calls) \in Nat \ {0} /\ Top = calls[Len(calls)]
    BY <1>1, <1>2, TopFacts, Zenon
  <1>4. SubLimit(Top) \in Nat /\ Top.size \in Nat
    BY <1>3, SubLimitFits, CallFields, Zenon
  <1>5. work \in Nat /\ loaded \in (SUBSET Checksum) \cup {NoContracts}
    BY Zenon DEF IInv, TypeInv
  <1>6. Len(calls) \in 1..Len(calls)
    BY <1>3
  <1>7. Top.size = IF loaded = NoContracts THEN Len(calls) ELSE Len(calls) - 1
    BY <1>3, <1>6, Zenon DEF IInv, Nested
  <1>8. /\ StackSize(Top.size) \in Nat
        /\ StackSize(Top.size) = IF loaded = NoContracts THEN Len(calls) + 1 ELSE Len(calls)
    <2>1. CASE loaded = NoContracts
      <3>1. Top.size = Len(calls)
        BY <1>7, <2>1, Zenon
      <3>2. Top.size + 1 = Len(calls) + 1 /\ Top.size + 1 \in Nat
        BY <1>4, <3>1
      <3> QED
        BY <2>1, <3>2, Zenon DEF StackSize
    <2>2. CASE loaded # NoContracts
      <3>1. Top.size = Len(calls) - 1
        BY <1>7, <2>2, Zenon
      <3>2. Top.size + 1 = Len(calls) /\ Top.size + 1 \in Nat
        BY <1>3, <1>4, <3>1
      <3> QED
        BY <2>2, <3>2, Zenon DEF StackSize
    <2> QED
      BY <2>1, <2>2, Zenon
  <1>9. PICK c : Starts(c, SubLimit(Top), StackSize(Top.size), h, loaded)
    BY <1>1, <1>4, <1>5, <1>8, EnterStarts, Zenon
  <1>10. Loads(SubLimit(Top), h, loaded)
    BY <1>1, <1>4, <1>5, EnterLoads, Zenon
  <1> QED
    BY <1>1, <1>2, <1>8, <1>9, <1>10, PushStep, Zenon

\* A query returns to its caller, which it is charged to.
LEMMA QueryReturnsStep ==
  ASSUME IInv, QueryReturns
  PROVE  IInv'
  <1> DEFINE result == IF step = "panics" THEN CalledInVain(calls[Len(calls) - 1], QueryCharge)
                       ELSE Called(calls[Len(calls) - 1], QueryCharge)
  <1>1. /\ step \in Returned /\ Len(calls) > 1
        /\ calls' = Append(SubSeq(calls, 1, Len(calls) - 2), result.call)
        /\ step' = result.step
        /\ UNCHANGED <<loaded, work, finished, ran>>
    BY Zenon DEF QueryReturns, Returned
  <1>2. calls \in Seq(Call) /\ work \in Nat /\ finished \in Nat
    BY Zenon DEF IInv, TypeInv
  <1>3. PICK n \in Nat : n = Len(calls)
    BY <1>2
  <1>4. PICK m \in Nat \ {0} : m = n - 1 /\ m + 1 = n
    BY <1>1, <1>3
  <1>5. /\ m \in 1..n /\ n \in 1..n /\ m < n /\ n # m /\ ~(n < m)
        /\ \A k \in 1..m : k \in 1..n /\ (k = m \/ k \in 1..(m - 1))
        /\ \A k \in 1..(m - 1) : k \in 1..m /\ k < n /\ k < m /\ k # m /\ k + 1 \in 1..m
                                 /\ (k + 1 = m \/ k + 1 \in 1..(m - 1))
    BY <1>4
  <1>6. PICK c \in Call : c = calls[m]
    BY <1>2, <1>3, <1>5
  <1>7. PICK d \in Call : d = calls[n]
    BY <1>2, <1>3, <1>5
  <1>8. Sound(c) /\ d.limit = SubLimit(c)
    BY <1>3, <1>4, <1>5, <1>6, <1>7, Zenon DEF IInv, Waiting
  <1>9. QueryCharge = d.consumed /\ d.consumed \in Nat /\ calls[Len(calls) - 1] = c
    BY <1>3, <1>4, <1>6, <1>7, CallFields, Zenon DEF QueryCharge, Top
  <1>10. /\ Charged(c, result.call, d.consumed)
         /\ result.step \in {"run", "vmErr"} /\ (result.step = "run" => Sound(result.call))
    <2>1. CASE step = "panics"
      <3>1. result = CalledInVain(c, d.consumed)
        BY <1>9, <2>1, Zenon
      <3>2. "vmErr" # "run"
        OBVIOUS
      <3> HIDE DEF result
      <3> QED
        BY <1>9, <3>1, <3>2, InVainCharges, Zenon
    <2>2. CASE step # "panics"
      <3>1. result = Called(c, d.consumed)
        BY <1>9, <2>2, Zenon
      <3> HIDE DEF result
      <3> QED
        BY <1>8, <1>9, <3>1, CalledCharges, Zenon
    <2> QED
      BY <2>1, <2>2, Zenon
  <1>11. PICK r \in Call : r = result.call
    BY <1>10, Zenon DEF Charged
  <1> HIDE DEF result
  <1>12. /\ r.limit = c.limit /\ r.size = c.size
    BY <1>10, <1>11, Zenon DEF Charged
  <1>13. step' \in {"run", "vmErr"} /\ (step' = "run" => Sound(r))
    BY <1>1, <1>10, <1>11, Zenon
  <1>14. /\ calls' \in Seq(Call) /\ Len(calls') = m /\ calls'[m] = r /\ calls' # << >>
         /\ DOMAIN calls' = 1..m /\ DOMAIN calls = 1..n /\ calls # << >>
         /\ \A k \in 1..(m - 1) : calls'[k] = calls[k]
    <2>1. calls' = Append(SubSeq(calls, 1, n - 2), r)
      BY <1>1, <1>3, <1>11, Zenon
    <2>2. PICK l \in Nat : l = n - 2 /\ l + 1 = m /\ l = m - 1 /\ l <= n
      BY <1>4
    <2>3. PICK q : q = SubSeq(calls, 1, l)
      BY Zenon
    <2>4. q \in Seq(Call) /\ Len(q) = l /\ \A k \in 1..l : q[k] = calls[k]
      BY <1>2, <1>3, <2>2, <2>3
    <2>5. calls' = Append(q, r)
      BY <2>1, <2>2, <2>3, Zenon
    <2>6. /\ calls' \in Seq(Call) /\ Len(calls') = m /\ calls'[m] = r /\ calls' # << >>
          /\ \A k \in 1..l : calls'[k] = q[k]
      BY <2>2, <2>4, <2>5
    <2>7. DOMAIN calls' = 1..m /\ DOMAIN calls = 1..n /\ calls # << >>
      BY <1>2, <1>3, <1>4, <2>6
    <2> QED
      BY <2>2, <2>4, <2>6, <2>7, Zenon
  <1>15. TypeInv'
    <2>1. step' # "idle" /\ step' \in {"idle", "run", "vmOk", "vmErr"} \cup Returned
      BY <1>13
    <2> QED
      BY <1>1, <1>14, <2>1, Zenon DEF IInv, TypeInv
  <1>16. Nested'
    <2>1. ASSUME NEW k \in 1..m
          PROVE  calls'[k].size = calls[k].size
      BY <1>5, <1>6, <1>12, <1>14, Zenon
    <2> QED
      BY <1>1, <1>3, <1>5, <1>14, <2>1, Zenon DEF IInv, Nested
  <1>18. Waiting'
    <2> SUFFICES ASSUME NEW k \in 1..m
                 PROVE  /\ k < m => /\ Sound(calls'[k])
                                    /\ calls'[k + 1].limit = SubLimit(calls'[k])
                        /\ k = m /\ step' = "run" => Sound(calls'[k])
      BY <1>14, Zenon DEF Waiting
    <2>1. CASE k = m
      <3>1. ~(k < m)
        BY <2>1
      <3> QED
        BY <1>13, <1>14, <2>1, <3>1, Zenon
    <2>2. CASE k # m
      <3>1. k \in 1..(m - 1) /\ k \in 1..n /\ k < Len(calls)
        BY <1>3, <1>5, <2>2, Zenon
      <3>2. Sound(calls[k]) /\ calls[k + 1].limit = SubLimit(calls[k])
        BY <1>3, <3>1, Zenon DEF IInv, Waiting
      <3>3. calls'[k + 1].limit = calls[k + 1].limit
        BY <1>5, <1>6, <1>12, <1>14, <3>1, Zenon
      <3> QED
        BY <1>14, <2>2, <3>1, <3>2, <3>3, Zenon
    <2> QED
      BY <2>1, <2>2, Zenon
  <1>19. Shares'
    <2>0. PICK wk \in Nat : /\ Credit(Backlog, work, wk)
                            /\ \E W, F : SharesOf(W, F, calls, step, wk, finished)
      BY Zenon DEF IInv, Shares
    <2>a. Credit(Backlog', work', wk)
      <3>1. Backlog' = Backlog
        BY <1>1, <1>14, Zenon DEF Backlog
      <3> QED
        BY <1>1, <2>0, <3>1, Zenon
    <2>1. PICK W, F : SharesOf(W, F, calls, step, wk, finished)
      BY <2>0, Zenon
    <2>2. W[n] = wk /\ F[n] = finished /\ W \in [0..n -> Nat] /\ F \in [0..n -> Nat]
      BY <1>3, <2>1, Zenon DEF SharesOf
    <2>3. /\ F[m - 1] <= F[m] /\ F[n - 1] <= F[n]
          /\ Owes(calls[m], W[m] - W[m - 1], F[m] - F[m - 1])
          /\ TopOwes(step, calls[n], W[n] - W[n - 1], F[n] - F[n - 1])
      BY <1>3, <1>5, <2>1, Zenon DEF SharesOf
    <2>4. PICK w0 \in Nat, w1 \in Nat, w2 \in Nat : w0 = W[m - 1] /\ w1 = W[m] /\ w2 = W[n]
      <3>1. m - 1 \in 0..n /\ m \in 0..n /\ n \in 0..n
        BY <1>4
      <3> QED
        BY <2>2, <3>1, Zenon
    <2>5. PICK f0 \in Nat, f1 \in Nat, f2 \in Nat : f0 = F[m - 1] /\ f1 = F[m] /\ f2 = F[n]
      <3>1. m - 1 \in 0..n /\ m \in 0..n /\ n \in 0..n
        BY <1>4
      <3> QED
        BY <2>2, <3>1, Zenon
    <2>6. /\ f0 <= f1 /\ f1 <= f2 /\ Owes(c, w1 - w0, f1 - f0) /\ Paid(d, w2 - w1, f2 - f1)
          /\ wk = w2 /\ finished' = f2
      BY <1>1, <1>4, <1>6, <1>7, <2>2, <2>3, <2>4, <2>5, Zenon DEF TopOwes
    <2>7. /\ w1 - w0 \in Int /\ w2 - w1 \in Int /\ f1 - f0 \in Nat /\ f2 - f1 \in Nat
          /\ (w1 - w0) + (w2 - w1) = w2 - w0 /\ (f1 - f0) + (f2 - f1) = f2 - f0 /\ f0 <= f2
      BY <2>6
    <2>8. Charged(c, r, d.consumed)
      BY <1>10, <1>11, Zenon
    <2>9. Owes(r, (w1 - w0) + (w2 - w1), (f1 - f0) + (f2 - f1))
      BY <1>8, <2>6, <2>7, <2>8, QueryCovers, Zenon
    <2>10. TopOwes(step', calls'[m], wk - W[m - 1], finished' - F[m - 1])
      <3>1. step' \notin Returned
        BY <1>13 DEF Returned
      <3> QED
        BY <1>14, <2>4, <2>5, <2>6, <2>7, <2>9, <3>1, Zenon DEF TopOwes
    <2>11. m - 1 <= Len(calls) /\ m - 1 # Len(calls)
      BY <1>3, <1>4
    <2>12. LastHasRest(W, F, calls, step, calls', step', wk, finished', m)
      <3>1. wk \in Nat /\ finished' \in Nat /\ F[m - 1] <= finished'
        BY <2>5, <2>6, <2>7, Zenon
      <3> QED
        BY <1>2, <1>14, <2>10, <2>11, <3>1, Zenon DEF LastHasRest
    <2>13. \E W2, F2 : SharesOf(W2, F2, calls', step', wk, finished')
      BY <2>1, <2>12, SharesStep, Zenon
    <2> QED
      BY <2>a, <2>13, Zenon DEF Shares
  <1> QED
    BY <1>15, <1>16, <1>18, <1>19, Zenon DEF IInv

\* No calls, and nothing done for them.
LEMMA IdleInv ==
  ASSUME calls = << >>, step = "idle", work = 0, finished = 0,
         loaded \in (SUBSET Checksum) \cup {NoContracts}
  PROVE  IInv
  <1>1. Len(calls) = 0 /\ calls \in Seq(Call) /\ 1..Len(calls) = {} /\ DOMAIN calls = {}
    OBVIOUS
  <1>2. TypeInv
    <2>1. 0 \in Nat
      OBVIOUS
    <2> QED
      BY <1>1, <2>1, Zenon DEF TypeInv
  <1>3. Nested /\ Waiting
    BY <1>1, Zenon DEF Nested, Waiting
  <1>4. Shares
    <2> DEFINE Z == [i \in 0..0 |-> 0]
    <2>1. 0 \in 0..0 /\ 0 \in Nat
      OBVIOUS
    <2>2. Z \in [0..0 -> Nat] /\ Z[0] = 0
      BY <2>1, Zenon
    <2> HIDE DEF Z
    <2>3. SharesOf(Z, Z, calls, step, 0, finished)
      BY <1>1, <2>2, Zenon DEF SharesOf
    <2>4. Credit(Backlog, work, 0)
      BY NoCredit, Zenon DEF Backlog
    <2> QED
      BY <2>1, <2>3, <2>4, Zenon DEF Shares
  <1> QED
    BY <1>2, <1>3, <1>4, Zenon DEF IInv

\* The invariant holds before the first call.
LEMMA InitInv ==
  ASSUME Init
  PROVE  IInv
  BY IdleInv, Zenon DEF Init

\* The call from outside is over.
LEMMA EndStep ==
  ASSUME IInv, End
  PROVE  IInv'
  <1>1. /\ calls' = << >> /\ step' = "idle" /\ work' = 0 /\ finished' = 0
        /\ loaded' \in (SUBSET Checksum) \cup {NoContracts}
    BY Zenon DEF End, IInv, TypeInv
  <1>2. Len(calls') = 0 /\ calls' \in Seq(Call) /\ 1..Len(calls') = {} /\ DOMAIN calls' = {}
    BY <1>1
  <1>3. TypeInv'
    <2>1. 0 \in Nat
      OBVIOUS
    <2> QED
      BY <1>1, <1>2, <2>1, Zenon DEF TypeInv
  <1>4. Nested' /\ Waiting'
    BY <1>1, <1>2, Zenon DEF Nested, Waiting
  <1>5. Shares'
    <2> DEFINE Z == [i \in 0..0 |-> 0]
    <2>1. 0 \in 0..0 /\ 0 \in Nat
      OBVIOUS
    <2>2. Z \in [0..0 -> Nat] /\ Z[0] = 0
      BY <2>1, Zenon
    <2> HIDE DEF Z
    <2>3. SharesOf(Z, Z, calls', step', 0, finished')
      BY <1>1, <1>2, <2>2, Zenon DEF SharesOf
    <2>4. Credit(Backlog', work', 0)
      BY <1>1, NoCredit, Zenon DEF Backlog
    <2> QED
      BY <1>1, <2>1, <2>3, <2>4, Zenon DEF Shares
  <1> QED
    BY <1>3, <1>4, <1>5, Zenon DEF IInv

\* Every step keeps the invariant.
LEMMA NextStep ==
  ASSUME IInv, [Next]_vars
  PROVE  IInv'
  <1>1. CASE UNCHANGED vars
    <2>1. UNCHANGED <<calls, step, loaded, work, finished, ran>>
      BY <1>1, Zenon DEF vars
    <2> QED
      BY <2>1, Zenon DEF IInv, TypeInv, Nested, Waiting, Shares, Backlog
  <1>2. ASSUME NEW h \in Checksum, NEW gas \in TxGas, BeginTx(gas, h)
        PROVE  IInv'
    BY <1>2, BeginTxStep, Zenon
  <1>3. ASSUME NEW h \in Checksum, SmartContractState(h) \/ SmartQuery(h)
        PROVE  IInv'
    BY <1>3, SmartContractStateStep, SmartQueryStep, Zenon
  <1>4. /\ \A n \in ComputeGas : n \in Nat
        /\ \A n \in AccessGas : n \in Nat
        /\ \A n \in DeserGas : n \in Nat
    BY QueriesAssumption, Zenon
  <1>5. ASSUME NEW n \in ComputeGas, Compute(n)
        PROVE  IInv'
    BY <1>4, <1>5, ComputeStep, Zenon
  <1>6. ASSUME NEW n \in AccessGas, Access(n) \/ ChainQuery(n)
        PROVE  IInv'
    BY <1>4, <1>6, AccessStep, ChainQueryStep, Zenon
  <1>7. ASSUME NEW n \in DeserGas, VmReturns(n)
        PROVE  IInv'
    BY <1>4, <1>7, VmReturnsStep, Zenon
  <1>8. ASSUME NEW r \in Responses, ChargeEvents(r.attrs, r.events)
        PROVE  IInv'
    BY <1>8, ChargeEventsStep, Zenon
  <1>9. CASE ChargeRuntime \/ QueryReturns \/ End
    BY <1>9, ChargeRuntimeStep, QueryReturnsStep, EndStep, Zenon
  <1> QED
    BY <1>1, <1>2, <1>3, <1>5, <1>6, <1>7, <1>8, <1>9, Zenon DEF Next

----------------------------------------------------------------------------
(* What the invariant says.                                                *)

\* Calls, sets and counters keep their types, stack sizes are depths, callers
\* stay able to pay, and all that was done is shared out among the calls.
THEOREM Invariance == Spec => []IInv
  <1>1. Init => IInv
    BY InitInv, Zenon
  <1>2. IInv /\ [Next]_vars => IInv'
    BY NextStep, Zenon
  <1> QED
    BY <1>1, <1>2, PTL DEF Spec

\* What a contract has used fits into the gas of its call, with the whole limit
\* of the query that runs inside: QueryHandler.Query gives away no more than
\* runtimeGasForContract left to the VM, for every gas multiplier and limit.
THEOREM WorkIsPayable == Spec => []PayableWork
  <1>1. ASSUME IInv
        PROVE  PayableWork
    <2> SUFFICES ASSUME NEW k \in DOMAIN calls, k < Len(calls) \/ step = "run"
                 PROVE  LET sub == IF k < Len(calls) THEN calls[k + 1].limit ELSE 0 IN
                        GasMultiplier * (calls[k].consumed + sub) + calls[k].internal
                          <= GasMultiplier * calls[k].limit
      BY Zenon DEF PayableWork
    <2>1. calls \in Seq(Call)
      BY <1>1, Zenon DEF IInv, TypeInv
    <2>2. k \in 1..Len(calls) /\ (k < Len(calls) \/ k = Len(calls))
      BY <2>1
    <2>3. PICK c \in Call : c = calls[k]
      BY <2>1, <2>2
    <2>4. Sound(c) /\ (k < Len(calls) => calls[k + 1].limit = SubLimit(c))
      BY <1>1, <2>2, <2>3, Zenon DEF IInv, Waiting
    <2>5. PICK sub \in Nat : /\ sub = IF k < Len(calls) THEN calls[k + 1].limit ELSE 0
                             /\ GasMultiplier * sub <= Remaining(c)
      <3>1. SubLimit(c) \in Nat /\ GasMultiplier * SubLimit(c) <= Remaining(c)
        BY <2>4, SubLimitFits, Zenon
      <3>2. 0 \in Nat /\ GasMultiplier * 0 <= Remaining(c)
        <4>1. Remaining(c) \in Nat
          BY <2>4, SoundPays, Zenon
        <4> QED
          BY <4>1, Numbers
      <3> QED
        BY <2>4, <3>1, <3>2, Zenon
    <2>6. PICK rest \in Nat : rest = Remaining(c)
      BY <2>4, SoundPays, Zenon
    <2>7. GasMultiplier * c.consumed + c.internal + rest <= GasMultiplier * c.limit
      BY <2>4, <2>6, SoundPays, Zenon
    <2>8. PICK used \in Nat, own \in Nat, limit \in Nat :
            used = c.consumed /\ own = c.internal /\ limit = c.limit
      BY CallFields, Zenon
    <2>9. GasMultiplier * used + own + rest <= GasMultiplier * limit
          /\ GasMultiplier * sub <= rest
      BY <2>5, <2>6, <2>7, <2>8, Zenon
    <2>10. GasMultiplier * (used + sub) + own <= GasMultiplier * limit
      BY <2>9, Numbers, SMTT(60)
    <2> QED
      BY <2>3, <2>5, <2>8, <2>10, Zenon
  <1> QED
    BY <1>1, Invariance, PTL

\* When the call from outside is over, everything that was done for it was
\* charged to it, up to its limit: no path of a query (an answer, an error, a
\* panic in the VM or before it) does work that consumeRuntimeGas and the
\* deferred charge of QueryHandler.Query lose, and no contract is loaded for the
\* discount of checkDiscountEligibility without its full cost charged before.
THEOREM WorkIsCharged == Spec => []AllIsCharged
  <1>1. ASSUME IInv
        PROVE  AllIsCharged
    <2> SUFFICES ASSUME Len(calls) = 1, step \in {"answers", "errs", "panics"},
                        GasMultiplier * Top.limit < Word
                 PROVE  \/ work <= GasMultiplier * (Top.consumed + finished)
                        \/ GasMultiplier * Top.limit <= GasMultiplier * (Top.consumed + finished)
      BY Zenon DEF AllIsCharged
    <2>1. step # "idle" /\ step \in Returned
      BY DEF Returned
    <2>2. PICK c \in Call : c = Top /\ c = calls[1]
      BY <1>1, <2>1, TopFacts, Zenon
    <2>3. PICK wk \in Nat : /\ Credit(Backlog, work, wk)
                            /\ \E W, F : SharesOf(W, F, calls, step, wk, finished)
      BY <1>1, Zenon DEF IInv, Shares
    <2>a. PICK W, F : SharesOf(W, F, calls, step, wk, finished)
      BY <2>3, Zenon
    <2>4. 1 \in 1..1 /\ 1 - 1 = 0
      OBVIOUS
    <2>5. W[0] = 0 /\ F[0] = 0 /\ W[1] = wk /\ F[1] = finished
          /\ TopOwes(step, calls[1], W[1] - W[0], F[1] - F[0])
      BY <2>a, <2>4, Zenon DEF SharesOf
    <2>6. work \in Nat /\ finished \in Nat
      BY <1>1, Zenon DEF IInv, TypeInv
    <2>7. W[1] - W[0] = wk /\ F[1] - F[0] = finished
      BY <2>5, <2>6
    <2>8. Settled(c, wk, finished)
      BY <2>1, <2>2, <2>5, <2>7, Zenon DEF TopOwes, Paid
    <2>9. PICK limit \in Nat, used \in Nat : limit = c.limit /\ used = c.consumed
      BY CallFields, Zenon
    <2>10. wk <= GasMultiplier * (used + finished) \/ limit < used + finished
      BY <2>8, <2>9, Zenon DEF Settled
    <2>11. limit < used + finished => GasMultiplier * limit <= GasMultiplier * (used + finished)
      BY <2>6, GasOrder, Numbers, SMTT(60)
    <2>12. work <= wk
      <3>1. PICK k \in Nat : work + GasMultiplier * (InstanceCost * k) <= wk
        BY <2>3, Zenon DEF Credit
      <3>2. PICK p \in Nat : p = GasMultiplier * (InstanceCost * k)
        BY Product, GasType, Numbers, Zenon
      <3> QED
        BY <2>6, <3>1, <3>2
    <2>13. PICK paid \in Nat : paid = GasMultiplier * (used + finished)
      BY <2>6, GasType
    <2>14. work <= paid \/ limit < used + finished
      BY <2>6, <2>10, <2>12, <2>13
    <2> QED
      BY <2>2, <2>9, <2>11, <2>13, <2>14, Zenon
  <1> QED
    BY <1>1, Invariance, PTL

\* checkAndIncreaseQueryStackSize bounds how deep queries nest, in a
\* transaction and in a client's query.
THEOREM NestingIsBounded == Spec => []NestingBounded
  <1>1. ASSUME IInv
        PROVE  NestingBounded
    <2>1. calls \in Seq(Call)
      BY <1>1, Zenon DEF IInv, TypeInv
    <2>2. PICK n \in Nat : n = Len(calls)
      BY <2>1
    <2>3. PICK most \in Nat : most = maxQueryStackSize
      BY QueriesAssumption, Zenon
    <2>4. n > 0 => (IF loaded = NoContracts THEN n ELSE n - 1) <= most
      <3>1. n > 0 => n \in 1..n
        OBVIOUS
      <3> QED
        BY <1>1, <2>2, <2>3, <3>1, Zenon DEF IInv, Nested
    <2>5. n <= most + (IF loaded = NoContracts THEN 0 ELSE 1)
      BY <2>4
    <2> QED
      BY <2>2, <2>3, <2>5, Zenon DEF NestingBounded
  <1> QED
    BY <1>1, Invariance, PTL
============================================================================
