-------------------------- MODULE AdmissionProofs --------------------------
(***************************************************************************)
(* What is decided before a message runs: whether an authorization of      *)
(* x/authz lets it (Authz), and the counter its transaction gets from the  *)
(* ante handler (Ante).  For any grants, messages, blocks and numbers of   *)
(* them.                                                                   *)
(***************************************************************************)
EXTENDS Authz, Ante, TLAPS

----------------------------------------------------------------------------
(* Sequences.                                                              *)

\* The elements of a sequence.
LEMMA SeqElements ==
  ASSUME NEW S, NEW s \in Seq(S)
  PROVE  /\ Len(s) \in Nat /\ DOMAIN s = 1..Len(s)
         /\ \A i \in 1..Len(s) : s[i] \in S
  OBVIOUS

\* One element replaced.
LEMMA SeqExcept ==
  ASSUME NEW S, NEW s \in Seq(S), NEW i \in 1..Len(s), NEW e \in S
  PROVE  /\ [s EXCEPT ![i] = e] \in Seq(S) /\ Len([s EXCEPT ![i] = e]) = Len(s)
         /\ \A j \in 1..Len(s) : [s EXCEPT ![i] = e][j] = IF j = i THEN e ELSE s[j]
  OBVIOUS

\* Two sequences one after the other.
LEMMA SeqConcat ==
  ASSUME NEW S, NEW s \in Seq(S), NEW t \in Seq(S)
  PROVE  /\ s \o t \in Seq(S) /\ Len(s \o t) = Len(s) + Len(t)
         /\ \A i \in 1..(Len(s) + Len(t)) :
              (s \o t)[i] = IF i <= Len(s) THEN s[i] ELSE t[i - Len(s)]
  OBVIOUS

\* One element more.
LEMMA SeqAppend ==
  ASSUME NEW S, NEW s \in Seq(S), NEW e \in S
  PROVE  /\ Append(s, e) \in Seq(S) /\ Len(Append(s, e)) = Len(s) + 1
         /\ Append(s, e)[Len(s) + 1] = e
         /\ \A i \in 1..Len(s) : Append(s, e)[i] = s[i]
  OBVIOUS

----------------------------------------------------------------------------
(* Coins, limits and lists.                                                *)

\* sdk.Coins: what may be subtracted, and that it adds up.
LEMMA CoinsSub ==
  ASSUME NEW a \in Coins, NEW b \in Coins, IsAllLTE(b, a)
  PROVE  Sub(a, b) \in Coins /\ (Sub(a, b) = Zero <=> a = b)
  <1>1. \A d \in Denom : a[d] \in Nat /\ b[d] \in Nat /\ b[d] <= a[d]
    BY DEF Coins, IsAllLTE
  <1>2. \A d \in Denom : a[d] - b[d] \in Nat /\ (a[d] - b[d] = 0 <=> a[d] = b[d])
    BY <1>1
  <1>3. Sub(a, b) \in Coins
    BY <1>2 DEF Coins, Sub
  <1>4. Sub(a, b) = Zero <=> \A d \in Denom : a[d] - b[d] = 0
    BY <1>2 DEF Sub, Zero
  <1>5. a = b <=> \A d \in Denom : a[d] = b[d]
    BY DEF Coins
  <1> QED
    BY <1>2, <1>3, <1>4, <1>5, Zenon

\* Nothing subtracted, and two amounts subtracted one after the other.
LEMMA CoinsAdd ==
  ASSUME NEW a \in Coins, NEW b \in Coins, NEW c \in Coins,
         IsAllLTE(b, a), IsAllLTE(c, Sub(a, b))
  PROVE  /\ Add(b, c) \in Coins /\ IsAllLTE(Add(b, c), a)
         /\ Sub(a, Add(b, c)) = Sub(Sub(a, b), c)
  <1>1. \A d \in Denom : /\ a[d] \in Nat /\ b[d] \in Nat /\ c[d] \in Nat
                         /\ c[d] <= a[d] - b[d]
    BY DEF Coins, IsAllLTE, Sub
  <1>2. \A d \in Denom : /\ b[d] + c[d] \in Nat /\ b[d] + c[d] <= a[d]
                         /\ a[d] - (b[d] + c[d]) = (a[d] - b[d]) - c[d]
    BY <1>1
  <1> QED
    BY <1>2 DEF Coins, IsAllLTE, Sub, Add

\* The zero coins.
LEMMA CoinsZero ==
  ASSUME NEW a \in Coins
  PROVE  Zero \in Coins /\ Sub(a, Zero) = a /\ IsAllLTE(Zero, a)
         /\ (IsAllLTE(a, Zero) => a = Zero)
  <1>1. \A d \in Denom : a[d] \in Nat /\ a[d] - 0 = a[d] /\ 0 <= a[d] /\ (a[d] <= 0 => a[d] = 0)
    BY DEF Coins
  <1> QED
    BY <1>1 DEF Coins, Zero, Sub, IsAllLTE

\* What remains of a limit after some calls and funds.
Left(limit, calls, spent) ==
  [type |-> limit.type,
   calls |-> IF limit.type = "funds" THEN limit.calls ELSE limit.calls - calls,
   amounts |-> Sub(limit.amounts, spent)]

\* A limit admits these calls and funds.
Admits(limit, calls, spent) ==
  /\ limit.type # "funds" => calls <= limit.calls
  /\ IsAllLTE(spent, limit.amounts)

\* The fields of a limit.
LEMMA LimitFields ==
  ASSUME NEW l \in Limit
  PROVE  /\ l.type \in {"calls", "funds", "combined"} /\ l.calls \in Nat /\ l.amounts \in Coins
         /\ l.type = "calls" => l.amounts = Zero
         /\ l.type = "funds" => l.calls = 0
         /\ l = [type |-> l.type, calls |-> l.calls, amounts |-> l.amounts]
  BY DEF Limit

\* What remains of an admitting limit is a limit; it is valid iff something
\* is left.
LEMMA LeftIsLimit ==
  ASSUME NEW l \in Limit, NEW calls \in Nat, NEW spent \in Coins, Admits(l, calls, spent)
  PROVE  /\ Left(l, calls, spent) \in Limit
         /\ ValidLimit(Left(l, calls, spent)) <=> Lasts(l, calls, spent)
         /\ Left(l, calls, spent) =
              [l EXCEPT !.calls = IF l.type = "funds" THEN @ ELSE @ - calls,
                        !.amounts = Sub(@, spent)]
  <1> DEFINE r == Left(l, calls, spent)
  <1>1. /\ l.type \in {"calls", "funds", "combined"} /\ l.calls \in Nat /\ l.amounts \in Coins
        /\ l.type = "calls" => l.amounts = Zero
        /\ l.type = "funds" => l.calls = 0
        /\ l = [type |-> l.type, calls |-> l.calls, amounts |-> l.amounts]
    BY LimitFields
  <1>2. Sub(l.amounts, spent) \in Coins /\ (Sub(l.amounts, spent) = Zero <=> l.amounts = spent)
    BY <1>1, CoinsSub, Zenon DEF Admits
  <1>3. l.type # "funds" => /\ l.calls - calls \in Nat
                            /\ l.calls - calls # 0 <=> calls < l.calls
    BY <1>1 DEF Admits
  <1>4. l.type = "calls" => Sub(l.amounts, spent) = Zero
    BY <1>1, <1>2, CoinsZero, Zenon DEF Admits
  <1>5. /\ r.type = l.type /\ r.amounts = Sub(l.amounts, spent)
        /\ r.calls = IF l.type = "funds" THEN l.calls ELSE l.calls - calls
        /\ r = [type |-> r.type, calls |-> r.calls, amounts |-> r.amounts]
    BY Zenon DEF Left
  <1>6. r = [l EXCEPT !.calls = IF l.type = "funds" THEN @ ELSE @ - calls,
                      !.amounts = Sub(@, spent)]
    <2> DEFINE n == IF l.type = "funds" THEN l.calls ELSE l.calls - calls
               c == Sub(l.amounts, spent)
    <2>1. r = [type |-> l.type, calls |-> n, amounts |-> c]
      BY Zenon DEF Left
    <2>2. [l EXCEPT !.calls = n, !.amounts = c] = [type |-> l.type, calls |-> n, amounts |-> c]
      <3> DEFINE e == [l EXCEPT !.calls = n, !.amounts = c]
                 S == [type : {l.type}, calls : {l.calls, n}, amounts : {l.amounts, c}]
      <3> HIDE DEF n, c
      <3>1. l \in S
        BY <1>1, Zenon
      <3>2. e \in S /\ e.type = l.type /\ e.calls = n /\ e.amounts = c
        BY <3>1, Zenon
      <3> HIDE DEF e
      <3>3. e = [type |-> l.type, calls |-> n, amounts |-> c]
        BY <3>2
      <3> QED
        BY <3>3, Zenon DEF e
    <2> QED
      BY <2>1, <2>2, Zenon
  <1> HIDE DEF r
  <1>7. r \in Limit
    <2>1. r.calls \in Nat
      BY <1>1, <1>3, <1>5, Zenon
    <2>2. r \in [type : {"calls", "funds", "combined"}, calls : Nat, amounts : Coins]
      BY <1>1, <1>2, <1>5, <2>1, Zenon
    <2> QED
      BY <1>1, <1>4, <1>5, <2>2, Zenon DEF Limit
  <1>8. ValidLimit(r) <=> Lasts(l, calls, spent)
    BY <1>1, <1>2, <1>3, <1>5, Zenon DEF ValidLimit, Lasts
  <1> QED
    BY <1>6, <1>7, <1>8, Zenon DEF r

\* Accept of a limit in force: it applies iff it admits one more call with
\* these funds, it never errs, and what remains is deleted iff nothing is left.
LEMMA LimitAccepts ==
  ASSUME NEW l \in Limit, ValidLimit(l), NEW f \in Coins, NEW r, r = AcceptLimit(l, f)
  PROVE  /\ r.error = FALSE /\ r.accepted \in BOOLEAN
         /\ r.accepted <=> IF l.type = "calls" THEN f = Zero ELSE IsAllLTE(f, l.amounts)
         /\ r.accepted => /\ Admits(l, 1, f)
                          /\ r.rest = IF ValidLimit(Left(l, 1, f)) THEN Left(l, 1, f) ELSE None
  <1>1. /\ l.type \in {"calls", "funds", "combined"} /\ l.calls \in Nat /\ l.amounts \in Coins
        /\ l.type = "calls" => l.amounts = Zero
        /\ l.type = "funds" => l.calls = 0
        /\ l = [type |-> l.type, calls |-> l.calls, amounts |-> l.amounts]
    BY LimitFields
  <1>2. /\ l.type # "funds" => l.calls # 0 /\ 1 <= l.calls
        /\ l.type # "calls" => l.amounts # Zero
    BY <1>1 DEF ValidLimit
  <1>3. /\ \A e : /\ Applies(e).accepted = TRUE /\ Applies(e).error = FALSE
                  /\ Applies(e).rest = e
        /\ Refused.accepted = FALSE /\ Refused.error = FALSE
    BY Zenon DEF Applies, Refused
  <1>4. CASE l.type = "calls"
    <2>1. r = AcceptCalls(l, f)
      BY <1>4, Zenon DEF AcceptLimit
    <2>2. CASE f # Zero
      BY <1>3, <1>4, <2>1, <2>2, Zenon DEF AcceptCalls
    <2>3. CASE f = Zero
      <3>1. /\ Sub(l.amounts, f) = Zero /\ IsAllLTE(f, l.amounts)
        BY <1>1, <1>4, <2>3, CoinsZero, Zenon
      <3>2. Left(l, 1, f) = MaxCallsLimit(l.calls - 1)
        BY <1>4, <3>1, Zenon DEF Left, MaxCallsLimit
      <3>3. ValidLimit(MaxCallsLimit(l.calls - 1)) <=> l.calls # 1
        BY <1>1, <1>2, <1>4 DEF ValidLimit, MaxCallsLimit
      <3>4. r = IF l.calls = 1 THEN Applies(None) ELSE Applies(MaxCallsLimit(l.calls - 1))
        BY <1>2, <1>4, <2>1, <2>3, Zenon DEF AcceptCalls
      <3> QED
        BY <1>2, <1>3, <1>4, <2>3, <3>1, <3>2, <3>3, <3>4, Zenon DEF Admits
    <2> QED
      BY <2>2, <2>3, Zenon
  <1>5. CASE l.type = "funds"
    <2>1. r = AcceptFunds(l, f)
      BY <1>5, Zenon DEF AcceptLimit
    <2>2. Left(l, 1, f) = MaxFundsLimit(Sub(l.amounts, f))
      BY <1>1, <1>5, Zenon DEF Left, MaxFundsLimit
    <2>3. ValidLimit(MaxFundsLimit(Sub(l.amounts, f))) <=> Sub(l.amounts, f) # Zero
      BY Zenon DEF ValidLimit, MaxFundsLimit
    <2>4. CASE f = Zero
      <3>1. Sub(l.amounts, f) = l.amounts /\ IsAllLTE(f, l.amounts)
        BY <1>1, <2>4, CoinsZero, Zenon
      <3>2. MaxFundsLimit(l.amounts) = l
        BY <1>1, <1>5, Zenon DEF MaxFundsLimit
      <3>3. r = Applies(l)
        BY <2>1, <2>4, Zenon DEF AcceptFunds
      <3> QED
        BY <1>2, <1>3, <1>5, <2>2, <2>3, <3>1, <3>2, <3>3, Zenon DEF Admits
    <2>5. CASE f # Zero /\ ~IsAllLTE(f, l.amounts)
      <3>1. r = Refused
        BY <2>1, <2>5, Zenon DEF AcceptFunds
      <3> QED
        BY <1>3, <1>5, <2>5, <3>1, Zenon
    <2>6. CASE f # Zero /\ IsAllLTE(f, l.amounts)
      <3>1. r = IF Sub(l.amounts, f) = Zero THEN Applies(None)
                ELSE Applies(MaxFundsLimit(Sub(l.amounts, f)))
        BY <2>1, <2>6, Zenon DEF AcceptFunds
      <3> QED
        BY <1>3, <1>5, <2>2, <2>3, <2>6, <3>1, Zenon DEF Admits
    <2> QED
      BY <2>4, <2>5, <2>6, Zenon
  <1>6. CASE l.type = "combined"
    <2>1. r = AcceptCombined(l, f)
      BY <1>6, Zenon DEF AcceptLimit
    <2>2. Left(l, 1, f) = CombinedLimit(l.calls - 1, Sub(l.amounts, f))
      BY <1>1, <1>6, Zenon DEF Left, CombinedLimit
    <2>3. ValidLimit(CombinedLimit(l.calls - 1, Sub(l.amounts, f)))
            <=> l.calls # 1 /\ Sub(l.amounts, f) # Zero
      <3>1. l.calls - 1 # 0 <=> l.calls # 1
        BY <1>1
      <3> QED
        BY <3>1, Zenon DEF ValidLimit, CombinedLimit
    <2>4. CASE ~IsAllLTE(f, l.amounts)
      <3>1. r = Refused
        BY <2>1, <2>4, Zenon DEF AcceptCombined
      <3> QED
        BY <1>3, <1>6, <2>4, <3>1, Zenon
    <2>5. CASE IsAllLTE(f, l.amounts)
      <3>1. l.calls # 1 => l.calls > 1
        BY <1>1, <1>2, <1>6
      <3>2. r = IF l.calls = 1 THEN Applies(None)
                ELSE IF Sub(l.amounts, f) = Zero THEN Applies(None)
                ELSE Applies(CombinedLimit(l.calls - 1, Sub(l.amounts, f)))
        BY <1>2, <1>6, <2>1, <2>5, <3>1 DEF AcceptCombined
      <3> QED
        BY <1>2, <1>3, <1>6, <2>2, <2>3, <2>5, <3>2, Zenon DEF Admits
    <2> QED
      BY <2>4, <2>5, Zenon
  <1> QED
    BY <1>1, <1>4, <1>5, <1>6, Zenon

\* Where place k of the list without its grant i comes from.
Skip(i, k) == IF k < i THEN k ELSE k + 1

\* Without: removing grant i from a list (append(list[:i], list[i+1:]...))
\* keeps the other grants, in their order.
LEMMA Removed ==
  ASSUME NEW S, NEW s \in Seq(S), NEW i \in 1..Len(s), NEW t, t = Without(s, i)
  PROVE  /\ t \in Seq(S) /\ Len(t) = Len(s) - 1
         /\ \A k \in 1..Len(t) : Skip(i, k) \in 1..Len(s) /\ t[k] = s[Skip(i, k)]
  <1> DEFINE a == SubSeq(s, 1, i - 1)
             b == SubSeq(s, i + 1, Len(s))
  <1>0. Len(s) \in Nat /\ i \in Int /\ 1 <= i /\ i <= Len(s)
    OBVIOUS
  <1>1. /\ a \in Seq(S) /\ Len(a) = i - 1
        /\ \A k \in 1..(i - 1) : a[k] = s[k]
    OBVIOUS
  <1>2. /\ b \in Seq(S) /\ Len(b) = Len(s) - i
        /\ \A k \in 1..(Len(s) - i) : b[k] = s[i + k]
    OBVIOUS
  <1>3. t = a \o b
    BY Zenon DEF Without
  <1> HIDE DEF a, b
  <1>4. /\ t \in Seq(S) /\ Len(t) = Len(s) - 1
        /\ \A k \in 1..Len(t) : t[k] = IF k <= i - 1 THEN a[k] ELSE b[k - (i - 1)]
    <2>1. /\ t \in Seq(S) /\ Len(t) = Len(a) + Len(b)
          /\ \A k \in 1..(Len(a) + Len(b)) : t[k] = IF k <= Len(a) THEN a[k] ELSE b[k - Len(a)]
      <3>1. /\ a \o b \in Seq(S) /\ Len(a \o b) = Len(a) + Len(b)
            /\ \A k \in 1..(Len(a) + Len(b)) :
                 (a \o b)[k] = IF k <= Len(a) THEN a[k] ELSE b[k - Len(a)]
        BY <1>1, <1>2, SeqConcat, Zenon
      <3> QED
        BY <1>3, <3>1, Zenon
    <2>2. Len(a) + Len(b) = Len(s) - 1
      BY <1>0, <1>1, <1>2
    <2> QED
      BY <1>1, <2>1, <2>2, Zenon
  <1> SUFFICES ASSUME NEW k \in 1..Len(t)
               PROVE  Skip(i, k) \in 1..Len(s) /\ t[k] = s[Skip(i, k)]
    BY <1>4, Zenon
  <1>5. CASE k < i
    <2>1. k \in 1..(i - 1) /\ k <= i - 1 /\ k \in 1..Len(s)
      BY <1>0, <1>4, <1>5
    <2> QED
      BY <1>1, <1>4, <1>5, <2>1, Zenon DEF Skip
  <1>6. CASE ~(k < i)
    <2>1. k - (i - 1) \in 1..(Len(s) - i) /\ i + (k - (i - 1)) = k + 1 /\ ~(k <= i - 1)
          /\ k + 1 \in 1..Len(s)
      BY <1>0, <1>4, <1>6
    <2> QED
      BY <1>2, <1>4, <1>6, <2>1, Zenon DEF Skip
  <1> QED
    BY <1>5, <1>6, Zenon

\* Skip passes over i only, and keeps the order.
LEMMA SkipFacts ==
  ASSUME NEW n \in Nat, NEW i \in 1..n
  PROVE  /\ \A k \in 1..(n - 1) : Skip(i, k) \in 1..n /\ Skip(i, k) # i
         /\ \A k, l \in 1..(n - 1) : k < l => Skip(i, k) < Skip(i, l)
         /\ \A m \in 1..n : m # i => \E k \in 1..(n - 1) : Skip(i, k) = m
  <1>1. ASSUME NEW m \in 1..n, m # i
        PROVE  \E k \in 1..(n - 1) : Skip(i, k) = m
    <2>1. CASE m < i
      <3>1. m \in 1..(n - 1) /\ Skip(i, m) = m
        BY <2>1 DEF Skip
      <3> QED
        BY <3>1, Zenon
    <2>2. CASE ~(m < i)
      <3>1. m - 1 \in 1..(n - 1) /\ Skip(i, m - 1) = m
        BY <1>1, <2>2 DEF Skip
      <3> QED
        BY <3>1, Zenon
    <2> QED
      BY <2>1, <2>2, Zenon
  <1>2. /\ \A k \in 1..(n - 1) : Skip(i, k) \in 1..n /\ Skip(i, k) # i
        /\ \A k, l \in 1..(n - 1) : k < l => Skip(i, k) < Skip(i, l)
    BY DEF Skip
  <1> QED
    BY <1>1, <1>2, Zenon

----------------------------------------------------------------------------
(* The invariant of an authorization to execute or migrate contracts.      *)

Auth ==
  [list : Seq(ContractGrant), granted : Seq(ContractGrant), places : Seq(Nat),
   calls : Seq(Nat), spent : Seq(Coins)]

LeftAt(auth, i) == Left(auth.granted[i].limit, auth.calls[i], auth.spent[i])

\* Every grant of the list is that of its place, but for its limit, which is
\* what is left there; grants with nothing left are not in the list.
BudgetInv(auth) ==
  /\ auth \in Auth
  /\ Len(auth.calls) = Len(auth.granted) /\ Len(auth.spent) = Len(auth.granted)
  /\ Len(auth.places) = Len(auth.list)
  /\ \A i \in 1..Len(auth.granted) :
       /\ ValidFilter(auth.granted[i].filter)
       /\ Admits(auth.granted[i].limit, auth.calls[i], auth.spent[i])
       /\ ValidLimit(LeftAt(auth, i)) => \E k \in 1..Len(auth.list) : auth.places[k] = i
  /\ \A k \in 1..Len(auth.list) :
       /\ auth.places[k] \in 1..Len(auth.granted)
       /\ auth.list[k].contract = auth.granted[auth.places[k]].contract
       /\ auth.list[k].filter = auth.granted[auth.places[k]].filter
       /\ auth.list[k].limit = LeftAt(auth, auth.places[k])
       /\ ValidLimit(auth.list[k].limit)
  /\ \A k, l \in 1..Len(auth.list) : k < l => auth.places[k] < auth.places[l]

\* The types of an authorization's fields.
LEMMA AuthFields ==
  ASSUME NEW auth \in Auth
  PROVE  /\ auth.list \in Seq(ContractGrant) /\ auth.granted \in Seq(ContractGrant)
         /\ auth.places \in Seq(Nat) /\ auth.calls \in Seq(Nat) /\ auth.spent \in Seq(Coins)
         /\ Len(auth.list) \in Nat /\ DOMAIN auth.list = 1..Len(auth.list)
         /\ Len(auth.granted) \in Nat /\ DOMAIN auth.granted = 1..Len(auth.granted)
         /\ \A k \in 1..Len(auth.list) : auth.list[k] \in ContractGrant
         /\ \A i \in 1..Len(auth.granted) : auth.granted[i] \in ContractGrant
         /\ \A i \in 1..Len(auth.calls) : auth.calls[i] \in Nat
         /\ \A i \in 1..Len(auth.spent) : auth.spent[i] \in Coins
         /\ \A k \in 1..Len(auth.places) : auth.places[k] \in Nat
  <1>1. /\ auth.list \in Seq(ContractGrant) /\ auth.granted \in Seq(ContractGrant)
        /\ auth.places \in Seq(Nat) /\ auth.calls \in Seq(Nat) /\ auth.spent \in Seq(Coins)
    BY Zenon DEF Auth
  <1> QED
    BY <1>1, SeqElements, Zenon

\* The fields of a grant.
LEMMA GrantFields ==
  ASSUME NEW g \in ContractGrant
  PROVE  g.contract \in Contract /\ g.limit \in Limit /\ g.filter \in Filter
  BY Zenon DEF ContractGrant

\* A valid list of grants is an authorization with everything left.
LEMMA FreshInv ==
  ASSUME NEW list \in Seq(ContractGrant), validateGrants(list)
  PROVE  BudgetInv(Fresh(list))
  <1> DEFINE n == Len(list)
             a == Fresh(list)
  <1>1. n \in Nat /\ DOMAIN list = 1..n /\ \A i \in 1..n : list[i] \in ContractGrant
    BY SeqElements, Zenon
  <1>2. /\ a.list = list /\ a.granted = list
        /\ a.places = [i \in 1..n |-> i] /\ a.calls = [i \in 1..n |-> 0]
        /\ a.spent = [i \in 1..n |-> Zero]
        /\ a = [list |-> a.list, granted |-> a.granted, places |-> a.places,
                calls |-> a.calls, spent |-> a.spent]
    BY <1>1, Zenon DEF Fresh
  <1> HIDE DEF a, n
  <1>3. Zero \in Coins
    BY DEF Zero, Coins
  <1>4. /\ a.places \in Seq(Nat) /\ Len(a.places) = n
        /\ a.calls \in Seq(Nat) /\ Len(a.calls) = n
    <2>1. /\ [i \in 1..n |-> i] \in Seq(Nat) /\ Len([i \in 1..n |-> i]) = n
          /\ [i \in 1..n |-> 0] \in Seq(Nat) /\ Len([i \in 1..n |-> 0]) = n
      BY <1>1
    <2> QED
      BY <1>2, <2>1, Zenon
  <1>5. a.spent \in Seq(Coins) /\ Len(a.spent) = n
    <2>1. [i \in 1..n |-> Zero] \in Seq(Coins) /\ Len([i \in 1..n |-> Zero]) = n
      BY <1>1, <1>3
    <2> QED
      BY <1>2, <2>1, Zenon
  <1>6. a \in Auth
    BY <1>2, <1>4, <1>5, Zenon DEF Auth
  <1>7. ASSUME NEW i \in 1..n
        PROVE  /\ ValidFilter(list[i].filter) /\ ValidLimit(list[i].limit)
               /\ Admits(list[i].limit, a.calls[i], a.spent[i])
               /\ LeftAt(a, i) = list[i].limit /\ a.places[i] = i
    <2>1. list[i].limit \in Limit /\ ValidFilter(list[i].filter) /\ ValidLimit(list[i].limit)
      BY <1>1, GrantFields, Zenon DEF validateGrants
    <2>2. a.calls[i] = 0 /\ a.spent[i] = Zero /\ a.places[i] = i
      BY <1>2, Zenon
    <2> DEFINE l == list[i].limit
    <2>3. /\ l.calls \in Nat /\ l.amounts \in Coins
          /\ l = [type |-> l.type, calls |-> l.calls, amounts |-> l.amounts]
      BY <2>1, LimitFields, Zenon
    <2>4. Sub(l.amounts, Zero) = l.amounts /\ IsAllLTE(Zero, l.amounts)
      BY <2>3, CoinsZero, Zenon
    <2> HIDE DEF l
    <2>5. l.calls - 0 = l.calls /\ 0 <= l.calls
      BY <2>3
    <2>6. Admits(l, 0, Zero)
      BY <2>4, <2>5, Zenon DEF Admits
    <2>7. Left(l, 0, Zero) = l
      BY <2>3, <2>4, <2>5, Zenon DEF Left
    <2> QED
      BY <1>2, <2>1, <2>2, <2>6, <2>7, Zenon DEF LeftAt, l
  <1>8. n = Len(list)
    BY DEF n
  <1>9. \A k, l \in 1..n : k < l => a.places[k] < a.places[l]
    BY <1>7, Zenon
  <1> QED
    BY <1>2, <1>4, <1>5, <1>6, <1>7, <1>8, <1>9, Zenon DEF BudgetInv, a

\* WithinBudget follows for an authorization.
LEMMA BudgetIsKept ==
  ASSUME NEW auth, BudgetInv(auth)
  PROVE  /\ \A i, j \in DOMAIN auth.list : i < j => auth.places[i] < auth.places[j]
         /\ \A i \in DOMAIN auth.granted :
              LET limit == auth.granted[i].limit
                  left == [limit EXCEPT
                             !.calls = IF limit.type = "funds" THEN @ ELSE @ - auth.calls[i],
                             !.amounts = Sub(@, auth.spent[i])]
              IN
              /\ limit.type # "funds" => auth.calls[i] <= limit.calls
              /\ IsAllLTE(auth.spent[i], limit.amounts)
              /\ {auth.list[k] : k \in {k \in DOMAIN auth.list : auth.places[k] = i}}
                   = IF Lasts(limit, auth.calls[i], auth.spent[i])
                     THEN {[auth.granted[i] EXCEPT !.limit = left]} ELSE {}
  <1>1. auth \in Auth /\ Len(auth.calls) = Len(auth.granted) /\ Len(auth.spent) = Len(auth.granted)
    BY Zenon DEF BudgetInv
  <1>2. /\ DOMAIN auth.list = 1..Len(auth.list) /\ DOMAIN auth.granted = 1..Len(auth.granted)
    BY <1>1, AuthFields, Zenon
  <1>3. \A i, j \in DOMAIN auth.list : i < j => auth.places[i] < auth.places[j]
    BY <1>2, Zenon DEF BudgetInv
  <1>4. ASSUME NEW i \in DOMAIN auth.granted
        PROVE  LET limit == auth.granted[i].limit
                   left == [limit EXCEPT
                             !.calls = IF limit.type = "funds" THEN @ ELSE @ - auth.calls[i],
                             !.amounts = Sub(@, auth.spent[i])]
               IN
               /\ limit.type # "funds" => auth.calls[i] <= limit.calls
               /\ IsAllLTE(auth.spent[i], limit.amounts)
               /\ {auth.list[k] : k \in {k \in DOMAIN auth.list : auth.places[k] = i}}
                    = IF Lasts(limit, auth.calls[i], auth.spent[i])
                      THEN {[auth.granted[i] EXCEPT !.limit = left]} ELSE {}
    <2> DEFINE limit == auth.granted[i].limit
               left == [limit EXCEPT
                          !.calls = IF limit.type = "funds" THEN @ ELSE @ - auth.calls[i],
                          !.amounts = Sub(@, auth.spent[i])]
               g == [auth.granted[i] EXCEPT !.limit = left]
               K == {k \in DOMAIN auth.list : auth.places[k] = i}
    <2>1. /\ auth.granted[i] \in ContractGrant /\ limit \in Limit
          /\ auth.calls[i] \in Nat /\ auth.spent[i] \in Coins
      BY <1>1, <1>2, AuthFields, GrantFields, Zenon
    <2>2. Admits(limit, auth.calls[i], auth.spent[i])
      BY <1>2, Zenon DEF BudgetInv
    <2>3. /\ LeftAt(auth, i) = left /\ left \in Limit
          /\ ValidLimit(LeftAt(auth, i)) <=> Lasts(limit, auth.calls[i], auth.spent[i])
      <3>1. /\ Left(limit, auth.calls[i], auth.spent[i]) \in Limit
            /\ ValidLimit(Left(limit, auth.calls[i], auth.spent[i]))
                 <=> Lasts(limit, auth.calls[i], auth.spent[i])
            /\ Left(limit, auth.calls[i], auth.spent[i]) = left
        <4> HIDE DEF limit
        <4> QED
          BY <2>1, <2>2, LeftIsLimit, Zenon
      <3> QED
        BY <3>1, Zenon DEF LeftAt
    <2> HIDE DEF left
    <2>4. /\ g.contract = auth.granted[i].contract /\ g.filter = auth.granted[i].filter
          /\ g.limit = left /\ g \in ContractGrant
      BY <2>1, <2>3, Zenon DEF ContractGrant
    <2> HIDE DEF g
    <2>5. ASSUME NEW k \in K
          PROVE  auth.list[k] = g /\ Lasts(limit, auth.calls[i], auth.spent[i])
      <3>1. /\ auth.list[k].contract = g.contract /\ auth.list[k].filter = g.filter
            /\ auth.list[k].limit = g.limit /\ ValidLimit(LeftAt(auth, i))
            /\ auth.list[k] \in ContractGrant
        <4>1. k \in 1..Len(auth.list) /\ auth.places[k] = i
          BY <1>2, Zenon
        <4>2. /\ auth.list[k].contract = auth.granted[i].contract
              /\ auth.list[k].filter = auth.granted[i].filter
              /\ auth.list[k].limit = LeftAt(auth, i) /\ ValidLimit(auth.list[k].limit)
          BY <4>1, Zenon DEF BudgetInv
        <4> QED
          BY <1>1, <2>3, <2>4, <4>1, <4>2, AuthFields, Zenon
      <3>2. auth.list[k] = g
        BY <2>4, <3>1 DEF ContractGrant
      <3> QED
        BY <2>3, <3>1, <3>2, Zenon
    <2>6. Lasts(limit, auth.calls[i], auth.spent[i]) => K # {}
      BY <1>2, <2>3, Zenon DEF BudgetInv
    <2>7. {auth.list[k] : k \in K} = IF Lasts(limit, auth.calls[i], auth.spent[i]) THEN {g} ELSE {}
      <3> HIDE DEF K
      <3> QED
        BY <2>5, <2>6, Zenon
    <2> QED
      BY <2>2, <2>7, Zenon DEF Admits, g, left
  <1> QED
    BY <1>3, <1>4, Zenon

----------------------------------------------------------------------------
(* AcceptGrantedMessage.                                                   *)

\* A grant takes a message.
Takes(grant, msg) ==
  /\ grant.contract = msg.contract
  /\ AcceptFilter(grant.filter, msg.body)
  /\ IF grant.limit.type = "calls" THEN msg.funds = Zero
     ELSE IsAllLTE(msg.funds, grant.limit.amounts)

\* Permitted in terms of Takes.
LEMMA PermittedTakes ==
  ASSUME NEW list, NEW msg
  PROVE  Permitted(list, msg) <=> \E i \in DOMAIN list : Takes(list[i], msg)
  BY Zenon DEF Permitted, Takes

\* One turn of the loop: with a limit in force there is no error.
LEMMA TurnIs ==
  ASSUME NEW g \in ContractGrant, ValidLimit(g.limit), NEW msg, msg.funds \in Coins
  PROVE  Turn(g, msg) = IF Takes(g, msg) THEN "accept" ELSE "continue"
  <1> PICK r : r = AcceptLimit(g.limit, msg.funds)
    BY Zenon
  <1>1. /\ r.error = FALSE /\ r.accepted \in BOOLEAN
        /\ r.accepted <=> IF g.limit.type = "calls" THEN msg.funds = Zero
                          ELSE IsAllLTE(msg.funds, g.limit.amounts)
    BY GrantFields, LimitAccepts, Zenon
  <1> DEFINE takes == r.accepted /\ AcceptFilter(g.filter, msg.body)
  <1>2. Turn(g, msg) = IF g.contract # msg.contract THEN "continue"
                       ELSE IF takes THEN "accept" ELSE "continue"
    BY <1>1, Zenon DEF Turn
  <1>3. Takes(g, msg) <=> g.contract = msg.contract /\ takes
    BY <1>1, Zenon DEF Takes
  <1> HIDE DEF takes
  <1> QED
    BY <1>2, <1>3, Zenon

\* u is list with what is left of the grant at i, or without it; m gives the
\* place in list of each grant of u.
Shrinks(list, i, left, u, m) ==
  /\ u \in Seq(ContractGrant)
  /\ m \in [1..Len(u) -> 1..Len(list)]
  /\ \A k \in 1..Len(u) :
       /\ m[k] # i => u[k] = list[m[k]]
       /\ m[k] = i => /\ ValidLimit(left) /\ u[k].limit = left
                      /\ u[k].contract = list[i].contract /\ u[k].filter = list[i].filter
  /\ \A k, l \in 1..Len(u) : k < l => m[k] < m[l]
  /\ \A j \in 1..Len(list) : j # i \/ ValidLimit(left) => \E k \in 1..Len(u) : m[k] = j

\* The places of the grants that remain.
Follows(places, m, n, q) ==
  q \in Seq(Nat) /\ Len(q) = n /\ \A k \in 1..n : q[k] = places[m[k]]

\* Updated lowers the limit of the grant at i, or removes the grant.
LEMMA UpdatedShrinks ==
  ASSUME NEW list \in Seq(ContractGrant), NEW i \in 1..Len(list), NEW left \in Limit,
         NEW u, u = Updated(list, i, IF ValidLimit(left) THEN left ELSE None),
         NEW places \in Seq(Nat), Len(places) = Len(list)
  PROVE  \E m : /\ Shrinks(list, i, left, u, m)
                /\ Follows(places, m, Len(u),
                           IF Len(u) < Len(list) THEN Without(places, i) ELSE places)
  <1> DEFINE n == Len(list)
             q == IF Len(u) < Len(list) THEN Without(places, i) ELSE places
  <1>1. n \in Nat /\ i \in 1..n /\ \A k \in 1..n : list[k] \in ContractGrant /\ places[k] \in Nat
    BY SeqElements, Zenon
  <1>2. CASE ValidLimit(left)
    <2> DEFINE g == [list[i] EXCEPT !.limit = left]
               m == [k \in 1..n |-> k]
    <2>1. g \in ContractGrant /\ g.limit = left /\ g.contract = list[i].contract
          /\ g.filter = list[i].filter
      BY <1>1, Zenon DEF ContractGrant
    <2>2. u = [list EXCEPT ![i] = g]
      BY <1>2, AuthzAssumption, Zenon DEF Updated
    <2> HIDE DEF g
    <2>3. /\ u \in Seq(ContractGrant) /\ Len(u) = n
          /\ \A k \in 1..n : u[k] = IF k = i THEN g ELSE list[k]
      BY <2>1, <2>2, SeqExcept
    <2>4. q = places
      BY <1>1, <2>3
    <2>5. Shrinks(list, i, left, u, m)
      BY <1>2, <2>1, <2>3, Zenon DEF Shrinks
    <2>6. Follows(places, m, Len(u), q)
      BY <2>3, <2>4, Zenon DEF Follows
    <2> QED
      BY <2>5, <2>6, Zenon
  <1>3. CASE ~ValidLimit(left)
    <2> DEFINE m == [k \in 1..(n - 1) |-> Skip(i, k)]
    <2>1. u = Without(list, i)
      BY <1>3, Zenon DEF Updated
    <2>2. /\ u \in Seq(ContractGrant) /\ Len(u) = n - 1
          /\ \A k \in 1..(n - 1) : u[k] = list[Skip(i, k)]
      BY <2>1, Removed
    <2>3. /\ \A k \in 1..(n - 1) : Skip(i, k) \in 1..n /\ Skip(i, k) # i
          /\ \A k, l \in 1..(n - 1) : k < l => Skip(i, k) < Skip(i, l)
          /\ \A j \in 1..n : j # i => \E k \in 1..(n - 1) : Skip(i, k) = j
      BY <1>1, SkipFacts, Zenon
    <2>4. n - 1 < n
      BY <1>1
    <2>5. q = Without(places, i)
      BY <2>2, <2>4, Zenon
    <2>6. /\ q \in Seq(Nat) /\ Len(q) = n - 1
          /\ \A k \in 1..(n - 1) : q[k] = places[Skip(i, k)]
      BY <2>5, Removed
    <2>7. Shrinks(list, i, left, u, m)
      BY <1>3, <2>2, <2>3, Zenon DEF Shrinks
    <2>8. Follows(places, m, Len(u), q)
      BY <2>2, <2>6, Zenon DEF Follows
    <2> QED
      BY <2>7, <2>8, Zenon
  <1> QED
    BY <1>2, <1>3, Zenon

\* A grant lowered twice is a grant lowered by the sum.
LEMMA LeftAgain ==
  ASSUME NEW l \in Limit, NEW calls \in Nat, NEW spent \in Coins, Admits(l, calls, spent),
         NEW f \in Coins, Admits(Left(l, calls, spent), 1, f),
         NEW c, c = IF l.type # "funds" THEN calls + 1 ELSE calls
  PROVE  /\ c \in Nat /\ Add(spent, f) \in Coins /\ Admits(l, c, Add(spent, f))
         /\ Left(l, c, Add(spent, f)) = Left(Left(l, calls, spent), 1, f)
  <1> DEFINE r == Left(l, calls, spent)
  <1>1. /\ r.type = l.type /\ r.amounts = Sub(l.amounts, spent)
        /\ r.calls = IF l.type = "funds" THEN l.calls ELSE l.calls - calls
    BY Zenon DEF Left
  <1>2. l.calls \in Nat /\ l.amounts \in Coins
    BY LimitFields, Zenon
  <1>3. IsAllLTE(spent, l.amounts) /\ IsAllLTE(f, Sub(l.amounts, spent))
    BY <1>1, Zenon DEF Admits
  <1>4. /\ Add(spent, f) \in Coins /\ IsAllLTE(Add(spent, f), l.amounts)
        /\ Sub(l.amounts, Add(spent, f)) = Sub(Sub(l.amounts, spent), f)
    BY <1>2, <1>3, CoinsAdd
  <1> HIDE DEF r
  <1>5. CASE l.type = "funds"
    <2>1. c = calls
      BY <1>5, Zenon
    <2> QED
      BY <1>1, <1>4, <1>5, <2>1, Zenon DEF Left, Admits, r
  <1>6. CASE l.type # "funds"
    <2>1. c = calls + 1
      BY <1>6, Zenon
    <2>2. calls <= l.calls /\ 1 <= r.calls /\ r.calls = l.calls - calls
      BY <1>1, <1>6, Zenon DEF Admits, r
    <2>3. c \in Nat /\ c <= l.calls /\ l.calls - c = (l.calls - calls) - 1
      BY <1>2, <2>1, <2>2
    <2> QED
      BY <1>1, <1>4, <1>6, <2>3, Zenon DEF Left, Admits, r
  <1> QED
    BY <1>5, <1>6, Zenon

\* What is left of an authorization after a grant of it took a message is
\* again an authorization within its budget.
LEMMA UsedInv ==
  ASSUME NEW auth, BudgetInv(auth), NEW i \in 1..Len(auth.list), NEW f \in Coins,
         Admits(auth.list[i].limit, 1, f),
         NEW result, result.by = i,
         NEW left, left = Left(auth.list[i].limit, 1, f),
         result.list = Updated(auth.list, i, IF ValidLimit(left) THEN left ELSE None)
  PROVE  BudgetInv(Used(auth, result, f)) /\ Used(auth, result, f).list = result.list
  <1> DEFINE b == auth.places[i]
             v == Used(auth, result, f)
             u == result.list
             n == Len(auth.list)
             g == Len(auth.granted)
             q == IF Len(u) < n THEN Without(auth.places, i) ELSE auth.places
             c == IF auth.granted[b].limit.type # "funds" THEN auth.calls[b] + 1 ELSE auth.calls[b]
  <1>1. /\ auth \in Auth /\ Len(auth.calls) = g /\ Len(auth.spent) = g /\ Len(auth.places) = n
        /\ b \in 1..g /\ auth.list[i].limit = LeftAt(auth, b)
        /\ Admits(auth.granted[b].limit, auth.calls[b], auth.spent[b])
    BY Zenon DEF BudgetInv
  <1>2. /\ auth.list \in Seq(ContractGrant) /\ auth.places \in Seq(Nat)
        /\ auth.calls \in Seq(Nat) /\ auth.spent \in Seq(Coins)
        /\ auth.granted[b].limit \in Limit /\ auth.list[i].limit \in Limit
        /\ auth.calls[b] \in Nat /\ auth.spent[b] \in Coins
    BY <1>1, AuthFields, GrantFields, Zenon
  <1>3. left \in Limit
    <2>1. 1 \in Nat
      OBVIOUS
    <2> QED
      BY <1>2, <2>1, LeftIsLimit, Zenon
  <1>4. /\ c \in Nat /\ Add(auth.spent[b], f) \in Coins
        /\ Admits(auth.granted[b].limit, c, Add(auth.spent[b], f))
        /\ Left(auth.granted[b].limit, c, Add(auth.spent[b], f)) = left
    <2> DEFINE l == auth.granted[b].limit
    <2>1. Admits(Left(l, auth.calls[b], auth.spent[b]), 1, f)
      BY <1>1, Zenon DEF LeftAt
    <2>2. c = IF l.type # "funds" THEN auth.calls[b] + 1 ELSE auth.calls[b]
      BY Zenon
    <2>3. left = Left(Left(l, auth.calls[b], auth.spent[b]), 1, f)
      BY <1>1, Zenon DEF LeftAt
    <2>4. l \in Limit /\ Admits(l, auth.calls[b], auth.spent[b])
      BY <1>1, <1>2, Zenon
    <2> HIDE DEF l, c, b
    <2>5. /\ c \in Nat /\ Add(auth.spent[b], f) \in Coins
          /\ Admits(l, c, Add(auth.spent[b], f))
          /\ Left(l, c, Add(auth.spent[b], f)) = left
      BY <1>2, <2>1, <2>2, <2>3, <2>4, LeftAgain
    <2> QED
      BY <2>5, Zenon DEF l
  <1>5. PICK m : Shrinks(auth.list, i, left, u, m) /\ Follows(auth.places, m, Len(u), q)
    BY <1>1, <1>2, <1>3, UpdatedShrinks, Zenon
  <1>6. /\ v = [auth EXCEPT !.list = u, !.places = q,
                            !.calls = [auth.calls EXCEPT ![b] = c],
                            !.spent = [auth.spent EXCEPT ![b] = Add(auth.spent[b], f)]]
    BY Zenon DEF Used
  <1> HIDE DEF b, v, u, g, q, c
  <1>7. /\ [auth.calls EXCEPT ![b] = c] \in Seq(Nat) /\ Len([auth.calls EXCEPT ![b] = c]) = g
        /\ \A j \in 1..g : [auth.calls EXCEPT ![b] = c][j] = IF j = b THEN c ELSE auth.calls[j]
    BY <1>1, <1>2, <1>4, SeqExcept
  <1> DEFINE sp == Add(auth.spent[b], f)
  <1> HIDE DEF sp
  <1>8. /\ [auth.spent EXCEPT ![b] = sp] \in Seq(Coins) /\ Len([auth.spent EXCEPT ![b] = sp]) = g
        /\ \A j \in 1..g : [auth.spent EXCEPT ![b] = sp][j] = IF j = b THEN sp ELSE auth.spent[j]
    <2>1. sp \in Coins
      BY <1>4, Zenon DEF sp
    <2> QED
      BY <1>1, <1>2, <2>1, SeqExcept
  <1>9. u \in Seq(ContractGrant) /\ q \in Seq(Nat) /\ Len(q) = Len(u)
    BY <1>5, Zenon DEF Shrinks, Follows
  <1>10. /\ v \in Auth /\ v.list = u /\ v.granted = auth.granted /\ v.places = q
         /\ v.calls = [auth.calls EXCEPT ![b] = c]
         /\ v.spent = [auth.spent EXCEPT ![b] = sp]
    BY <1>1, <1>6, <1>7, <1>8, <1>9, Zenon DEF Auth, sp
  <1>11. /\ LeftAt(v, b) = left /\ Admits(v.granted[b].limit, v.calls[b], v.spent[b])
         /\ \A j \in 1..g : j # b => /\ v.calls[j] = auth.calls[j] /\ v.spent[j] = auth.spent[j]
                                     /\ LeftAt(v, j) = LeftAt(auth, j)
    BY <1>1, <1>4, <1>7, <1>8, <1>10, Zenon DEF LeftAt, sp
  <1>12. ASSUME NEW k \in 1..n, k # i
         PROVE  auth.places[k] # b
    <2>1. n \in Nat /\ i \in 1..n /\ auth.places[k] \in Nat /\ b \in Nat
      BY <1>1, AuthFields, Zenon DEF b
    <2>2. k < i \/ i < k
      BY <1>12, <2>1
    <2>3. auth.places[k] < b \/ b < auth.places[k]
      BY <2>2, Zenon DEF b, BudgetInv
    <2> QED
      BY <2>1, <2>3
  <1>13. ASSUME NEW j \in 1..g
         PROVE  /\ ValidFilter(v.granted[j].filter)
                /\ Admits(v.granted[j].limit, v.calls[j], v.spent[j])
                /\ ValidLimit(LeftAt(v, j)) => \E k \in 1..Len(u) : q[k] = j
    <2>1. CASE j = b
      <3>1. ValidFilter(v.granted[j].filter)
        BY <1>10, Zenon DEF BudgetInv, g
      <3>2. ValidLimit(left) => \E k \in 1..Len(u) : m[k] = i
        BY <1>5, Zenon DEF Shrinks
      <3> QED
        BY <1>5, <1>11, <2>1, <3>1, <3>2, Zenon DEF Follows, b
    <2>2. CASE j # b
      <3>1. /\ ValidFilter(auth.granted[j].filter)
            /\ Admits(auth.granted[j].limit, auth.calls[j], auth.spent[j])
            /\ ValidLimit(LeftAt(auth, j)) => \E k \in 1..n : auth.places[k] = j
        BY Zenon DEF BudgetInv, g
      <3>2. ASSUME NEW k \in 1..n, auth.places[k] = j
            PROVE  \E l \in 1..Len(u) : q[l] = j
        <4>1. k # i
          BY <2>2, <3>2, Zenon DEF b
        <4>2. PICK l \in 1..Len(u) : m[l] = k
          BY <1>5, <4>1, Zenon DEF Shrinks
        <4> QED
          BY <1>5, <3>2, <4>2, Zenon DEF Follows
      <3> QED
        BY <1>10, <1>11, <2>2, <3>1, <3>2, Zenon
    <2> QED
      BY <2>1, <2>2, Zenon
  <1>14. ASSUME NEW k \in 1..Len(u)
         PROVE  /\ q[k] \in 1..g
                /\ u[k].contract = auth.granted[q[k]].contract
                /\ u[k].filter = auth.granted[q[k]].filter
                /\ u[k].limit = LeftAt(v, q[k])
                /\ ValidLimit(u[k].limit)
    <2>1. m[k] \in 1..n /\ q[k] = auth.places[m[k]]
      BY <1>5, Zenon DEF Shrinks, Follows
    <2>2. /\ auth.places[m[k]] \in 1..g
          /\ auth.list[m[k]].contract = auth.granted[auth.places[m[k]]].contract
          /\ auth.list[m[k]].filter = auth.granted[auth.places[m[k]]].filter
          /\ auth.list[m[k]].limit = LeftAt(auth, auth.places[m[k]])
          /\ ValidLimit(auth.list[m[k]].limit)
      BY <2>1, Zenon DEF BudgetInv, g
    <2>3. CASE m[k] = i
      <3>1. /\ ValidLimit(left) /\ u[k].limit = left
            /\ u[k].contract = auth.list[i].contract /\ u[k].filter = auth.list[i].filter
        BY <1>5, <2>3, Zenon DEF Shrinks
      <3> QED
        BY <1>11, <2>1, <2>2, <2>3, <3>1, Zenon DEF b
    <2>4. CASE m[k] # i
      <3>1. u[k] = auth.list[m[k]]
        BY <1>5, <2>4, Zenon DEF Shrinks
      <3>2. auth.places[m[k]] # b
        BY <1>12, <2>1, <2>4, Zenon
      <3> QED
        BY <1>11, <2>1, <2>2, <3>1, <3>2, Zenon
    <2> QED
      BY <2>3, <2>4, Zenon
  <1>15. ASSUME NEW k \in 1..Len(u), NEW l \in 1..Len(u), k < l
         PROVE  q[k] < q[l]
    <2>1. m[k] \in 1..n /\ m[l] \in 1..n /\ m[k] < m[l]
      BY <1>5, <1>15, Zenon DEF Shrinks
    <2> QED
      BY <1>5, <2>1, Zenon DEF Follows, BudgetInv
  <1> QED
    <2>1. Len(v.calls) = Len(v.granted) /\ Len(v.spent) = Len(v.granted)
          /\ Len(v.granted) = g
      BY <1>7, <1>8, <1>10, Zenon DEF g
    <2>2. /\ \A k \in 1..Len(v.list) :
               /\ v.places[k] \in 1..Len(v.granted)
               /\ v.list[k].contract = v.granted[v.places[k]].contract
               /\ v.list[k].filter = v.granted[v.places[k]].filter
               /\ v.list[k].limit = LeftAt(v, v.places[k])
               /\ ValidLimit(v.list[k].limit)
          /\ \A k, l \in 1..Len(v.list) : k < l => v.places[k] < v.places[l]
      BY <1>10, <1>14, <1>15, <2>1, Zenon
    <2>3. \A j \in 1..Len(v.granted) :
             /\ ValidFilter(v.granted[j].filter)
             /\ Admits(v.granted[j].limit, v.calls[j], v.spent[j])
             /\ ValidLimit(LeftAt(v, j)) => \E k \in 1..Len(v.list) : v.places[k] = j
      BY <1>10, <1>13, <2>1, Zenon
    <2>4. v \in Auth /\ Len(v.places) = Len(v.list)
      BY <1>9, <1>10, Zenon
    <2>5. BudgetInv(v)
      BY <2>1, <2>2, <2>3, <2>4, Zenon DEF BudgetInv
    <2> QED
      BY <1>10, <2>5, Zenon DEF u, v

----------------------------------------------------------------------------
(* The invariant of the chain's authorizations.                            *)

\* The authorizations of a branch are within their budgets.
Budgets(s) ==
  /\ s = [t \in Types |-> s[t]]
  /\ \A t \in ContractMsg : s[t] # None => BudgetInv(s[t])

\* A grant of auth admits the code.
UploadedUnder(auth, code) ==
  \E i \in DOMAIN auth.list :
    LET grant == auth.list[i] IN
    /\ grant.hash \in {Wildcard, code.hash}
    /\ grant.permission # NoConfig => ConfigIsSubset(code.access, grant.permission)

\* A running transaction: its branch, and the codes it stored under the
\* authorization it began with.
TxInv(x, auth) ==
  /\ x = [stored |-> x.stored, sent |-> x.sent, codes |-> x.codes, failed |-> x.failed]
  /\ Budgets(x.stored) /\ x.stored["store"] = auth
  /\ \A code \in x.codes : UploadedUnder(auth, code)

AuthzInv ==
  /\ Budgets(stored)
  /\ tx # None => TxInv(tx, stored["store"])

\* Setting an authorization of a branch.
LEMMA BudgetsExcept ==
  ASSUME NEW s, Budgets(s), NEW t \in Types, NEW auth,
         t \in ContractMsg => auth = None \/ BudgetInv(auth)
  PROVE  /\ Budgets([s EXCEPT ![t] = auth])
         /\ t # "store" => [s EXCEPT ![t] = auth]["store"] = s["store"]
  <1> DEFINE v == [s EXCEPT ![t] = auth]
  <1>1. DOMAIN s = Types
    BY Zenon DEF Budgets
  <1>2. v = [x \in Types |-> IF x = t THEN auth ELSE s[x]]
    BY <1>1, Zenon
  <1> HIDE DEF v
  <1>3. \A x \in Types : v[x] = IF x = t THEN auth ELSE s[x]
    BY <1>2, Zenon
  <1>4. v = [x \in Types |-> v[x]]
    BY <1>2, Zenon
  <1>5. ContractMsg \subseteq Types /\ "store" \in Types
    BY Zenon DEF Types
  <1>6. Budgets(v)
    BY <1>3, <1>4, <1>5, Zenon DEF Budgets
  <1> QED
    BY <1>3, <1>5, <1>6, Zenon DEF v

\* A code an authorization lets in is one it admits, also when create fills
\* in the default permission.
LEMMA UploadAdmitted ==
  ASSUME NEW auth, NEW hash, NEW permission, NEW access,
         access = IF permission = NoConfig THEN With(Default, Granter) ELSE permission,
         \E i \in DOMAIN auth.list : CodeGrantAccept(auth.list[i], hash, permission)
  PROVE  UploadedUnder(auth, [hash |-> hash, access |-> access])
  BY Zenon DEF UploadedUnder, CodeGrantAccept

\* Nothing is granted at the start.
LEMMA AuthzInitInv ==
  Init => AuthzInv
  <1> SUFFICES ASSUME Init PROVE AuthzInv
    BY Zenon
  <1>1. stored = [t \in Types |-> None] /\ tx = None
    BY Zenon DEF Init
  <1>2. ContractMsg \subseteq Types
    BY Zenon DEF Types
  <1>3. Budgets(stored)
    BY <1>1, <1>2, Zenon DEF Budgets
  <1> QED
    BY <1>1, <1>3, Zenon DEF AuthzInv

\* MsgGrant and MsgRevoke: no transaction of the grantee is running.
LEMMA GranterStep ==
  ASSUME AuthzInv, tx = None, tx' = tx, NEW t \in Types, NEW auth,
         t \in ContractMsg => auth = None \/ BudgetInv(auth),
         stored' = [stored EXCEPT ![t] = auth]
  PROVE  AuthzInv'
  <1>1. Budgets(stored')
    BY BudgetsExcept, Zenon DEF AuthzInv
  <1> QED
    BY <1>1, Zenon DEF AuthzInv

\* A message of the grantee changes its branch, and no authorization to
\* store code.
LEMMA GranteeStep ==
  ASSUME AuthzInv, tx # None, stored' = stored,
         tx' # None => TxInv(tx', stored["store"])
  PROVE  AuthzInv'
  BY Zenon DEF AuthzInv

\* The transaction fails.
LEMMA FailedTx ==
  ASSUME NEW x, NEW auth, TxInv(x, auth)
  PROVE  TxInv([x EXCEPT !.failed = TRUE], auth)
  <1>1. PICK y : y = [x EXCEPT !.failed = TRUE]
    BY Zenon
  <1>2. x = [stored |-> x.stored, sent |-> x.sent, codes |-> x.codes, failed |-> x.failed]
    BY Zenon DEF TxInv
  <1>3. y.stored = x.stored /\ y.codes = x.codes
        /\ y = [stored |-> y.stored, sent |-> y.sent, codes |-> y.codes, failed |-> y.failed]
    BY <1>1, <1>2, Zenon
  <1>4. TxInv(y, auth)
    BY <1>3, Zenon DEF TxInv
  <1> QED
    BY <1>1, <1>4, Zenon

\* StoreCode: the new code is one the authorization admits.
LEMMA StoreCodeStep ==
  ASSUME AuthzInv, NEW hash, NEW permission, StoreCode(hash, permission)
  PROVE  AuthzInv'
  <1> DEFINE auth == tx.stored["store"]
             access == IF permission = NoConfig THEN With(Default, Granter) ELSE permission
             code == [hash |-> hash, access |-> access]
             taken == /\ auth # None
                      /\ \E i \in DOMAIN auth.list : CodeGrantAccept(auth.list[i], hash, permission)
                      /\ ConfigIsSubset(access, With(Default, Granter))
             y == [tx EXCEPT !.sent = @ + 1, !.codes = @ \cup {code}]
  <1>1. tx # None /\ stored' = stored
        /\ IF taken THEN tx' = y ELSE tx' = [tx EXCEPT !.failed = TRUE]
    BY Zenon DEF StoreCode
  <1>2. TxInv(tx, stored["store"])
    BY <1>1, Zenon DEF AuthzInv
  <1>3. CASE taken
    <2>1. UploadedUnder(auth, code)
      BY <1>3, UploadAdmitted, Zenon
    <2>2. tx = [stored |-> tx.stored, sent |-> tx.sent, codes |-> tx.codes, failed |-> tx.failed]
      BY <1>2, Zenon DEF TxInv
    <2> HIDE DEF code
    <2>0. y = [tx EXCEPT !.sent = @ + 1, !.codes = @ \cup {code}]
      BY Zenon
    <2> HIDE DEF y
    <2>3. /\ y.stored = tx.stored /\ y.codes = tx.codes \cup {code}
          /\ y = [stored |-> y.stored, sent |-> y.sent, codes |-> y.codes, failed |-> y.failed]
      BY <2>0, <2>2, Zenon
    <2>4. auth = stored["store"] /\ Budgets(tx.stored)
          /\ \A c \in tx.codes : UploadedUnder(auth, c)
      BY <1>2, Zenon DEF TxInv
    <2> HIDE DEF auth
    <2>5. \A c \in y.codes : UploadedUnder(stored["store"], c)
      BY <2>1, <2>3, <2>4, Zenon
    <2>6. TxInv(y, stored["store"])
      BY <2>3, <2>4, <2>5, Zenon DEF TxInv, auth
    <2> QED
      BY <1>1, <1>3, <2>6, GranteeStep, Zenon
  <1>4. CASE ~taken
    <2>1. tx' = [tx EXCEPT !.failed = TRUE]
      BY <1>1, <1>4, Zenon
    <2>2. TxInv(tx', stored["store"])
      BY <1>2, <2>1, FailedTx, Zenon
    <2> QED
      BY <1>1, <2>2, GranteeStep, Zenon
  <1> QED
    BY <1>3, <1>4, Zenon

----------------------------------------------------------------------------
(* The loop over the grants, and the theorems about authorizations.        *)

INSTANCE Loops

\* The loop ends at a grant that takes the message, or at none.
LEMMA EndsAtIs ==
  ASSUME NEW list \in Seq(ContractGrant), NEW msg, NEW i, i = EndsAt(list, msg)
  PROVE  \/ i = 0 /\ \A k \in 1..Len(list) : Turn(list[k], msg) = "continue"
         \/ i \in 1..Len(list) /\ Turn(list[i], msg) # "continue"
  <1> DEFINE I == {k \in DOMAIN list : Turn(list[k], msg) # "continue"}
  <1>0. DOMAIN list = 1..Len(list)
    BY SeqElements, Zenon
  <1>1. i = IF I = {} THEN 0 ELSE CHOOSE k \in I : \A j \in I : k <= j
    BY Zenon DEF EndsAt, First
  <1>2. I \subseteq Nat
    BY <1>0
  <1>3. I # {} => i \in I
    <2> HIDE DEF I
    <2> SUFFICES ASSUME I # {} PROVE i \in I
      BY Zenon
    <2>1. \E k \in I : \A j \in I : k <= j
      BY <1>2, LeastNumber, Zenon
    <2> QED
      BY <1>1, <2>1, Zenon
  <1> QED
    BY <1>0, <1>1, <1>3, Zenon

\* AcceptGrantedMessage accepts what a grant of an authorization within its
\* budget permits, and leaves such an authorization: neither a limit nor the
\* sanity check on the updated list fails.
LEMMA AcceptIs ==
  ASSUME NEW auth, BudgetInv(auth), NEW msg, msg.funds \in Coins,
         NEW r, r = AcceptGrantedMessage(auth.list, msg)
  PROVE  /\ r.answer = IF Permitted(auth.list, msg) THEN "accepted" ELSE "refused"
         /\ r.answer = "accepted" => BudgetInv(Used(auth, r, msg.funds))
  <1> DEFINE list == auth.list
             n == Len(auth.list)
             f == msg.funds
  <1>1. /\ auth \in Auth /\ \A k \in 1..n : ValidLimit(list[k].limit)
        /\ list \in Seq(ContractGrant) /\ DOMAIN list = 1..n
        /\ \A k \in 1..n : list[k] \in ContractGrant
    BY AuthFields, Zenon DEF BudgetInv
  <1>2. \A k \in 1..n : Turn(list[k], msg) = IF Takes(list[k], msg) THEN "accept" ELSE "continue"
    BY <1>1, TurnIs, Zenon
  <1>3. Permitted(list, msg) <=> \E k \in 1..n : Takes(list[k], msg)
    BY <1>1, PermittedTakes, Zenon
  <1> PICK i : i = EndsAt(list, msg)
    BY Zenon
  <1>4. \/ i = 0 /\ \A k \in 1..n : Turn(list[k], msg) = "continue"
        \/ i \in 1..n /\ Turn(list[i], msg) # "continue"
    BY <1>1, EndsAtIs, Zenon
  <1> DEFINE rest == AcceptLimit(list[i].limit, f).rest
             u == Updated(list, i, rest)
  <1>5. i = 0 => r = [answer |-> "refused", by |-> 0, list |-> list]
    BY Zenon DEF AcceptGrantedMessage
  <1>6. i # 0 /\ Turn(list[i], msg) = "accept" =>
          r = [answer |-> IF u = << >> \/ validateGrants(u) THEN "accepted" ELSE "error",
               by |-> i, list |-> u]
    BY Zenon DEF AcceptGrantedMessage
  <1> HIDE DEF u, rest, list
  <1>7. CASE i = 0 /\ \A k \in 1..n : Turn(list[k], msg) = "continue"
    <2>1. ~Permitted(list, msg)
      BY <1>2, <1>3, <1>7, Zenon
    <2> QED
      <3>1. r.answer = "refused"
        BY <1>5, <1>7
      <3>2. "refused" # "accepted"
        OBVIOUS
      <3> QED
        BY <2>1, <3>1, <3>2, Zenon DEF list
  <1>8. CASE i \in 1..n /\ Turn(list[i], msg) # "continue"
    <2>1. i # 0
      BY <1>8, AuthFields, <1>1
    <2>2. Takes(list[i], msg) /\ Turn(list[i], msg) = "accept" /\ Permitted(list, msg)
      BY <1>2, <1>3, <1>8, Zenon
    <2>3. /\ r.answer = IF u = << >> \/ validateGrants(u) THEN "accepted" ELSE "error"
          /\ r.by = i /\ r.list = u
      <3> DEFINE answer == IF u = << >> \/ validateGrants(u) THEN "accepted" ELSE "error"
      <3>1. r = [answer |-> answer, by |-> i, list |-> u]
        BY <1>6, <2>1, <2>2, Zenon
      <3> HIDE DEF answer
      <3>2. r.answer = answer /\ r.by = i /\ r.list = u
        BY <3>1
      <3> QED
        BY <3>2, Zenon DEF answer
    <2> DEFINE l == list[i].limit
               left == Left(l, 1, f)
    <2>4. l \in Limit /\ ValidLimit(l)
      BY <1>1, <1>8, GrantFields, Zenon
    <2>5. Admits(l, 1, f) /\ rest = IF ValidLimit(left) THEN left ELSE None
      <3> HIDE DEF l
      <3> PICK a : a = AcceptLimit(l, f)
        BY Zenon
      <3>1. a.accepted
        BY <2>2, <2>4, LimitAccepts, Zenon DEF Takes, l
      <3>2. Admits(l, 1, f) /\ a.rest = IF ValidLimit(Left(l, 1, f)) THEN Left(l, 1, f) ELSE None
        BY <2>4, <3>1, LimitAccepts, Zenon
      <3> QED
        BY <3>2, Zenon DEF rest, l
    <2>6. r.by = i /\ r.list = Updated(auth.list, i, IF ValidLimit(left) THEN left ELSE None)
      BY <2>3, <2>5, Zenon DEF u, list
    <2>7. BudgetInv(Used(auth, r, f)) /\ Used(auth, r, f).list = r.list
      BY <1>8, <2>5, <2>6, UsedInv, Zenon DEF list
    <2> HIDE DEF l, left
    <2>8. u = << >> \/ validateGrants(u)
      <3> PICK v : v = Used(auth, r, f)
        BY Zenon
      <3>1. BudgetInv(v) /\ v.list = u
        BY <2>3, <2>7, Zenon
      <3>2. v \in Auth /\ \A k \in 1..Len(u) :
              /\ v.places[k] \in 1..Len(v.granted) /\ ValidLimit(u[k].limit)
              /\ u[k].filter = v.granted[v.places[k]].filter
        BY <3>1, Zenon DEF BudgetInv
      <3>3. \A j \in 1..Len(v.granted) : ValidFilter(v.granted[j].filter)
        BY <3>1, Zenon DEF BudgetInv
      <3>4. DOMAIN u = 1..Len(u)
        BY <3>1, <3>2, AuthFields, Zenon
      <3>5. \A k \in DOMAIN u : ValidLimit(u[k].limit) /\ ValidFilter(u[k].filter)
        BY <3>2, <3>3, <3>4, Zenon
      <3> QED
        BY <3>5, Zenon DEF validateGrants
    <2> QED
      BY <2>2, <2>3, <2>7, <2>8, Zenon DEF list
  <1> QED
    BY <1>4, <1>7, <1>8, Zenon

\* Execute: the authorization of the branch stays within its budget.
LEMMA ExecuteStep ==
  ASSUME AuthzInv, NEW t \in ContractMsg, NEW msg \in Message(t), Execute(t, msg)
  PROVE  AuthzInv'
  <1> DEFINE auth == tx.stored[t]
             r == AcceptGrantedMessage(auth.list, msg)
             y == [tx EXCEPT !.sent = @ + 1, !.stored[t] = Used(auth, r, msg.funds)]
  <1>1. tx # None /\ stored' = stored
        /\ IF auth # None /\ r.answer = "accepted" THEN tx' = y
           ELSE tx' = [tx EXCEPT !.failed = TRUE]
    BY Zenon DEF Execute
  <1>2. TxInv(tx, stored["store"])
    BY <1>1, Zenon DEF AuthzInv
  <1>3. msg.funds \in Coins
    <2>1. msg.funds \in (IF t = "migrate" THEN {Zero} ELSE InputFunds)
      BY Zenon DEF Message
    <2>2. Zero \in Coins
      BY DEF Zero, Coins
    <2> QED
      BY <2>1, <2>2, AuthzAssumption, Zenon
  <1>4. t \in Types /\ t # "store"
    BY DEF Types, ContractMsg
  <1>5. CASE auth # None /\ r.answer = "accepted"
    <2>1. BudgetInv(auth)
      BY <1>2, <1>5, Zenon DEF TxInv, Budgets
    <2> DEFINE new == Used(auth, r, msg.funds)
               s == [tx.stored EXCEPT ![t] = new]
    <2>2. BudgetInv(new)
      BY <1>3, <1>5, <2>1, AcceptIs, Zenon
    <2> HIDE DEF new, auth, r
    <2>3. Budgets(s) /\ s["store"] = tx.stored["store"]
      BY <1>2, <1>4, <2>2, BudgetsExcept, Zenon DEF TxInv
    <2>4. tx = [stored |-> tx.stored, sent |-> tx.sent, codes |-> tx.codes, failed |-> tx.failed]
      BY <1>2, Zenon DEF TxInv
    <2>5. y = [tx EXCEPT !.sent = @ + 1, !.stored = s]
      BY Zenon DEF new, auth, r
    <2> HIDE DEF s, y
    <2>6. /\ y.stored = s /\ y.codes = tx.codes
          /\ y = [stored |-> y.stored, sent |-> y.sent, codes |-> y.codes, failed |-> y.failed]
      BY <2>4, <2>5, Zenon
    <2>7. TxInv(y, stored["store"])
      BY <1>2, <2>3, <2>6, Zenon DEF TxInv
    <2> QED
      BY <1>1, <1>5, <2>7, GranteeStep, Zenon
  <1>6. CASE ~(auth # None /\ r.answer = "accepted")
    <2>1. tx' = [tx EXCEPT !.failed = TRUE]
      BY <1>1, <1>6, Zenon
    <2>2. TxInv(tx', stored["store"])
      BY <1>2, <2>1, FailedTx, Zenon
    <2> QED
      BY <1>1, <2>2, GranteeStep, Zenon
  <1> QED
    BY <1>5, <1>6, Zenon

\* Every step keeps the invariant.
LEMMA AuthzNextInv ==
  ASSUME AuthzInv, [Next]_vars
  PROVE  AuthzInv'
  <1>0. ContractMsg \subseteq Types /\ "store" \in Types /\ "store" \notin ContractMsg
    BY DEF Types, ContractMsg
  <1>1. ASSUME NEW t \in ContractMsg, NEW list \in InputGrants, SendGrant(t, list)
        PROVE  AuthzInv'
    <2>1. /\ tx = None /\ tx' = tx /\ validateGrants(list)
          /\ stored' = [stored EXCEPT ![t] = Fresh(list)]
      BY <1>0, <1>1, Zenon DEF SendGrant
    <2>2. BudgetInv(Fresh(list))
      BY <2>1, AuthzAssumption, FreshInv, Zenon
    <2> QED
      BY <1>0, <2>1, <2>2, GranterStep, Zenon
  <1>2. ASSUME NEW t \in ContractMsg, NEW msg \in Message(t), Execute(t, msg)
        PROVE  AuthzInv'
    BY <1>2, ExecuteStep, Zenon
  <1>3. ASSUME NEW list, SendGrant("store", list)
        PROVE  AuthzInv'
    <2>1. tx = None /\ tx' = tx /\ stored' = [stored EXCEPT !["store"] = Fresh(list)]
      BY <1>3, Zenon DEF SendGrant
    <2> QED
      BY <1>0, <2>1, GranterStep, Zenon
  <1>4. ASSUME NEW h, NEW c, StoreCode(h, c)
        PROVE  AuthzInv'
    BY <1>4, StoreCodeStep, Zenon
  <1>5. ASSUME NEW t \in Types, Revoke(t)
        PROVE  AuthzInv'
    <2>1. tx = None /\ tx' = tx /\ stored' = [stored EXCEPT ![t] = None]
      BY <1>5, Zenon DEF Revoke
    <2> QED
      BY <2>1, GranterStep, Zenon
  <1>6. CASE BeginTx
    <2> DEFINE y == [stored |-> stored, sent |-> 0, codes |-> {}, failed |-> FALSE]
    <2>1. stored' = stored /\ tx' = y
      BY <1>6, Zenon DEF BeginTx
    <2>2. /\ y.stored = stored /\ y.codes = {}
          /\ y = [stored |-> y.stored, sent |-> y.sent, codes |-> y.codes, failed |-> y.failed]
      BY Zenon
    <2> HIDE DEF y
    <2>3. TxInv(y, stored["store"])
      BY <2>2, Zenon DEF TxInv, AuthzInv
    <2> QED
      BY <2>1, <2>3, Zenon DEF AuthzInv
  <1>7. CASE MessageFails
    <2>1. tx # None /\ stored' = stored /\ tx' = [tx EXCEPT !.failed = TRUE]
      BY <1>7, Zenon DEF MessageFails
    <2>2. TxInv(tx', stored["store"])
      BY <2>1, FailedTx, Zenon DEF AuthzInv
    <2> QED
      BY <2>1, <2>2, GranteeStep, Zenon
  <1>8. CASE EndTx
    <2>1. tx # None /\ tx' = None /\ stored' = IF tx.failed THEN stored ELSE tx.stored
      BY <1>8, Zenon DEF EndTx
    <2>2. Budgets(stored) /\ Budgets(tx.stored)
      BY <2>1, Zenon DEF AuthzInv, TxInv
    <2>3. Budgets(stored')
      BY <2>1, <2>2, Zenon
    <2> QED
      BY <2>1, <2>3, Zenon DEF AuthzInv
  <1>9. CASE UNCHANGED vars
    BY <1>9, Zenon DEF vars, AuthzInv
  <1> QED
    BY <1>1, <1>2, <1>3, <1>4, <1>5, <1>6, <1>7, <1>8, <1>9, Zenon DEF Next

\* The invariant holds throughout.
THEOREM AuthzInvariance == Spec => []AuthzInv
  <1>1. Init => AuthzInv
    BY AuthzInitInv, Zenon
  <1>2. AuthzInv /\ [Next]_vars => AuthzInv'
    BY AuthzNextInv, Zenon
  <1> QED
    BY <1>1, <1>2, PTL DEF Spec

\* Every authorization, committed or in the branch, is within its budget.
LEMMA AllWithinBudgets ==
  ASSUME AuthzInv, NEW auth \in All
  PROVE  BudgetInv(auth)
  <1> DEFINE branches == {stored} \cup (IF tx = None THEN {} ELSE {tx.stored})
  <1>1. \A s \in branches : Budgets(s)
    BY Zenon DEF AuthzInv, TxInv
  <1>2. PICK s \in branches, t \in ContractMsg : auth = s[t]
    BY DEF All
  <1>3. auth # None
    BY DEF All
  <1> QED
    BY <1>1, <1>2, <1>3, Zenon DEF Budgets

\* What a grantee does with a grant over any number of transactions, messages
\* and failures stays within what was granted: the stored list always holds
\* exactly what is left of each grant (AcceptGrantedMessage with the limits'
\* Accept).
THEOREM GrantsStayWithinBudget == Spec => []WithinBudget
  <1>1. AuthzInv => WithinBudget
    <2> SUFFICES ASSUME AuthzInv, NEW auth \in All
                 PROVE  /\ \A i, j \in DOMAIN auth.list : i < j => auth.places[i] < auth.places[j]
                        /\ \A i \in DOMAIN auth.granted :
                             LET limit == auth.granted[i].limit
                                 left == [limit EXCEPT
                                            !.calls = IF limit.type = "funds" THEN @
                                                      ELSE @ - auth.calls[i],
                                            !.amounts = Sub(@, auth.spent[i])]
                             IN
                             /\ limit.type # "funds" => auth.calls[i] <= limit.calls
                             /\ IsAllLTE(auth.spent[i], limit.amounts)
                             /\ {auth.list[k] : k \in {k \in DOMAIN auth.list : auth.places[k] = i}}
                                  = IF Lasts(limit, auth.calls[i], auth.spent[i])
                                    THEN {[auth.granted[i] EXCEPT !.limit = left]} ELSE {}
      BY Zenon DEF WithinBudget
    <2> QED
      BY AllWithinBudgets, BudgetIsKept, Zenon
  <1> QED
    BY <1>1, AuthzInvariance, PTL

\* The loop over the grants accepts a message exactly if one of the grants in
\* force permits it, whatever was used before.
THEOREM PermittedIsAccepted == Spec => []AcceptsPermitted
  <1>1. AuthzInv => AcceptsPermitted
    <2> SUFFICES ASSUME AuthzInv, NEW auth \in All, NEW msg \in Message("execute")
                 PROVE  AcceptGrantedMessage(auth.list, msg).answer
                          = IF Permitted(auth.list, msg) THEN "accepted" ELSE "refused"
      BY Zenon DEF AcceptsPermitted
    <2>1. msg.funds \in Coins
      <3>1. msg.funds \in InputFunds
        BY DEF Message
      <3> QED
        BY <3>1, AuthzAssumption, Zenon
    <2> QED
      BY <2>1, AllWithinBudgets, AcceptIs, Zenon
  <1> QED
    BY <1>1, AuthzInvariance, PTL

\* A code uploaded under an authorization is open only to those a grant for
\* its checksum admits (CodeGrant.Accept, and the default permission create
\* fills in).
THEOREM UploadsStayWithinGrants == Spec => []UploadWithinGrant
  <1>1. AuthzInv => UploadWithinGrant
    <2> SUFFICES ASSUME AuthzInv, tx # None, NEW code \in tx.codes
                 PROVE  \E i \in DOMAIN stored["store"].list :
                          LET grant == stored["store"].list[i] IN
                          /\ grant.hash \in {Wildcard, code.hash}
                          /\ grant.permission # NoConfig =>
                               ConfigIsSubset(code.access, grant.permission)
      BY Zenon DEF UploadWithinGrant
    <2>1. UploadedUnder(stored["store"], code)
      BY Zenon DEF AuthzInv, TxInv
    <2> QED
      BY <2>1, Zenon DEF UploadedUnder
  <1> QED
    BY <1>1, AuthzInvariance, PTL

----------------------------------------------------------------------------
(* Numbers as bytes.                                                       *)

\* Division with remainder.
LEMMA Division ==
  ASSUME NEW b \in Nat, b > 1, NEW x \in Nat
  PROVE  /\ x \div b \in Nat /\ x % b \in Nat
         /\ x = ((x \div b) * b) + (x % b)
  <1>1. x \div b \in Int
    OBVIOUS
  <1>2. x % b \in Nat
    OBVIOUS
  <1>3. x = (b * (x \div b)) + (x % b)
    OBVIOUS
  <1>4. b * (x \div b) = (x \div b) * b
    BY <1>1
  <1>5. x \div b >= 0
    OBVIOUS
  <1> QED
    BY <1>1, <1>2, <1>3, <1>4, <1>5

\* The numbers the digits of n are read off.
AreShifts(s, n, w) ==
  /\ s \in [0..w -> Nat] /\ s[0] = n
  /\ \A k \in 1..w : s[k] = s[k - 1] \div Base

\* Shifts drops the last digit with every step.
LEMMA ShiftsAre ==
  ASSUME NEW n \in Nat, NEW w \in Nat, NEW s, s = Shifts(n, w)
  PROVE  AreShifts(s, n, w)
  <1> DEFINE F == [z \in (1..w) \X Nat |-> z[2] \div Base]
             Run(f) == [i \in 0..w |-> IF i = 0 THEN n ELSE f[i - 1] \div Base]
             h == CHOOSE f : f = Run(f)
  <1>1. ASSUME NEW k \in 1..w, NEW y \in Nat
        PROVE  F[<<k, y>>] = y \div Base /\ F[<<k, y>>] \in Nat
    <2>1. <<k, y>> \in (1..w) \X Nat /\ <<k, y>>[2] = y
      OBVIOUS
    <2>2. F[<<k, y>>] = y \div Base
      BY <2>1, Zenon
    <2>3. y \div Base \in Nat
      BY AnteAssumption, Division, Zenon
    <2> QED
      BY <2>2, <2>3, Zenon
  <1> HIDE DEF F
  <1>2. PICK g \in [0..w -> Nat] : IsRun(g, w, n, F)
    BY <1>1, LoopRuns, Zenon
  <1>3. g = Run(g)
    <2>1. ASSUME NEW i \in 0..w
          PROVE  g[i] = IF i = 0 THEN n ELSE g[i - 1] \div Base
      <3>1. CASE i = 0
        BY <1>2, <3>1, Zenon DEF IsRun
      <3>2. CASE i # 0
        <4>1. i \in 1..w /\ i - 1 \in 0..w
          BY <3>2
        <4>2. g[i] = F[<<i, g[i - 1]>>] /\ g[i - 1] \in Nat
          BY <1>2, <4>1, Zenon DEF IsRun
        <4> QED
          BY <1>1, <3>2, <4>1, <4>2, Zenon
      <3> QED
        BY <3>1, <3>2, Zenon
    <2> QED
      BY <2>1, Zenon
  <1>4. h = Run(h)
    BY <1>3, Zenon
  <1>5. s = h
    BY Zenon DEF Shifts
  <1> HIDE DEF h
  <1>6. DOMAIN s = 0..w /\ s[0] = n /\ \A k \in 1..w : s[k] = s[k - 1] \div Base
    <2>1. 0 \in 0..w /\ \A k \in 1..w : k \in 0..w /\ k # 0
      OBVIOUS
    <2> QED
      BY <1>4, <1>5, <2>1, Zenon
  <1>7. \A k \in 0..w : s[k] \in Nat
    <2> DEFINE T == {k \in 0..w : s[k] \in Nat}
    <2>1. 0 \in T
      BY <1>6
    <2>2. ASSUME NEW k \in 1..w, k - 1 \in T
          PROVE  k \in T
      <3>1. k \in 0..w
        OBVIOUS
      <3>2. s[k] \in Nat
        <4>1. s[k - 1] \in Nat
          BY <2>2, Zenon
        <4>2. s[k - 1] \div Base \in Nat
          BY <4>1, AnteAssumption, Division, Zenon
        <4> QED
          BY <1>6, <4>2, Zenon
      <3> QED
        BY <3>1, <3>2, Zenon
    <2>3. \A k \in 0..w : k \in T
      <3> HIDE DEF T
      <3> QED
        BY <2>1, <2>2, RoundInduction, Zenon
    <2> QED
      BY <2>3, Zenon
  <1>8. s = [k \in 0..w |-> s[k]]
    BY <1>4, <1>5, Zenon
  <1> QED
    BY <1>6, <1>7, <1>8, Zenon DEF AreShifts

\* Number reads the digits from the first to the last.
LEMMA NumberIs ==
  ASSUME NEW digits, NEW w \in Nat, Len(digits) = w, \A i \in 1..w : digits[i] \in Nat
  PROVE  \E v : /\ v \in [0..w -> Nat] /\ v[0] = 0 /\ Number(digits) = v[w]
                /\ \A k \in 1..w : v[k] = v[k - 1] * Base + digits[k]
  <1> DEFINE F == [z \in (1..w) \X Nat |-> z[2] * Base + digits[z[1]]]
             Run(f) == [i \in 0..w |-> IF i = 0 THEN 0 ELSE f[i - 1] * Base + digits[i]]
             h == CHOOSE f : f = Run(f)
  <1>0. ASSUME NEW k \in 1..w, NEW y \in Nat
        PROVE  y * Base + digits[k] \in Nat
    <2>1. digits[k] \in Nat /\ Base \in Nat
      BY AnteAssumption, Zenon
    <2>2. y * Base \in Nat
      BY <2>1
    <2> QED
      BY <2>1, <2>2
  <1>1. ASSUME NEW k \in 1..w, NEW y \in Nat
        PROVE  F[<<k, y>>] = y * Base + digits[k] /\ F[<<k, y>>] \in Nat
    <2>1. <<k, y>> \in (1..w) \X Nat /\ <<k, y>>[2] = y /\ <<k, y>>[1] = k
      OBVIOUS
    <2>2. F[<<k, y>>] = y * Base + digits[k]
      BY <2>1, Zenon
    <2> QED
      BY <1>0, <2>2, Zenon
  <1> HIDE DEF F
  <1>2. PICK g \in [0..w -> Nat] : IsRun(g, w, 0, F)
    <2>1. 0 \in Nat
      OBVIOUS
    <2> QED
      BY <1>1, <2>1, LoopRuns, Zenon
  <1>3. g = Run(g)
    <2>1. ASSUME NEW i \in 0..w
          PROVE  g[i] = IF i = 0 THEN 0 ELSE g[i - 1] * Base + digits[i]
      <3>1. CASE i = 0
        BY <1>2, <3>1, Zenon DEF IsRun
      <3>2. CASE i # 0
        <4>1. i \in 1..w /\ i - 1 \in 0..w
          BY <3>2
        <4>2. g[i] = F[<<i, g[i - 1]>>] /\ g[i - 1] \in Nat
          BY <1>2, <4>1, Zenon DEF IsRun
        <4> QED
          BY <1>1, <3>2, <4>1, <4>2, Zenon
      <3> QED
        BY <3>1, <3>2, Zenon
    <2> QED
      BY <2>1, Zenon
  <1>4. h = Run(h)
    BY <1>3, Zenon
  <1>5. Number(digits) = h[w]
    BY Zenon DEF Number
  <1> HIDE DEF h
  <1>6. h[0] = 0 /\ \A k \in 1..w : h[k] = h[k - 1] * Base + digits[k]
    <2>1. 0 \in 0..w /\ \A k \in 1..w : k \in 0..w /\ k # 0
      OBVIOUS
    <2> QED
      BY <1>4, <2>1, Zenon
  <1>7. \A k \in 0..w : h[k] \in Nat
    <2> DEFINE T == {k \in 0..w : h[k] \in Nat}
    <2>1. 0 \in T
      BY <1>6
    <2>2. ASSUME NEW k \in 1..w, k - 1 \in T
          PROVE  k \in T
      <3>1. k \in 0..w
        OBVIOUS
      <3>2. h[k] \in Nat
        BY <1>0, <1>6, <2>2, Zenon
      <3> QED
        BY <3>1, <3>2, Zenon
    <2>3. \A k \in 0..w : k \in T
      <3> HIDE DEF T
      <3> QED
        BY <2>1, <2>2, RoundInduction, Zenon
    <2> QED
      BY <2>3, Zenon
  <1>8. h = [k \in 0..w |-> h[k]]
    BY <1>4, Zenon
  <1>9. h \in [0..w -> Nat]
    BY <1>7, <1>8, Zenon
  <1> QED
    BY <1>5, <1>6, <1>9, Zenon

\* A number of at most w digits is read back.
LEMMA NumberReadBack ==
  ASSUME NEW n \in Nat, NEW w \in Nat, Fits(n, w),
         NEW digits, Len(digits) = w, \A i \in 1..w : digits[i] = BigEndian(n, w)[i]
  PROVE  Number(digits) = n
  <1>0. PICK s : s = Shifts(n, w)
    BY Zenon
  <1>1. /\ s \in [0..w -> Nat] /\ s[0] = n /\ s[w] = 0
        /\ \A k \in 1..w : s[k] = s[k - 1] \div Base
    <2>1. s[w] = 0
      BY <1>0, Zenon DEF Fits
    <2>2. /\ s \in [0..w -> Nat] /\ s[0] = n
          /\ \A k \in 1..w : s[k] = s[k - 1] \div Base
      <3>1. AreShifts(s, n, w)
        BY <1>0, ShiftsAre, Zenon
      <3> QED
        BY <3>1, Zenon DEF AreShifts
    <2> QED
      BY <2>1, <2>2, Zenon
  <1>2. \A i \in 1..w : digits[i] = s[w - i] % Base
    BY <1>0, Zenon DEF BigEndian
  <1>3. ASSUME NEW k \in 1..w
        PROVE  digits[k] \in Nat /\ s[w - k] = s[w - (k - 1)] * Base + digits[k]
    <2>1. w - k \in 0..w /\ w - (k - 1) \in 1..w /\ (w - (k - 1)) - 1 = w - k
      OBVIOUS
    <2>2. s[w - k] \in Nat /\ s[w - (k - 1)] = s[w - k] \div Base
      <3>1. PICK j : j = w - (k - 1)
        BY Zenon
      <3>2. j \in 1..w /\ j - 1 = w - k
        BY <2>1, <3>1, Zenon
      <3>3. s[j] = s[j - 1] \div Base
        BY <1>1, <3>2, Zenon
      <3> QED
        BY <1>1, <2>1, <3>1, <3>2, <3>3, Zenon
    <2>3. /\ s[w - k] % Base \in Nat
          /\ s[w - k] = ((s[w - k] \div Base) * Base) + (s[w - k] % Base)
      BY <2>2, AnteAssumption, Division, Zenon
    <2> QED
      BY <1>2, <2>2, <2>3, Zenon
  <1>4. PICK v : /\ v \in [0..w -> Nat] /\ v[0] = 0 /\ Number(digits) = v[w]
                 /\ \A k \in 1..w : v[k] = v[k - 1] * Base + digits[k]
    BY <1>3, NumberIs, Zenon
  <1> DEFINE T == {k \in 0..w : v[k] = s[w - k]}
  <1>5. 0 \in T
    <2>1. 0 \in 0..w /\ w - 0 = w
      OBVIOUS
    <2> QED
      BY <1>1, <1>4, <2>1, Zenon
  <1>6. ASSUME NEW k \in 1..w, k - 1 \in T
        PROVE  k \in T
    <2>1. k \in 0..w
      OBVIOUS
    <2>2. v[k] = s[w - k]
      BY <1>3, <1>4, <1>6, Zenon
    <2> QED
      BY <2>1, <2>2, Zenon
  <1>7. w \in T
    <2> HIDE DEF T
    <2>1. w \in 0..w
      OBVIOUS
    <2> QED
      BY <1>5, <1>6, <2>1, RoundInduction, Zenon
  <1>8. w - w = 0
    OBVIOUS
  <1> QED
    BY <1>1, <1>4, <1>7, <1>8, Zenon

\* decodeHeightCounter reads what encodeHeightCounter wrote.
LEMMA CounterReadBack ==
  ASSUME NEW h \in 0..MaxHeight, NEW c \in 0..MaxBlockTx,
         NEW bz, bz = encodeHeightCounter(h, c)
  PROVE  bz # << >> /\ decodeHeightCounter(bz).height = h /\ decodeHeightCounter(bz).counter = c
  <1> DEFINE H == HeightDigits
             C == CounterDigits
             a == BigEndian(h, H)
             b == BigEndian(c, C)
             x == SubSeq(bz, 1, H)
             y == SubSeq(bz, H + 1, Len(bz))
  <1>1. H \in Nat /\ C \in Nat /\ H > 0 /\ h \in Nat /\ c \in Nat /\ Fits(h, H) /\ Fits(c, C)
    BY AnteAssumption
  <1>2. ASSUME NEW n \in Nat, NEW w \in Nat
        PROVE  BigEndian(n, w) \in Seq(Nat) /\ Len(BigEndian(n, w)) = w
    <2> PICK s : s = Shifts(n, w)
      BY Zenon
    <2> PICK d : d = [i \in 1..w |-> s[w - i] % Base]
      BY Zenon
    <2>1. s \in [0..w -> Nat]
      BY ShiftsAre, Zenon DEF AreShifts
    <2>2. \A i \in 1..w : w - i \in 0..w
      OBVIOUS
    <2>3. \A i \in 1..w : s[w - i] % Base \in Nat
      BY <2>1, <2>2, AnteAssumption, Division, Zenon
    <2>4. d \in Seq(Nat) /\ Len(d) = w
      BY <2>3
    <2> QED
      BY <2>4, Zenon DEF BigEndian
  <1>3. a \in Seq(Nat) /\ Len(a) = H /\ b \in Seq(Nat) /\ Len(b) = C
    BY <1>1, <1>2, Zenon
  <1>4. bz = a \o b
    BY Zenon DEF encodeHeightCounter
  <1> HIDE DEF a, b
  <1>5. /\ bz \in Seq(Nat) /\ Len(bz) = H + C
        /\ \A i \in 1..(H + C) : bz[i] = IF i <= H THEN a[i] ELSE b[i - H]
    <2>1. /\ a \o b \in Seq(Nat) /\ Len(a \o b) = Len(a) + Len(b)
          /\ \A i \in 1..(Len(a) + Len(b)) :
               (a \o b)[i] = IF i <= Len(a) THEN a[i] ELSE b[i - Len(a)]
      BY <1>3, SeqConcat, Zenon
    <2> QED
      BY <1>3, <1>4, <2>1, Zenon
  <1>6. Len(x) = H /\ \A i \in 1..H : x[i] = a[i]
    <2>1. Len(x) = H /\ \A i \in 1..H : x[i] = bz[i]
      BY <1>1, <1>5
    <2> QED
      BY <1>1, <1>5, <2>1
  <1>7. Len(y) = C /\ \A i \in 1..C : y[i] = b[i]
    <2>1. Len(y) = C /\ \A i \in 1..C : y[i] = bz[H + i]
      BY <1>1, <1>5
    <2>2. \A i \in 1..C : H + i \in 1..(H + C) /\ ~(H + i <= H) /\ (H + i) - H = i
      BY <1>1
    <2> QED
      BY <1>5, <2>1, <2>2, Zenon
  <1> HIDE DEF x, y
  <1>8. Number(x) = h
    BY <1>1, <1>6, NumberReadBack, Zenon DEF a
  <1>9. Number(y) = c
    BY <1>1, <1>7, NumberReadBack, Zenon DEF b
  <1>10. bz # << >>
    BY <1>1, <1>5
  <1> QED
    BY <1>8, <1>9, <1>10, Zenon DEF decodeHeightCounter, x, y

----------------------------------------------------------------------------
(* The counter of a block.                                                 *)

INSTANCE FiniteSetTheorems

\* Transactions among the first n of a block that pass the ante handlers.
Passed(blk, n) == Cardinality({j \in 1..n : blk[j]})

\* There are at most n of them, and the next one adds itself.
LEMMA PassedCounts ==
  ASSUME NEW blk \in Seq(BOOLEAN), NEW n \in Nat, n < Len(blk)
  PROVE  /\ Passed(blk, 0) = 0 /\ Passed(blk, n) \in 0..n
         /\ Passed(blk, n + 1) = IF blk[n + 1] THEN Passed(blk, n) + 1 ELSE Passed(blk, n)
  <1> DEFINE P(m) == {j \in 1..m : blk[j]}
  <1>1. Passed(blk, 0) = 0
    <2>1. P(0) = {}
      OBVIOUS
    <2>2. Cardinality({}) = 0
      BY FS_EmptySet
    <2> QED
      BY <2>1, <2>2, Zenon DEF Passed
  <1>2. IsFiniteSet(P(n)) /\ Passed(blk, n) \in 0..n
    <2>1. IsFiniteSet(1..n) /\ Cardinality(1..n) = n
      BY FS_Interval
    <2>2. P(n) \subseteq 1..n
      BY Zenon
    <2> HIDE DEF P
    <2>3. IsFiniteSet(P(n)) /\ Cardinality(P(n)) <= n
      BY <2>1, <2>2, FS_Subset
    <2>4. Cardinality(P(n)) \in Nat
      BY <2>3, FS_CardinalityType
    <2>5. Cardinality(P(n)) \in 0..n
      BY <2>3, <2>4
    <2> QED
      BY <2>3, <2>5, Zenon DEF Passed, P
  <1>3. blk[n + 1] \in BOOLEAN
    OBVIOUS
  <1>4. \A j : j \in 1..(n + 1) <=> j \in 1..n \/ j = n + 1
    OBVIOUS
  <1>5. n + 1 \notin P(n)
    OBVIOUS
  <1>6. CASE blk[n + 1]
    <2>1. P(n + 1) = P(n) \cup {n + 1}
      BY <1>4, <1>6, Zenon
    <2> HIDE DEF P
    <2>2. Cardinality(P(n) \cup {n + 1}) = Cardinality(P(n)) + 1
      BY <1>2, <1>5, FS_AddElement, Zenon
    <2> QED
      BY <1>1, <1>2, <1>6, <2>1, <2>2, Zenon DEF Passed, P
  <1>7. CASE ~blk[n + 1]
    <2>1. P(n + 1) = P(n)
      BY <1>4, <1>7, Zenon
    <2> QED
      BY <1>1, <1>2, <1>7, <2>1, Zenon DEF Passed, P
  <1> QED
    BY <1>6, <1>7, Zenon

\* A stored counter: none, or one of a height up to h.
IsStored(store, h) ==
  \/ store = << >>
  \/ \E k \in 0..h, c \in 0..MaxBlockTx : store = encodeHeightCounter(k, c)

\* The store of a block that runs holds the number of its transactions that
\* passed so far, or nothing of this block yet.
BlockInv ==
  /\ height < MaxHeight /\ block \in Seq(BOOLEAN) /\ Len(block) <= MaxBlockTx
  /\ counters \in Seq(Int) /\ Len(counters) <= Len(block)
  /\ IsStored(branch, height + 1)
  /\ txCounter(branch, height + 1) = Passed(block, Len(counters))
  /\ \A i \in 1..Len(counters) : block[i] => counters[i] = Passed(block, i - 1)

AnteInv ==
  /\ height \in 0..MaxHeight
  /\ IsStored(committed, height)
  /\ block \in Seq(BOOLEAN) /\ Len(block) <= MaxBlockTx
  /\ running \in BOOLEAN
  /\ running => BlockInv
  /\ ~running => counters = << >>

\* The counter of a height not stored yet is 0.
LEMMA NoCounterYet ==
  ASSUME NEW h \in Nat, h < MaxHeight, NEW store, IsStored(store, h)
  PROVE  txCounter(store, h + 1) = 0 /\ IsStored(store, h + 1)
  <1>1. CASE store = << >>
    BY <1>1, Zenon DEF txCounter, IsStored
  <1>2. CASE store # << >>
    <2>1. PICK k \in 0..h, c \in 0..MaxBlockTx : store = encodeHeightCounter(k, c)
      BY <1>2, Zenon DEF IsStored
    <2>2. k \in 0..MaxHeight /\ k # h + 1 /\ k \in 0..(h + 1)
      BY AnteAssumption
    <2>3. decodeHeightCounter(store).height = k
      BY <2>1, <2>2, CounterReadBack, Zenon
    <2> QED
      BY <2>1, <2>2, <2>3, Zenon DEF txCounter, IsStored
  <1> QED
    BY <1>1, <1>2, Zenon

\* CountTXDecorator stores the next counter for the height.
LEMMA NextCounter ==
  ASSUME NEW h \in 0..MaxHeight, NEW store, NEW n, n = txCounter(store, h),
         n \in Nat, n < MaxBlockTx
  PROVE  txCounter(Counted(store, h), h) = n + 1 /\ IsStored(Counted(store, h), h)
  <1> PICK bz : bz = Counted(store, h)
    BY Zenon
  <1>1. n + 1 \in 0..MaxBlockTx /\ h \in 0..h
    BY AnteAssumption
  <1>2. bz = encodeHeightCounter(h, n + 1)
    BY Zenon DEF Counted
  <1>3. bz # << >> /\ decodeHeightCounter(bz).height = h /\ decodeHeightCounter(bz).counter = n + 1
    BY <1>1, <1>2, CounterReadBack, Zenon
  <1>4. txCounter(bz, h) = n + 1
    BY <1>3, Zenon DEF txCounter
  <1>5. IsStored(bz, h)
    BY <1>1, <1>2, Zenon DEF IsStored
  <1> QED
    BY <1>4, <1>5, Zenon

\* A block begins, for the first time or again after the node stopped.
LEMMA BeginBlockStep ==
  ASSUME AnteInv, BeginBlock
  PROVE  AnteInv'
  <1>1. /\ height' = height /\ committed' = committed /\ running' = TRUE
        /\ height \in Nat /\ height < MaxHeight /\ branch' = committed /\ counters' = << >>
    <2>1. height \in Nat
      BY AnteAssumption DEF AnteInv
    <2> QED
      BY <2>1, Zenon DEF BeginBlock
  <1>2. block' \in Seq(BOOLEAN) /\ Len(block') <= MaxBlockTx
    <2>1. CASE block' = block
      BY <2>1, Zenon DEF AnteInv
    <2>2. CASE block' \in UNION {[1..n -> BOOLEAN] : n \in 1..MaxBlockTx}
      <3>1. PICK m \in 1..MaxBlockTx : block' \in [1..m -> BOOLEAN]
        BY <2>2
      <3>2. m \in Nat /\ m <= MaxBlockTx
        BY AnteAssumption
      <3> QED
        BY <3>1, <3>2
    <2> QED
      BY <2>1, <2>2, Zenon DEF BeginBlock
  <1>3. txCounter(branch', height' + 1) = 0 /\ IsStored(branch', height' + 1)
    BY <1>1, NoCounterYet, Zenon DEF AnteInv
  <1>4. Passed(block', 0) = 0
    <2>1. {j \in 1..0 : block'[j]} = {}
      OBVIOUS
    <2>2. Cardinality({}) = 0
      BY FS_EmptySet, Zenon
    <2> QED
      BY <2>1, <2>2, Zenon DEF Passed
  <1>5. counters' \in Seq(Int) /\ Len(counters') = 0 /\ 1..Len(counters') = {}
        /\ Len(counters') <= Len(block')
    BY <1>1, <1>2
  <1>6. BlockInv'
    BY <1>1, <1>2, <1>3, <1>4, <1>5, Zenon DEF BlockInv
  <1> QED
    BY <1>1, <1>2, <1>6, Zenon DEF AnteInv

\* A transaction is executed: it passes the ante handlers and is counted, or
\* fails in one of them and leaves no trace.
LEMMA DeliverTxStep ==
  ASSUME AnteInv, DeliverTx
  PROVE  AnteInv'
  <1> DEFINE n == Len(counters)
             h == height + 1
             passes == block[n + 1]
             got == IF passes THEN txCounter(branch, h) ELSE NoCounter
  <1>1. /\ running /\ n < Len(block) /\ BlockInv
        /\ branch' = IF passes THEN Counted(branch, h) ELSE branch
        /\ counters' = Append(counters, got)
        /\ height' = height /\ committed' = committed /\ block' = block /\ running' = running
    BY Zenon DEF DeliverTx, AnteInv
  <1>2. /\ block \in Seq(BOOLEAN) /\ Len(block) <= MaxBlockTx /\ counters \in Seq(Int)
        /\ IsStored(branch, h) /\ txCounter(branch, h) = Passed(block, n)
        /\ \A i \in 1..n : block[i] => counters[i] = Passed(block, i - 1)
    BY <1>1, Zenon DEF BlockInv
  <1>3. n \in Nat /\ Len(block) \in Nat /\ h \in 0..MaxHeight /\ MaxBlockTx \in Nat
    BY <1>1, <1>2, AnteAssumption DEF AnteInv, BlockInv
  <1> HIDE DEF n, h, passes
  <1>4. /\ Passed(block, n) \in 0..n
        /\ Passed(block, n + 1) = IF passes THEN Passed(block, n) + 1 ELSE Passed(block, n)
    BY <1>1, <1>2, <1>3, PassedCounts, Zenon DEF passes
  <1>5. Passed(block, n) \in Nat /\ Passed(block, n) < MaxBlockTx
    BY <1>1, <1>2, <1>3, <1>4
  <1>6. txCounter(branch', h) = Passed(block, n + 1) /\ IsStored(branch', h)
    <2>1. CASE passes
      <3>1. /\ txCounter(Counted(branch, h), h) = Passed(block, n) + 1
            /\ IsStored(Counted(branch, h), h)
        BY <1>2, <1>3, <1>5, NextCounter, Zenon
      <3> QED
        BY <1>1, <1>4, <2>1, <3>1, Zenon
    <2>2. CASE ~passes
      BY <1>1, <1>2, <1>4, <2>2, Zenon
    <2> QED
      BY <2>1, <2>2, Zenon
  <1>7. got \in Int /\ (passes => got = Passed(block, n))
    <2>1. Passed(block, n) \in Int /\ NoCounter \in Int
      BY <1>5 DEF NoCounter
    <2> QED
      BY <1>2, <2>1, Zenon
  <1> HIDE DEF got
  <1>8. /\ counters' \in Seq(Int) /\ Len(counters') = n + 1 /\ counters'[n + 1] = got
        /\ \A i \in 1..n : counters'[i] = counters[i]
    BY <1>1, <1>2, <1>7, SeqAppend DEF n
  <1>9. Len(counters') <= Len(block) /\ (n + 1) - 1 = n
        /\ \A i \in 1..(n + 1) : i \in 1..n \/ i = n + 1
    BY <1>1, <1>3, <1>8
  <1>10. \A i \in 1..Len(counters') : block[i] => counters'[i] = Passed(block, i - 1)
    <2>1. ASSUME NEW i \in 1..(n + 1), block[i]
          PROVE  counters'[i] = Passed(block, i - 1)
      <3>1. CASE i \in 1..n
        BY <1>2, <1>8, <2>1, <3>1, Zenon
      <3>2. CASE i = n + 1
        <4>1. passes
          BY <2>1, <3>2, Zenon DEF passes
        <4> QED
          BY <1>7, <1>8, <1>9, <3>2, <4>1, Zenon
      <3> QED
        BY <1>9, <3>1, <3>2, Zenon
    <2> QED
      BY <1>8, <2>1, Zenon
  <1>11. BlockInv'
    <2>1. height < MaxHeight /\ height' + 1 = h
      BY <1>1, Zenon DEF BlockInv, h
    <2>2. txCounter(branch', height' + 1) = Passed(block', Len(counters'))
          /\ IsStored(branch', height' + 1)
      BY <1>1, <1>6, <1>8, <2>1, Zenon
    <2> QED
      BY <1>1, <1>2, <1>8, <1>9, <1>10, <2>1, <2>2, Zenon DEF BlockInv
  <1> QED
    BY <1>1, <1>11, Zenon DEF AnteInv

\* Every step of the node keeps the invariant.
LEMMA AnteNextInv ==
  ASSUME AnteInv, [AnteNext]_anteVars
  PROVE  AnteInv'
  <1>1. CASE Commit
    <2>1. /\ running /\ height' = height + 1 /\ committed' = branch /\ block' = << >>
          /\ running' = FALSE /\ counters' = << >> /\ BlockInv
      BY <1>1, Zenon DEF Commit, AnteInv
    <2>2. height' \in 0..MaxHeight
      BY <2>1, AnteAssumption DEF BlockInv, AnteInv
    <2>3. block' \in Seq(BOOLEAN) /\ Len(block') <= MaxBlockTx
      BY <2>1, AnteAssumption
    <2>4. IsStored(committed', height')
      BY <2>1, Zenon DEF BlockInv
    <2> QED
      BY <2>1, <2>2, <2>3, <2>4, Zenon DEF AnteInv
  <1>2. CASE Restart
    <2>1. height' = height /\ committed' = committed /\ block' = block /\ running' = FALSE
          /\ counters' = << >>
      BY <1>2, Zenon DEF Restart
    <2> QED
      BY <2>1, Zenon DEF AnteInv
  <1>3. CASE CheckTx \/ UNCHANGED anteVars
    <2>1. /\ height' = height /\ committed' = committed /\ block' = block /\ running' = running
          /\ branch' = branch /\ counters' = counters
      BY <1>3, Zenon DEF CheckTx, anteVars
    <2> QED
      BY <2>1, Zenon DEF AnteInv, BlockInv
  <1> QED
    BY <1>1, <1>2, <1>3, BeginBlockStep, DeliverTxStep, Zenon DEF AnteNext

\* The counter a transaction runs with is its position among the transactions
\* of its block that passed, whatever was checked, failed or started again in
\* between (CountTXDecorator.AnteHandle).
THEOREM CountersArePositions == AnteSpec => []CounterIsPosition
  <1>1. AnteIdle => AnteInv
    <2> SUFFICES ASSUME AnteIdle PROVE AnteInv
      BY Zenon
    <2>1. height = 0 /\ committed = << >> /\ block = << >> /\ running = FALSE
          /\ counters = << >>
      BY Zenon DEF AnteIdle
    <2>2. height \in 0..MaxHeight /\ block \in Seq(BOOLEAN) /\ Len(block) <= MaxBlockTx
      BY <2>1, AnteAssumption
    <2> QED
      BY <2>1, <2>2, Zenon DEF AnteInv, IsStored
  <1>2. AnteInv /\ [AnteNext]_anteVars => AnteInv'
    BY AnteNextInv, Zenon
  <1>3. AnteInv => CounterIsPosition
    <2> SUFFICES ASSUME AnteInv, NEW i \in DOMAIN counters, block[i]
                 PROVE  counters[i] = Cardinality({j \in 1..(i - 1) : block[j]})
      BY Zenon DEF CounterIsPosition
    <2>1. CASE running
      <3>1. BlockInv
        BY <2>1, Zenon DEF AnteInv
      <3>2. i \in 1..Len(counters)
        BY <3>1 DEF BlockInv
      <3> QED
        BY <3>1, <3>2, Zenon DEF BlockInv, Passed
    <2>2. CASE ~running
      <3>1. counters = << >>
        BY <2>2, Zenon DEF AnteInv
      <3> QED
        BY <3>1
    <2> QED
      BY <2>1, <2>2, Zenon
  <1> QED
    BY <1>1, <1>2, <1>3, PTL DEF AnteSpec
============================================================================
