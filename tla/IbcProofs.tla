----------------------------- MODULE IbcProofs -----------------------------
(***************************************************************************)
(* The module, the contract and ibc-go's core agree on channels, received  *)
(* and sent packets, whatever the contracts and their responses, however   *)
(* many channels and packets there are.                                    *)
(***************************************************************************)
EXTENDS Ibc, Loops

----------------------------------------------------------------------------
(* The invariant, of a chain in the middle of a handler too: pending has   *)
(* the packet being received, f the fate of the packets.                   *)

Views(state) ==
  CASE state = "none" -> {"none"}
    [] state \in {"init", "tryopen"} -> {"accepted", "rejected"}
    [] state = "open" -> {"open"}
    [] state = "closed" -> {"closed"}

ChannelsIn(s) ==
  /\ \A ch \in Channel : s.view[ch] \in Views(s.channels[ch].state)
  /\ s.owned = {<<PortOf(s, ch), ch>> :
                  ch \in {x \in Channel : s.channels[x].state # "none"}}

AsyncIn(s, pending) ==
  s.async = {<<PortOf(s, ChannelOf(p)), p>> :
               p \in {q \in s.receipts \ pending : s.acks[q] = "none"}}

AcksIn(s, pending) ==
  /\ s.handled = {p \in s.receipts : s.acks[p] # "error"}
  /\ \A p \in Packet : p \notin s.receipts \/ p \in pending => s.acks[p] = "none"

ToldIn(s, f) ==
  /\ \A p \in Packet :
       IF p \in s.commitments \/ p[2] >= s.nextSeq[ChannelOf(p)]
       THEN s.told[p] = << >>
       ELSE s.told[p] = IF f[p] = "received" THEN <<"ack">> ELSE <<"timeout">>
  /\ \A p \in s.commitments : p[2] < s.nextSeq[ChannelOf(p)]

\* What messages of contracts leave alone, and what they keep.
Alike(s, t) ==
  /\ t.channels = s.channels /\ t.owned = s.owned /\ t.receipts = s.receipts
  /\ t.view = s.view /\ t.handled = s.handled /\ t.told = s.told

Kept(t, pending, f) ==
  t \in Chain /\ AsyncIn(t, pending) /\ AcksIn(t, pending) /\ ToldIn(t, f)

\* Results of dispatching messages on s.
Outcomes(s, pending, f) ==
  {r \in [ok : BOOLEAN, chain : Chain] : Alike(s, r.chain) /\ Kept(r.chain, pending, f)}

\* No packet is received on a channel that is yet to be opened.
ReceivedLater(s) == \A p \in s.receipts : s.channels[ChannelOf(p)].state # "none"

IInv ==
  /\ TypeOK /\ ChannelsIn(chain) /\ ReceivedLater(chain)
  /\ Kept(chain, {}, fate) /\ emitted = chain.handled

----------------------------------------------------------------------------
(* Dispatching messages.                                                   *)

Round(r, c, msg) ==
  LET next == DispatchMsg(r.chain, c, msg) IN
  IF ~r.ok \/ (~next.ok /\ msg.caught) THEN r ELSE next

\* What every round of handleContractResponse keeps, the whole loop keeps.
LEMMA DispatchLoop ==
  ASSUME NEW s, NEW c, NEW msgs \in Seq(IBCMsg), NEW S, Keeps(s) \in S,
         \A r \in S, msg \in IBCMsg : Round(r, c, msg) \in S
  PROVE  Dispatched(s, c, msgs) \in S
  <1> DEFINE N == Len(msgs)
             x == Keeps(s)
             F == [z \in (1..N) \X S |-> Round(z[2], c, msgs[z[1]])]
             Run(f) == [i \in 0..N |-> IF i = 0 THEN x ELSE Round(f[i - 1], c, msgs[i])]
             h == CHOOSE f : f = Run(f)
  <1>1. N \in Nat /\ \A n \in 1..N : msgs[n] \in IBCMsg
    OBVIOUS
  <1>2. \A n \in 1..N, y \in S : F[<<n, y>>] = Round(y, c, msgs[n]) /\ F[<<n, y>>] \in S
    <2> SUFFICES ASSUME NEW n \in 1..N, NEW y \in S
                 PROVE  F[<<n, y>>] = Round(y, c, msgs[n]) /\ F[<<n, y>>] \in S
      OBVIOUS
    <2>1. <<n, y>> \in (1..N) \X S /\ <<n, y>>[1] = n /\ <<n, y>>[2] = y
      OBVIOUS
    <2>2. F[<<n, y>>] = Round(<<n, y>>[2], c, msgs[<<n, y>>[1]])
      BY <2>1, Zenon
    <2>3. F[<<n, y>>] = Round(y, c, msgs[n])
      BY <2>1, <2>2, Zenon
    <2> QED
      BY <1>1, <2>3, Zenon
  <1> HIDE DEF F
  <1>3. PICK g \in [0..N -> S] : IsRun(g, N, x, F)
    BY <1>1, <1>2, LoopRuns, Zenon
  <1>4. g = Run(g)
    <2>1. ASSUME NEW i \in 0..N
          PROVE  g[i] = IF i = 0 THEN x ELSE Round(g[i - 1], c, msgs[i])
      <3>1. CASE i = 0
        BY <1>3, <3>1 DEF IsRun
      <3>2. CASE i # 0
        <4>1. i \in 1..N /\ g[i - 1] \in S
          BY <1>1, <3>2
        <4>2. g[i] = F[<<i, g[i - 1]>>]
          BY <1>3, <4>1, Zenon DEF IsRun
        <4>3. g[i] = Round(g[i - 1], c, msgs[i])
          BY <1>2, <4>1, <4>2, Zenon
        <4> QED
          BY <3>2, <4>3, Zenon
      <3> QED
        BY <3>1, <3>2
    <2> HIDE DEF x
    <2> QED
      BY <2>1, Zenon
  <1>5. h = Run(h)
    BY <1>4, Zenon
  <1>6. Dispatched(s, c, msgs) = h[N]
    BY Zenon DEF Dispatched, Round
  <1> HIDE DEF h
  <1> DEFINE T == {n \in 0..N : h[n] \in S}
  <1>7. 0 \in T
    <2>1. 0 \in 0..N
      BY <1>1
    <2>2. h[0] = x
      BY <1>5, <2>1, Zenon
    <2> QED
      BY <2>1, <2>2
  <1>8. ASSUME NEW n \in 1..N, n - 1 \in T
        PROVE  n \in T
    <2>1. n \in 0..N /\ n # 0
      BY <1>1
    <2>2. h[n] = Round(h[n - 1], c, msgs[n])
      BY <1>5, <2>1, Zenon
    <2> QED
      BY <1>1, <1>8, <2>1, <2>2, Zenon
  <1>9. N \in T
    <2>1. N \in 0..N
      BY <1>1
    <2> HIDE DEF T, N
    <2> QED
      BY <1>1, <1>7, <1>8, <2>1, RoundInduction
  <1> QED
    BY <1>6, <1>9, Zenon

\* What a chain stores.
LEMMA ChainFields ==
  ASSUME NEW s \in Chain
  PROVE  /\ s.channels \in [Channel -> ChannelEnd] /\ s.owned \subseteq WithPort \X Channel
         /\ s.receipts \subseteq Packet
         /\ s.acks \in [Packet -> {"none", "empty", "bytes", "error"}]
         /\ s.async \subseteq WithPort \X Packet /\ s.commitments \subseteq Packet
         /\ s.nextSeq \in [Channel -> 1..(MaxSeq + 1)]
         /\ s.view \in [Channel -> {"none", "accepted", "rejected", "open", "closed"}]
         /\ s.handled \subseteq Packet /\ s.told \in [Packet -> Seq({"ack", "timeout"})]
  BY Zenon DEF Chain

\* A packet.
LEMMA PacketParts ==
  ASSUME NEW p \in Packet
  PROVE  ChannelOf(p) \in Channel /\ p[2] \in 1..MaxSeq /\ p = <<ChannelOf(p), p[2]>>
  BY DEF Packet, ChannelOf

\* A result.
LEMMA OutcomeIs ==
  ASSUME NEW s, NEW pending, NEW f, NEW t, Alike(s, t), Kept(t, pending, f)
  PROVE  /\ Fails(t) \in Outcomes(s, pending, f) /\ Keeps(t) \in Outcomes(s, pending, f)
         /\ Fails(t).chain = t /\ Keeps(t).chain = t
         /\ Fails(t).ok = FALSE /\ Keeps(t).ok = TRUE
  <1>1. /\ Fails(t).chain = t /\ Keeps(t).chain = t
        /\ Fails(t).ok = FALSE /\ Keeps(t).ok = TRUE
    BY DEF Fails, Keeps
  <1>2. t \in Chain
    BY Zenon DEF Kept
  <1>3. {Fails(t), Keeps(t)} \subseteq [ok : BOOLEAN, chain : Chain]
    BY <1>2 DEF Fails, Keeps
  <1> QED
    BY <1>1, <1>3, Zenon DEF Outcomes

\* SendPacket commits the next packet.
LEMMA SendKeeps ==
  ASSUME NEW s, NEW pending, NEW f, NEW t, Alike(s, t), Kept(t, pending, f),
         NEW c, NEW ch \in Channel
  PROVE  SendPacket(t, c, ch) \in Outcomes(s, pending, f)
  <1> DEFINE ok == Authenticated(t, c, ch) /\ IsOpen(t, ch) /\ t.nextSeq[ch] <= MaxSeq
             n == t.nextSeq[ch]
             com == t.commitments \cup {<<ch, n>>}
             seq == [t.nextSeq EXCEPT ![ch] = @ + 1]
             u == [t EXCEPT !.commitments = com, !.nextSeq = seq]
  <1>1. t \in Chain /\ AsyncIn(t, pending) /\ AcksIn(t, pending) /\ ToldIn(t, f)
    BY Zenon DEF Kept
  <1>2. CASE ~ok
    <2>1. SendPacket(t, c, ch) = Fails(t)
      BY <1>2, Zenon DEF SendPacket
    <2> QED
      <3>1. Fails(t) \in Outcomes(s, pending, f)
        BY OutcomeIs, Zenon
      <3> QED
        BY <2>1, <3>1, Zenon
  <1>3. CASE ok
    <2>1. SendPacket(t, c, ch) = Keeps(u)
      BY <1>3, Zenon DEF SendPacket
    <2>2. n \in 1..MaxSeq /\ MaxSeq \in Nat
      BY <1>1, <1>3, ChainFields, IbcAssumption
    <2>3. <<ch, n>> \in Packet /\ com \subseteq Packet
      BY <1>1, <2>2, ChainFields DEF Packet
    <2>4. seq \in [Channel -> 1..(MaxSeq + 1)]
      BY <1>1, <2>2, ChainFields
    <2>5. /\ u \in Chain /\ u.commitments = com /\ u.nextSeq = seq
          /\ u.channels = t.channels /\ u.owned = t.owned /\ u.receipts = t.receipts
          /\ u.acks = t.acks /\ u.async = t.async /\ u.view = t.view
          /\ u.handled = t.handled /\ u.told = t.told
      <3> HIDE DEF com, seq
      <3> QED
        BY <1>1, <2>3, <2>4, Zenon DEF Chain
    <2> HIDE DEF u
    <2>6. AsyncIn(u, pending) /\ AcksIn(u, pending) /\ Alike(s, u)
      <3>1. \A x : PortOf(u, x) = PortOf(t, x)
        BY <2>5, Zenon DEF PortOf
      <3> HIDE DEF com, seq
      <3>2. AsyncIn(u, pending)
        BY <1>1, <2>5, <3>1 DEF AsyncIn
      <3>3. AcksIn(u, pending) /\ Alike(s, u)
        BY <1>1, <2>5, Zenon DEF AcksIn, Alike
      <3> QED
        BY <3>2, <3>3
    <2>7. ToldIn(u, f)
      <3>1. ASSUME NEW p \in Packet
            PROVE  /\ p \in com \/ p[2] >= seq[ChannelOf(p)]
                        <=> p \in t.commitments \/ p[2] >= t.nextSeq[ChannelOf(p)]
                   /\ p \in com => p[2] < seq[ChannelOf(p)]
        <4>1. PICK x \in Channel, k \in 1..MaxSeq : p = <<x, k>>
          BY DEF Packet
        <4>2. p[2] = k /\ ChannelOf(p) = x /\ t.nextSeq[x] \in 1..(MaxSeq + 1)
          BY <1>1, <4>1, ChainFields DEF ChannelOf
        <4>3. p \in t.commitments => k < t.nextSeq[x]
          BY <1>1, <4>2 DEF ToldIn
        <4>4. p \in com <=> p \in t.commitments \/ (x = ch /\ k = n)
          BY <4>1
        <4>5. seq[x] = IF x = ch THEN n + 1 ELSE t.nextSeq[x]
          BY <1>1, ChainFields
        <4> HIDE DEF com, seq
        <4>6. CASE x = ch
          BY <2>2, <4>2, <4>3, <4>4, <4>5, <4>6
        <4>7. CASE x # ch
          BY <4>2, <4>3, <4>4, <4>5, <4>7
        <4> QED
          BY <4>6, <4>7
      <3> HIDE DEF com, seq
      <3> QED
        BY <1>1, <2>3, <2>5, <3>1, Zenon DEF ToldIn
    <2> QED
      <3>1. Kept(u, pending, f)
        BY <2>5, <2>6, <2>7, Zenon DEF Kept
      <3>2. Keeps(u) \in Outcomes(s, pending, f)
        BY <2>6, <3>1, OutcomeIs, Zenon
      <3> QED
        BY <2>1, <3>2, Zenon
  <1> QED
    BY <1>2, <1>3

\* WriteAcknowledgement is given a packet that waits for it.
LEMMA AckKeeps ==
  ASSUME NEW s, NEW pending, NEW f, NEW t, Alike(s, t), Kept(t, pending, f),
         NEW c, NEW p \in Packet, NEW data \in {"empty", "bytes"}
  PROVE  WriteAcknowledgement(t, c, p, data) \in Outcomes(s, pending, f)
  <1> DEFINE ok == /\ Authenticated(t, c, ChannelOf(p)) /\ <<c, p>> \in t.async
                   /\ IsOpen(t, ChannelOf(p)) /\ t.acks[p] = "none" /\ data # "empty"
             acks == [t.acks EXCEPT ![p] = data]
             async == t.async \ {<<c, p>>}
             u == [t EXCEPT !.acks = acks, !.async = async]
  <1>1. t \in Chain /\ AsyncIn(t, pending) /\ AcksIn(t, pending) /\ ToldIn(t, f)
    BY Zenon DEF Kept
  <1>2. CASE ~ok
    <2>1. WriteAcknowledgement(t, c, p, data) = Fails(t)
      BY <1>2 DEF WriteAcknowledgement, CoreWritesAck, Fails, Keeps
    <2> QED
      <3>1. Fails(t) \in Outcomes(s, pending, f)
        BY OutcomeIs, Zenon
      <3> QED
        BY <2>1, <3>1, Zenon
  <1>3. CASE ok
    <2>1. WriteAcknowledgement(t, c, p, data) = Keeps(u)
      <3>1. PICK v : v = [t EXCEPT !.acks = acks]
        BY Zenon
      <3>2. CoreWritesAck(t, p, data) = Keeps(v) /\ Keeps(v).ok = TRUE /\ Keeps(v).chain = v
        <4>1. CoreWritesAck(t, p, data) = Keeps(v)
          BY <1>3, <3>1, Zenon DEF CoreWritesAck
        <4> QED
          BY <4>1 DEF Keeps
      <3>3. WriteAcknowledgement(t, c, p, data) = Keeps(DeleteAsyncAckPacket(v, c, p))
        BY <1>3, <3>2, Zenon DEF WriteAcknowledgement
      <3>4. v.async = t.async /\ [v EXCEPT !.async = async] = u
        <4> HIDE DEF acks, async
        <4> QED
          BY <1>1, <3>1 DEF Chain
      <3> QED
        BY <3>3, <3>4, Zenon DEF DeleteAsyncAckPacket
    <2>2. data = "bytes" /\ acks \in [Packet -> {"none", "empty", "bytes", "error"}]
      BY <1>1, <1>3, ChainFields
    <2>3. async \subseteq WithPort \X Packet
      BY <1>1, ChainFields
    <2>4. /\ u \in Chain /\ u.acks = acks /\ u.async = async
          /\ u.channels = t.channels /\ u.owned = t.owned /\ u.receipts = t.receipts
          /\ u.commitments = t.commitments /\ u.nextSeq = t.nextSeq /\ u.view = t.view
          /\ u.handled = t.handled /\ u.told = t.told
      <3> HIDE DEF acks, async
      <3> QED
        BY <1>1, <2>2, <2>3, Zenon DEF Chain
    <2> HIDE DEF u
    <2>5. p \in t.receipts /\ p \notin pending /\ c = PortOf(t, ChannelOf(p))
      BY <1>1, <1>3 DEF AsyncIn
    <2>6. \A q \in Packet : acks[q] = IF q = p THEN "bytes" ELSE t.acks[q]
      BY <1>1, <2>2, ChainFields
    <2>7. t.receipts \subseteq Packet
      BY <1>1, ChainFields
    <2> HIDE DEF acks
    <2>8. AsyncIn(u, pending)
      <3>1. \A q \in t.receipts : acks[q] = "none" <=> q # p /\ t.acks[q] = "none"
        BY <2>6, <2>7
      <3>2. async = {<<PortOf(t, ChannelOf(q)), q>> :
                        q \in {x \in t.receipts \ pending : acks[x] = "none"}}
        <4>1. ASSUME NEW q \in t.receipts, q \notin pending, t.acks[q] = "none", q # p
              PROVE  <<PortOf(t, ChannelOf(q)), q>> # <<c, p>>
          BY <4>1
        <4> QED
          BY <1>1, <2>5, <3>1, <4>1, Zenon DEF AsyncIn
      <3> HIDE DEF async
      <3> QED
        BY <2>4, <3>2, Zenon DEF AsyncIn, PortOf
    <2>9. AcksIn(u, pending)
      <3>1. t.acks[p] = "none" /\ "none" # "error" /\ "bytes" # "error"
        BY <1>3
      <3>2. \A q \in t.receipts : acks[q] # "error" <=> t.acks[q] # "error"
        BY <2>6, <2>7, <3>1
      <3>3. \A q \in Packet : q \notin t.receipts \/ q \in pending => acks[q] = t.acks[q]
        BY <2>5, <2>6
      <3> QED
        BY <1>1, <2>4, <3>2, <3>3, Zenon DEF AcksIn
    <2>10. ToldIn(u, f) /\ Alike(s, u)
      BY <1>1, <2>4, Zenon DEF ToldIn, Alike
    <2> QED
      <3>1. Kept(u, pending, f)
        BY <2>4, <2>8, <2>9, <2>10, Zenon DEF Kept
      <3>2. Keeps(u) \in Outcomes(s, pending, f)
        BY <2>10, <3>1, OutcomeIs, Zenon
      <3> QED
        BY <2>1, <3>2, Zenon
  <1> QED
    BY <1>2, <1>3

\* One message of a contract, and the round it takes.
LEMMA RoundKeeps ==
  ASSUME NEW s, NEW pending, NEW f, NEW r \in Outcomes(s, pending, f),
         NEW c, NEW msg \in IBCMsg
  PROVE  Round(r, c, msg) \in Outcomes(s, pending, f)
  <1>1. Alike(s, r.chain) /\ Kept(r.chain, pending, f) /\ r.chain \in Chain
    BY Zenon DEF Outcomes, Kept
  <1>2. Fails(r.chain) \in Outcomes(s, pending, f)
    BY <1>1, OutcomeIs, Zenon
  <1>3. DispatchMsg(r.chain, c, msg) \in Outcomes(s, pending, f)
    <2>1. CASE msg \in [kind : {"send", "fail"}, channel : Channel, caught : BOOLEAN]
      <3>1. msg.kind \in {"send", "fail"} /\ msg.channel \in Channel
        BY <2>1, Zenon
      <3>2. CASE msg.kind = "send"
        <4>1. DispatchMsg(r.chain, c, msg) = SendPacket(r.chain, c, msg.channel)
          BY <3>2 DEF DispatchMsg
        <4> QED
          BY <1>1, <3>1, <4>1, SendKeeps, Zenon
      <3>3. CASE msg.kind = "fail"
        <4>1. DispatchMsg(r.chain, c, msg) = Fails(r.chain)
          BY <3>3 DEF DispatchMsg
        <4> QED
          BY <1>2, <4>1, Zenon
      <3> QED
        BY <3>1, <3>2, <3>3
    <2>2. CASE msg \in [kind : {"ack"}, packet : Packet, data : {"empty", "bytes"},
                        caught : BOOLEAN]
      <3>1. msg.kind = "ack" /\ msg.packet \in Packet /\ msg.data \in {"empty", "bytes"}
        BY <2>2, Zenon
      <3>2. DispatchMsg(r.chain, c, msg) = WriteAcknowledgement(r.chain, c, msg.packet, msg.data)
        BY <3>1 DEF DispatchMsg
      <3> QED
        BY <1>1, <3>1, <3>2, AckKeeps, Zenon
    <2> QED
      BY <2>1, <2>2, Zenon DEF IBCMsg
  <1> QED
    BY <1>3, Zenon DEF Round

\* What a contract is left with when its response is dispatched.
LEMMA DispatchedKeeps ==
  ASSUME NEW s, NEW pending, NEW f, Kept(s, pending, f), NEW c, NEW msgs \in Response
  PROVE  Dispatched(s, c, msgs) \in Outcomes(s, pending, f)
  <1>1. msgs \in Seq(IBCMsg)
    BY IbcAssumption
  <1>2. Keeps(s) \in Outcomes(s, pending, f)
    BY OutcomeIs, Zenon DEF Alike
  <1>3. \A r \in Outcomes(s, pending, f), msg \in IBCMsg :
          Round(r, c, msg) \in Outcomes(s, pending, f)
    BY RoundKeeps, Zenon
  <1> QED
    BY <1>1, <1>2, <1>3, DispatchLoop, Zenon

\* The same of an entry point that does not fail.
LEMMA CallKeeps ==
  ASSUME NEW s, NEW pending, NEW f, Kept(s, pending, f), NEW c,
         NEW r \in BasicCall(s, c), r.ok
  PROVE  Alike(s, r.chain) /\ Kept(r.chain, pending, f)
  <1>1. r # Fails(s)
    BY DEF Fails
  <1>2. PICK msgs \in Response : r = Dispatched(s, c, msgs)
    BY <1>1, Zenon DEF BasicCall
  <1>3. r \in Outcomes(s, pending, f)
    BY <1>2, DispatchedKeeps, Zenon
  <1> QED
    BY <1>3, Zenon DEF Outcomes

----------------------------------------------------------------------------
(* Channels.                                                               *)

\* Changing the end of a channel, but not the port of one with packets.
LEMMA KeptBeside ==
  ASSUME NEW s, NEW pending, NEW f, Kept(s, pending, f), NEW t \in Chain,
         t.receipts = s.receipts, t.acks = s.acks, t.async = s.async,
         t.commitments = s.commitments, t.nextSeq = s.nextSeq,
         t.handled = s.handled, t.told = s.told,
         \A p \in s.receipts : PortOf(t, ChannelOf(p)) = PortOf(s, ChannelOf(p))
  PROVE  Kept(t, pending, f)
  <1>1. AsyncIn(s, pending) /\ AcksIn(s, pending) /\ ToldIn(s, f)
    BY Zenon DEF Kept
  <1>2. AsyncIn(t, pending)
    <2> DEFINE Q == {q \in s.receipts \ pending : s.acks[q] = "none"}
    <2>1. \A p \in Q : PortOf(t, ChannelOf(p)) = PortOf(s, ChannelOf(p))
      BY Zenon
    <2>2. s.async = {<<PortOf(s, ChannelOf(p)), p>> : p \in Q}
      BY <1>1, Zenon DEF AsyncIn
    <2>3. t.async = {<<PortOf(t, ChannelOf(p)), p>> :
                       p \in {q \in t.receipts \ pending : t.acks[q] = "none"}}
              <=> s.async = {<<PortOf(t, ChannelOf(p)), p>> : p \in Q}
      BY Zenon
    <2> HIDE DEF Q
    <2>4. s.async = {<<PortOf(t, ChannelOf(p)), p>> : p \in Q}
      BY <2>1, <2>2
    <2> QED
      BY <2>3, <2>4, Zenon DEF AsyncIn
  <1>3. AcksIn(t, pending) /\ ToldIn(t, f)
    BY <1>1, Zenon DEF AcksIn, ToldIn
  <1> QED
    BY <1>2, <1>3, Zenon DEF Kept

\* What is said of channels does not depend on the rest.
LEMMA ChannelsAlike ==
  ASSUME NEW s, NEW t, Alike(s, t)
  PROVE  /\ ChannelsIn(s) => ChannelsIn(t)
         /\ ReceivedLater(s) => ReceivedLater(t)
  <1>1. /\ t.channels = s.channels /\ t.owned = s.owned /\ t.receipts = s.receipts
        /\ t.view = s.view
    BY Zenon DEF Alike
  <1>2. ReceivedLater(s) => ReceivedLater(t)
    BY <1>1, Zenon DEF ReceivedLater
  <1>3. ChannelsIn(s) => ChannelsIn(t)
    BY <1>1 DEF ChannelsIn, PortOf
  <1> QED
    BY <1>2, <1>3

\* The contract of a channel that was opened has a port.
LEMMA PortIsContract ==
  ASSUME NEW s \in Chain, ChannelsIn(s), NEW ch \in Channel, s.channels[ch].state # "none"
  PROVE  PortOf(s, ch) \in WithPort
  <1>1. <<PortOf(s, ch), ch>> \in s.owned
    BY DEF ChannelsIn
  <1> QED
    BY <1>1, ChainFields

\* What is to be shown of a step that leaves packets in flight alone.
LEMMA NewChain ==
  ASSUME Kept(chain', {}, fate'), ChannelsIn(chain'), ReceivedLater(chain'),
         fate' \in [Packet -> {"flying", "received", "expired"}],
         emitted' = chain'.handled
  PROVE  IInv'
  <1>1. chain' \in Chain
    BY Zenon DEF Kept
  <1>2. emitted' \subseteq Packet
    BY <1>1, ChainFields
  <1> QED
    BY <1>1, <1>2, Zenon DEF IInv, TypeOK

\* A call of a contract that went through, on s: nothing but its messages.
LEMMA CalledOn ==
  ASSUME fate \in [Packet -> {"flying", "received", "expired"}],
         NEW s, Kept(s, {}, fate), ChannelsIn(s), ReceivedLater(s), emitted = s.handled,
         NEW c, NEW r \in BasicCall(s, c), Keep(r), UNCHANGED <<fate, emitted>>
  PROVE  IInv'
  <1>1. r.ok /\ chain' = r.chain /\ fate' = fate /\ emitted' = emitted
    BY Zenon DEF Keep
  <1>2. Alike(s, chain') /\ Kept(chain', {}, fate')
    BY <1>1, CallKeeps
  <1>3. ChannelsIn(chain') /\ ReceivedLater(chain')
    BY <1>2, ChannelsAlike, Zenon
  <1>4. emitted' = chain'.handled
    BY <1>1, <1>2, Zenon DEF Alike
  <1> QED
    BY <1>1, <1>2, <1>3, <1>4, NewChain, Zenon

\* OnChanOpenInit or OnChanOpenTry went through.
LEMMA OpenedStep ==
  ASSUME IInv, NEW ch \in Channel, chain.channels[ch].state = "none", NEW c \in WithPort,
         NEW w \in {"accepted", "rejected"}, NEW v \in Version,
         NEW st \in {"init", "tryopen"},
         chain' = [[[chain EXCEPT !.view[ch] = w] EXCEPT !.owned = @ \cup {<<c, ch>>}]
                     EXCEPT !.channels[ch] = [state |-> st, port |-> c, version |-> v]],
         UNCHANGED <<fate, emitted>>
  PROVE  IInv'
  <1> DEFINE end == [state |-> st, port |-> c, version |-> v]
             channels == [chain.channels EXCEPT ![ch] = end]
             owned == chain.owned \cup {<<c, ch>>}
             view == [chain.view EXCEPT ![ch] = w]
  <1>1. /\ chain \in Chain /\ ChannelsIn(chain) /\ ReceivedLater(chain)
        /\ Kept(chain, {}, fate) /\ emitted = chain.handled
        /\ fate \in [Packet -> {"flying", "received", "expired"}]
    BY Zenon DEF IInv, TypeOK
  <1>2. end \in ChannelEnd
    BY DEF ChannelEnd
  <1>3. end.state = st /\ end.port = c
    OBVIOUS
  <1> HIDE DEF end
  <1>4. /\ channels \in [Channel -> ChannelEnd] /\ owned \subseteq WithPort \X Channel
        /\ view \in [Channel -> {"none", "accepted", "rejected", "open", "closed"}]
    BY <1>1, <1>2, ChainFields
  <1>5. \A x \in Channel : /\ channels[x] = IF x = ch THEN end ELSE chain.channels[x]
                           /\ view[x] = IF x = ch THEN w ELSE chain.view[x]
    BY <1>1, ChainFields
  <1>6. /\ chain' \in Chain /\ chain'.channels = channels /\ chain'.owned = owned
        /\ chain'.view = view /\ chain'.receipts = chain.receipts /\ chain'.acks = chain.acks
        /\ chain'.async = chain.async /\ chain'.commitments = chain.commitments
        /\ chain'.nextSeq = chain.nextSeq /\ chain'.handled = chain.handled
        /\ chain'.told = chain.told
    <2>1. chain' = [chain EXCEPT !.view = view, !.owned = owned, !.channels = channels]
      BY <1>1 DEF end, Chain
    <2> HIDE DEF channels, owned, view
    <2>2. PICK t : t = chain'
      BY Zenon
    <2>3. t = [channels |-> channels, owned |-> owned, receipts |-> chain.receipts,
               acks |-> chain.acks, async |-> chain.async,
               commitments |-> chain.commitments, nextSeq |-> chain.nextSeq,
               view |-> view, handled |-> chain.handled, told |-> chain.told]
      BY <1>1, <2>1, <2>2 DEF Chain
    <2>4. t \in Chain
      BY <1>1, <1>4, <2>3, ChainFields, Zenon DEF Chain
    <2>5. /\ t.channels = channels /\ t.owned = owned
          /\ t.view = view /\ t.receipts = chain.receipts /\ t.acks = chain.acks
          /\ t.async = chain.async /\ t.commitments = chain.commitments
          /\ t.nextSeq = chain.nextSeq /\ t.handled = chain.handled
          /\ t.told = chain.told
      BY <2>3
    <2> QED
      BY <2>2, <2>4, <2>5
  <1> HIDE DEF channels, view
  <1>7. \A p \in chain.receipts : ChannelOf(p) \in Channel /\ ChannelOf(p) # ch
    BY <1>1, ChainFields, PacketParts DEF ReceivedLater
  <1>8. Kept(chain', {}, fate')
    <2>1. \A p \in chain.receipts : PortOf(chain', ChannelOf(p)) = PortOf(chain, ChannelOf(p))
      BY <1>5, <1>6, <1>7, Zenon DEF PortOf
    <2>2. Kept(chain', {}, fate)
      BY <1>1, <1>6, <2>1, KeptBeside, Zenon
    <2> QED
      BY <2>2
  <1>9. ReceivedLater(chain')
    BY <1>1, <1>5, <1>6, <1>7 DEF ReceivedLater
  <1>10. ChannelsIn(chain')
    <2>1. ASSUME NEW x \in Channel
          PROVE  view[x] \in Views(channels[x].state)
      <3>1. CASE x = ch
        BY <1>3, <1>5, <3>1 DEF Views
      <3>2. CASE x # ch
        BY <1>1, <1>5, <3>2 DEF ChannelsIn
      <3> QED
        BY <3>1, <3>2
    <2>2. owned = {<<channels[x].port, x>> : x \in {y \in Channel : channels[y].state # "none"}}
      <3>1. \A x \in Channel : x # ch => channels[x] = chain.channels[x]
        BY <1>5
      <3>2. channels[ch].port = c /\ channels[ch].state # "none"
        BY <1>3, <1>5
      <3>3. chain.owned = {<<chain.channels[x].port, x>> :
                             x \in {y \in Channel : chain.channels[y].state # "none"}}
        BY <1>1, Zenon DEF ChannelsIn, PortOf
      <3> QED
        BY <3>1, <3>2, <3>3
    <2> HIDE DEF owned
    <2> QED
      BY <1>6, <2>1, <2>2 DEF ChannelsIn, PortOf
  <1> QED
    BY <1>1, <1>6, <1>8, <1>9, <1>10, NewChain

\* OnOpenChannel lets the contract write how it answered.
LEMMA OpenResults ==
  ASSUME NEW s, NEW ch, NEW o \in OnOpenChannel(s, ch)
  PROVE  /\ [o EXCEPT !.ok = FALSE].ok = FALSE
         /\ o.ok => \E w \in {"accepted", "rejected"} :
                      o.chain = [s EXCEPT !.view[ch] = w] /\ o.version \in Version
  <1>1. PICK x, y : x = [s EXCEPT !.view[ch] = "accepted"] /\ y = [s EXCEPT !.view[ch] = "rejected"]
    BY Zenon
  <1>2. PICK e \in Version : e = ""
    BY Zenon DEF Version
  <1>3. \/ o = [ok |-> FALSE, chain |-> s, version |-> e]
        \/ o = [ok |-> TRUE, chain |-> y, version |-> e]
        \/ \E v \in Version : o = [ok |-> TRUE, chain |-> x, version |-> v]
    BY <1>1, <1>2, Zenon DEF OnOpenChannel
  <1>4. /\ [o EXCEPT !.ok = FALSE].ok = FALSE
        /\ o.ok => o.chain \in {x, y} /\ o.version \in Version
    BY <1>3
  <1> QED
    BY <1>1, <1>4, Zenon

\* ChannelOpenInit, ChannelOpenTry.
LEMMA OpenStep ==
  ASSUME IInv, NEW ch \in Channel, NEW c \in WithPort, NEW v \in Version,
         ChannelOpenInit(ch, c, v) \/ ChannelOpenTry(ch, c, v)
  PROVE  IInv'
  <1>1. PICK r \in OnChanOpenInit(chain, c, ch, v) \cup OnChanOpenTry(chain, c, ch, v),
             st \in {"init", "tryopen"} :
          Opened(r, c, ch, st) /\ chain.channels[ch].state = "none" /\ UNCHANGED <<fate, emitted>>
    BY Zenon DEF ChannelOpenInit, ChannelOpenTry
  <1>2. r.ok /\ chain' = [r.chain EXCEPT !.channels[ch] =
                            [state |-> st, port |-> c, version |-> r.version]]
    BY <1>1, Zenon DEF Opened
  <1>3. PICK o \in OnOpenChannel(chain, ch) :
          /\ o.ok /\ r.chain = ClaimCapability(o.chain, c, ch)
          /\ r.version = IF o.version = "" THEN v ELSE o.version
    <2>1. CASE r \in OnChanOpenInit(chain, c, ch, v)
      <3>1. PICK o \in OnOpenChannel(chain, ch) :
              r = IF o.ok /\ (o.version # "" \/ v # "")
                  THEN [ok |-> TRUE, chain |-> ClaimCapability(o.chain, c, ch),
                        version |-> IF o.version = "" THEN v ELSE o.version]
                  ELSE [o EXCEPT !.ok = FALSE]
        BY <2>1, Zenon DEF OnChanOpenInit
      <3>2. [o EXCEPT !.ok = FALSE].ok = FALSE
        BY OpenResults, Zenon
      <3> QED
        BY <1>2, <3>1, <3>2
    <2>2. CASE r \in OnChanOpenTry(chain, c, ch, v)
      <3>1. PICK o \in OnOpenChannel(chain, ch) :
              r = IF o.ok
                  THEN [ok |-> TRUE, chain |-> ClaimCapability(o.chain, c, ch),
                        version |-> IF o.version = "" THEN v ELSE o.version]
                  ELSE o
        BY <2>2, Zenon DEF OnChanOpenTry
      <3> QED
        BY <1>2, <3>1
    <2> QED
      BY <2>1, <2>2
  <1>4. PICK w \in {"accepted", "rejected"} :
          o.chain = [chain EXCEPT !.view[ch] = w] /\ o.version \in Version
    BY <1>3, OpenResults, Zenon
  <1>5. r.version \in Version
    BY <1>3, <1>4
  <1>6. chain' = [[[chain EXCEPT !.view[ch] = w] EXCEPT !.owned = @ \cup {<<c, ch>>}]
                    EXCEPT !.channels[ch] = [state |-> st, port |-> c, version |-> r.version]]
    BY <1>2, <1>3, <1>4, Zenon DEF ClaimCapability
  <1> QED
    BY <1>1, <1>5, <1>6, OpenedStep

\* ChannelOpenAck, ChannelOpenConfirm.
LEMMA ConnectStep ==
  ASSUME IInv, NEW ch \in Channel, ChannelConnect(ch)
  PROVE  IInv'
  <1> DEFINE end == [chain.channels[ch] EXCEPT !.state = "open"]
             channels == [chain.channels EXCEPT ![ch] = end]
             view == [chain.view EXCEPT ![ch] = "open"]
             c == PortOf(chain, ch)
  <1>1. /\ chain \in Chain /\ ChannelsIn(chain) /\ ReceivedLater(chain)
        /\ Kept(chain, {}, fate) /\ emitted = chain.handled
        /\ fate \in [Packet -> {"flying", "received", "expired"}]
    BY Zenon DEF IInv, TypeOK
  <1>2. PICK s, r :
          /\ s = [[chain EXCEPT !.channels[ch].state = "open"] EXCEPT !.view[ch] = "open"]
          /\ r \in BasicCall(s, c) /\ Keep(r)
    BY Zenon DEF ChannelConnect, OnChanConnect
  <1>3. UNCHANGED <<fate, emitted>> /\ chain.channels[ch].state \in {"init", "tryopen"}
    BY Zenon DEF ChannelConnect
  <1>4. chain.channels[ch] \in ChannelEnd
    BY <1>1, ChainFields
  <1>5. end \in ChannelEnd /\ end.port = c /\ end.state = "open"
    BY <1>4 DEF ChannelEnd, PortOf
  <1> HIDE DEF end, c
  <1>6. /\ channels \in [Channel -> ChannelEnd]
        /\ view \in [Channel -> {"none", "accepted", "rejected", "open", "closed"}]
    BY <1>1, <1>5, ChainFields
  <1>7. \A x \in Channel : /\ channels[x] = IF x = ch THEN end ELSE chain.channels[x]
                           /\ view[x] = IF x = ch THEN "open" ELSE chain.view[x]
    BY <1>1, ChainFields
  <1>8. /\ s \in Chain /\ s.channels = channels /\ s.owned = chain.owned
        /\ s.view = view /\ s.receipts = chain.receipts /\ s.acks = chain.acks
        /\ s.async = chain.async /\ s.commitments = chain.commitments
        /\ s.nextSeq = chain.nextSeq /\ s.handled = chain.handled
        /\ s.told = chain.told
    <2>1. s = [chain EXCEPT !.channels = channels, !.view = view]
      BY <1>1, <1>2 DEF end, Chain
    <2> HIDE DEF channels, view
    <2>2. s = [channels |-> channels, owned |-> chain.owned, receipts |-> chain.receipts,
               acks |-> chain.acks, async |-> chain.async,
               commitments |-> chain.commitments, nextSeq |-> chain.nextSeq,
               view |-> view, handled |-> chain.handled, told |-> chain.told]
      BY <1>1, <2>1 DEF Chain
    <2>3. s \in Chain
      BY <1>1, <1>6, <2>2, ChainFields, Zenon DEF Chain
    <2> QED
      BY <2>2, <2>3
  <1> HIDE DEF channels, view
  <1>9. \A x \in Channel : PortOf(s, x) = PortOf(chain, x)
    BY <1>5, <1>7, <1>8 DEF PortOf, c
  <1>10. \A p \in chain.receipts : ChannelOf(p) \in Channel
    BY <1>1, ChainFields, PacketParts
  <1>11. Kept(s, {}, fate)
    BY <1>1, <1>8, <1>9, <1>10, KeptBeside, Zenon
  <1>12. \A x \in Channel : s.channels[x].state = "none" <=> chain.channels[x].state = "none"
    BY <1>3, <1>5, <1>7, <1>8
  <1>13. ReceivedLater(s)
    BY <1>1, <1>8, <1>10, <1>12, Zenon DEF ReceivedLater
  <1>14. ChannelsIn(s)
    <2>1. ASSUME NEW x \in Channel
          PROVE  s.view[x] \in Views(s.channels[x].state)
      <3>1. CASE x = ch
        BY <1>5, <1>7, <1>8, <3>1 DEF Views
      <3>2. CASE x # ch
        BY <1>1, <1>7, <1>8, <3>2 DEF ChannelsIn
      <3> QED
        BY <3>1, <3>2
    <2>2. s.owned = {<<PortOf(s, x), x>> : x \in {y \in Channel : s.channels[y].state # "none"}}
      <3>1. chain.owned = {<<PortOf(chain, x), x>> :
                             x \in {y \in Channel : chain.channels[y].state # "none"}}
        BY <1>1, Zenon DEF ChannelsIn
      <3> QED
        BY <1>8, <1>9, <1>12, <3>1
    <2> QED
      BY <2>1, <2>2, Zenon DEF ChannelsIn
  <1> QED
    BY <1>1, <1>2, <1>3, <1>8, <1>11, <1>13, <1>14, CalledOn

\* ChannelCloseInit, ChannelCloseConfirm.
LEMMA CloseStep ==
  ASSUME IInv, NEW ch \in Channel, ChannelClose(ch)
  PROVE  IInv'
  <1> DEFINE view == [chain.view EXCEPT ![ch] = "closed"]
  <1>1. /\ chain \in Chain /\ ChannelsIn(chain) /\ ReceivedLater(chain)
        /\ Kept(chain, {}, fate) /\ emitted = chain.handled
        /\ fate \in [Packet -> {"flying", "received", "expired"}]
    BY Zenon DEF IInv, TypeOK
  <1>2. PICK s, r :
          /\ s = [chain EXCEPT !.view = view]
          /\ r \in BasicCall(s, PortOf(chain, ch)) /\ r.ok
          /\ chain' = [r.chain EXCEPT !.channels[ch].state = "closed"]
    BY Zenon DEF ChannelClose, OnChanClose
  <1>3. fate' = fate /\ emitted' = emitted /\ chain.channels[ch].state # "none"
    BY DEF ChannelClose
  <1>4. /\ view \in [Channel -> {"none", "accepted", "rejected", "open", "closed"}]
        /\ \A x \in Channel : view[x] = IF x = ch THEN "closed" ELSE chain.view[x]
    BY <1>1, ChainFields
  <1> HIDE DEF view
  <1>5. /\ s \in Chain /\ s.channels = chain.channels /\ s.owned = chain.owned
        /\ s.view = view /\ s.receipts = chain.receipts /\ s.acks = chain.acks
        /\ s.async = chain.async /\ s.commitments = chain.commitments
        /\ s.nextSeq = chain.nextSeq /\ s.handled = chain.handled
        /\ s.told = chain.told
    BY <1>1, <1>2, <1>4, Zenon DEF Chain
  <1>6. Kept(s, {}, fate)
    BY <1>1, <1>5, KeptBeside, Zenon DEF PortOf
  <1>7. Alike(s, r.chain) /\ Kept(r.chain, {}, fate) /\ r.chain \in Chain
    <2>1. Alike(s, r.chain) /\ Kept(r.chain, {}, fate)
      BY <1>2, <1>6, CallKeeps, Zenon
    <2> QED
      BY <2>1, Zenon DEF Kept
  <1>8. PICK u : u = r.chain
    BY Zenon
  <1>9. /\ u.channels = chain.channels /\ u.owned = chain.owned /\ u.receipts = chain.receipts
        /\ u.view = view /\ u.handled = chain.handled /\ u \in Chain
    BY <1>5, <1>7, <1>8, Zenon DEF Alike
  <1> DEFINE end == [u.channels[ch] EXCEPT !.state = "closed"]
             channels == [u.channels EXCEPT ![ch] = end]
  <1>10. end \in ChannelEnd /\ end.port = PortOf(u, ch) /\ end.state = "closed"
    <2>1. u.channels[ch] \in ChannelEnd
      BY <1>9, ChainFields
    <2> QED
      BY <2>1 DEF ChannelEnd, PortOf
  <1>11. /\ channels \in [Channel -> ChannelEnd]
         /\ \A x \in Channel : channels[x] = IF x = ch THEN end ELSE u.channels[x]
    <2> HIDE DEF end
    <2> QED
      BY <1>9, <1>10, ChainFields
  <1>12. PICK t : t = chain' /\ t = [u EXCEPT !.channels = channels]
    BY <1>2, <1>8, Zenon
  <1> HIDE DEF channels, end
  <1>13. /\ t \in Chain /\ t.channels = channels /\ t.owned = u.owned
         /\ t.view = u.view /\ t.receipts = u.receipts /\ t.acks = u.acks
         /\ t.async = u.async /\ t.commitments = u.commitments
         /\ t.nextSeq = u.nextSeq /\ t.handled = u.handled
         /\ t.told = u.told
    BY <1>9, <1>11, <1>12, Zenon DEF Chain
  <1>14. \A x \in Channel : PortOf(t, x) = PortOf(u, x) /\ PortOf(u, x) = PortOf(chain, x)
    BY <1>9, <1>10, <1>11, <1>13 DEF PortOf
  <1>15. \A p \in u.receipts : ChannelOf(p) \in Channel
    BY <1>9, ChainFields, PacketParts
  <1>16. Kept(t, {}, fate)
    BY <1>7, <1>8, <1>13, <1>14, <1>15, KeptBeside, Zenon
  <1>17. \A x \in Channel : t.channels[x].state = "none" <=> chain.channels[x].state = "none"
    BY <1>3, <1>9, <1>10, <1>11, <1>13
  <1>18. ReceivedLater(t)
    BY <1>1, <1>9, <1>13, <1>15, <1>17, Zenon DEF ReceivedLater
  <1>19. ChannelsIn(t)
    <2>1. ASSUME NEW x \in Channel
          PROVE  t.view[x] \in Views(t.channels[x].state)
      <3>1. CASE x = ch
        BY <1>4, <1>9, <1>10, <1>11, <1>13, <3>1 DEF Views
      <3>2. CASE x # ch
        BY <1>1, <1>4, <1>9, <1>11, <1>13, <3>2 DEF ChannelsIn
      <3> QED
        BY <3>1, <3>2
    <2>2. t.owned = {<<PortOf(t, x), x>> : x \in {y \in Channel : t.channels[y].state # "none"}}
      <3>1. chain.owned = {<<PortOf(chain, x), x>> :
                             x \in {y \in Channel : chain.channels[y].state # "none"}}
        BY <1>1, Zenon DEF ChannelsIn
      <3> QED
        BY <1>9, <1>13, <1>14, <1>17, <3>1
    <2> QED
      BY <2>1, <2>2, Zenon DEF ChannelsIn
  <1>20. emitted' = t.handled
    BY <1>1, <1>3, <1>9, <1>13
  <1> QED
    BY <1>1, <1>3, <1>12, <1>16, <1>18, <1>19, <1>20, NewChain

----------------------------------------------------------------------------
(* Packets.                                                                *)

\* SourceCallback, ContractCall.
LEMMA CallStep ==
  ASSUME IInv, NEW c, NEW r \in BasicCall(chain, c), Keep(r), UNCHANGED <<fate, emitted>>
  PROVE  IInv'
  <1>1. /\ ChannelsIn(chain) /\ ReceivedLater(chain)
        /\ Kept(chain, {}, fate) /\ emitted = chain.handled
        /\ fate \in [Packet -> {"flying", "received", "expired"}]
    BY Zenon DEF IInv, TypeOK
  <1> QED
    BY <1>1, CalledOn

\* The other chain has the packet, or can have it no more.  Nobody was told yet.
LEMMA ArriveStep ==
  ASSUME IInv, NEW p \in Packet, Arrive(p)
  PROVE  IInv'
  <1>1. PICK x \in {"received", "expired"} : fate' = [fate EXCEPT ![p] = x]
    BY Zenon DEF Arrive
  <1>2. p \in chain.commitments /\ chain' = chain /\ emitted' = emitted
    BY DEF Arrive
  <1>3. /\ ChannelsIn(chain) /\ ReceivedLater(chain)
        /\ Kept(chain, {}, fate) /\ emitted = chain.handled
        /\ fate \in [Packet -> {"flying", "received", "expired"}]
    BY Zenon DEF IInv, TypeOK
  <1>4. /\ fate' \in [Packet -> {"flying", "received", "expired"}]
        /\ \A q \in Packet : q # p => fate'[q] = fate[q]
    BY <1>1, <1>3
  <1>5. Kept(chain, {}, fate')
    <2>1. ToldIn(chain, fate) /\ chain.commitments \subseteq Packet
      BY <1>3, ChainFields, Zenon DEF Kept
    <2>2. ToldIn(chain, fate')
      BY <1>2, <1>4, <2>1, Zenon DEF ToldIn
    <2> QED
      BY <1>3, <2>2, Zenon DEF Kept
  <1> QED
    BY <1>2, <1>3, <1>4, <1>5, NewChain

\* The contract is told how the packet ended, in the call that ends it.
LEMMA EndStep ==
  ASSUME IInv, NEW p \in Packet, p \in chain.commitments, NEW end \in {"ack", "timeout"},
         end = IF fate[p] = "received" THEN "ack" ELSE "timeout",
         NEW c, NEW r \in BasicCall(Tell([chain EXCEPT !.commitments = @ \ {p}], p, end), c),
         Keep(r), UNCHANGED <<fate, emitted>>
  PROVE  IInv'
  <1> DEFINE com == chain.commitments \ {p}
             told == [chain.told EXCEPT ![p] = <<end>>]
  <1>1. /\ chain \in Chain /\ ChannelsIn(chain) /\ ReceivedLater(chain)
        /\ Kept(chain, {}, fate) /\ emitted = chain.handled
        /\ fate \in [Packet -> {"flying", "received", "expired"}]
    BY Zenon DEF IInv, TypeOK
  <1>2. AsyncIn(chain, {}) /\ AcksIn(chain, {}) /\ ToldIn(chain, fate)
    BY <1>1, Zenon DEF Kept
  <1>3. chain.told[p] = << >>
    BY <1>2, Zenon DEF ToldIn
  <1>4. Append(chain.told[p], end) = <<end>> /\ <<end>> \in Seq({"ack", "timeout"})
    BY <1>3
  <1>5. /\ com \subseteq Packet /\ told \in [Packet -> Seq({"ack", "timeout"})]
        /\ \A q \in Packet : told[q] = IF q = p THEN <<end>> ELSE chain.told[q]
    BY <1>1, <1>4, ChainFields
  <1>6. PICK s : s = Tell([chain EXCEPT !.commitments = com], p, end)
    BY Zenon
  <1>7. s = [chain EXCEPT !.commitments = com, !.told = told]
    <2>1. PICK u : u = [chain EXCEPT !.commitments = com]
      BY Zenon
    <2>2. u.told = chain.told /\ s = [u EXCEPT !.told = [u.told EXCEPT ![p] = Append(u.told[p], end)]]
      <3> HIDE DEF com
      <3>1. u.told = chain.told
        BY <1>1, <2>1 DEF Chain
      <3> QED
        BY <1>6, <2>1, <3>1, Zenon DEF Tell
    <2>3. s = [u EXCEPT !.told = told]
      BY <1>4, <2>2, Zenon
    <2> HIDE DEF com, told
    <2> QED
      BY <1>1, <2>1, <2>3 DEF Chain
  <1> HIDE DEF told
  <1>8. /\ s \in Chain /\ s.channels = chain.channels /\ s.owned = chain.owned
        /\ s.view = chain.view /\ s.receipts = chain.receipts /\ s.acks = chain.acks
        /\ s.async = chain.async /\ s.commitments = com
        /\ s.nextSeq = chain.nextSeq /\ s.handled = chain.handled
        /\ s.told = told
    <2> HIDE DEF com
    <2> QED
      BY <1>1, <1>5, <1>7, Zenon DEF Chain
  <1>9. AsyncIn(s, {}) /\ AcksIn(s, {})
    BY <1>2, <1>8 DEF AsyncIn, AcksIn, PortOf
  <1>10. ToldIn(s, fate)
    <2>1. ~(p[2] >= chain.nextSeq[ChannelOf(p)])
      <3>1. p[2] < chain.nextSeq[ChannelOf(p)]
        BY <1>2, Zenon DEF ToldIn
      <3>2. p[2] \in Int /\ chain.nextSeq[ChannelOf(p)] \in Int
        BY <1>1, PacketParts, ChainFields, IbcAssumption
      <3> QED
        BY <3>1, <3>2
    <2>2. told[p] = IF fate[p] = "received" THEN <<"ack">> ELSE <<"timeout">>
      BY <1>5
    <2>3. \A q \in Packet : q # p => told[q] = chain.told[q] /\ (q \in com <=> q \in chain.commitments)
      BY <1>5
    <2>4. p \notin com /\ com \subseteq chain.commitments
      OBVIOUS
    <2> HIDE DEF com
    <2> QED
      BY <1>2, <1>8, <2>1, <2>2, <2>3, <2>4, Zenon DEF ToldIn
  <1>11. Kept(s, {}, fate)
    BY <1>8, <1>9, <1>10, Zenon DEF Kept
  <1>12. ChannelsIn(s) /\ ReceivedLater(s)
    <2>1. ReceivedLater(s)
      BY <1>1, <1>8, Zenon DEF ReceivedLater
    <2>2. ChannelsIn(s)
      BY <1>1, <1>8 DEF ChannelsIn, PortOf
    <2> QED
      BY <2>1, <2>2
  <1> QED
    BY <1>1, <1>6, <1>8, <1>11, <1>12, CalledOn

Receipt(s, p) == [s EXCEPT !.receipts = @ \cup {p}]
Handled(s, p) == [s EXCEPT !.handled = @ \cup {p}]
AckedAs(s, p, ack) == [s EXCEPT !.acks[p] = ack]

\* A packet is received with an error acknowledgement, with a delayed one or
\* with one of the contract.
LEMMA RecvResults ==
  ASSUME NEW p, RecvPacket(p), NEW s, s = Receipt(chain, p),
         NEW t, t = Handled(s, p), NEW c, c = PortOf(chain, ChannelOf(p))
  PROVE  \/ chain' = AckedAs(s, p, "error") /\ emitted' = emitted
         \/ \E msgs \in Response : \E d :
              /\ d = Dispatched(t, c, msgs) /\ d.ok /\ emitted' = emitted \cup {p}
              /\ chain' = StoreAsyncAckPacket(d.chain, c, p)
                   \/ chain' = AckedAs(d.chain, p, "bytes")
  <1>1. PICK r \in HandlerOnRecvPacket(t, c, p) :
          /\ ~r.panic
          /\ IF r.async THEN chain' = r.chain
             ELSE Keep(CoreWritesAck(IF r.ack = "error" THEN s ELSE r.chain, p, r.ack))
          /\ emitted' = IF r.events THEN emitted \cup {p} ELSE emitted
    BY Zenon DEF RecvPacket, Receipt, Handled
  <1>2. PICK q \in OnRecvPacket(t, c, p) :
          r = [panic |-> q.panic, ack |-> IF q.err THEN "error" ELSE q.ack,
               async |-> ~q.err /\ q.ack = "none",
               events |-> Emits(q.ack, q.err), chain |-> q.chain]
    BY Zenon DEF HandlerOnRecvPacket
  <1>3. /\ r.panic = q.panic /\ r.ack = (IF q.err THEN "error" ELSE q.ack)
        /\ r.async = (~q.err /\ q.ack = "none")
        /\ r.events = Emits(q.ack, q.err) /\ r.chain = q.chain
    BY <1>2, Zenon
  <1>4. ASSUME NEW u, NEW a, Keep(CoreWritesAck(u, p, a))
        PROVE  a # "empty" /\ chain' = AckedAs(u, p, a)
    <2>1. Fails(u).ok = FALSE /\ \A x : Keeps(x).chain = x
      BY DEF Fails, Keeps
    <2> QED
      BY <1>4, <2>1, Zenon DEF Keep, CoreWritesAck, AckedAs
  <1>5. CASE q = [panic |-> TRUE, err |-> FALSE, ack |-> "none", chain |-> t]
    <2>1. q.panic = TRUE
      BY <1>5, Zenon
    <2> QED
      BY <1>1, <1>3, <2>1, Zenon
  <1>6. ASSUME NEW a, NEW err \in BOOLEAN, NEW u, q = Receives(a, err, u)
        PROVE  q.err = err /\ q.ack = a /\ q.chain = u
    BY <1>6, Zenon DEF Receives
  <1>7. ASSUME q.err = TRUE \/ (q.err = FALSE /\ q.ack = "error")
        PROVE  chain' = AckedAs(s, p, "error") /\ emitted' = emitted
    <2>1. r.ack = "error" /\ ~r.events /\ ~r.async
      <3>1. CASE q.err = TRUE
        BY <1>3, <3>1, Zenon DEF Emits
      <3>2. CASE q.err = FALSE /\ q.ack = "error"
        <4>1. "error" # "none"
          OBVIOUS
        <4> QED
          BY <1>3, <3>2, <4>1, Zenon DEF Emits
      <3> QED
        BY <1>7, <3>1, <3>2
    <2>2. Keep(CoreWritesAck(s, p, "error")) /\ emitted' = emitted
      BY <1>1, <2>1, Zenon
    <2> QED
      BY <1>4, <2>2, Zenon
  <1>8. ASSUME NEW msgs \in Response, NEW d, d = Dispatched(t, c, msgs), d.ok,
               q = Receives("none", FALSE, StoreAsyncAckPacket(d.chain, c, p))
        PROVE  emitted' = emitted \cup {p} /\ chain' = StoreAsyncAckPacket(d.chain, c, p)
    <2>1. q.err = FALSE /\ q.ack = "none" /\ q.chain = StoreAsyncAckPacket(d.chain, c, p)
      BY <1>6, <1>8, Zenon
    <2>2. r.async /\ r.events
      <3>1. "error" # "none"
        OBVIOUS
      <3> QED
        BY <1>3, <2>1, <3>1, Zenon DEF Emits
    <2> QED
      BY <1>1, <1>3, <2>1, <2>2, Zenon
  <1>9. ASSUME NEW msgs \in Response, NEW d, d = Dispatched(t, c, msgs), d.ok,
               NEW data \in {"empty", "bytes"}, q = Receives(data, FALSE, d.chain)
        PROVE  emitted' = emitted \cup {p} /\ chain' = AckedAs(d.chain, p, "bytes")
    <2>1. q.err = FALSE /\ q.ack = data /\ q.chain = d.chain
      BY <1>6, <1>9, Zenon
    <2>2. data # "error" /\ data # "none"
      OBVIOUS
    <2>3. ~r.async /\ r.events /\ r.ack = data
      BY <1>3, <2>1, <2>2, Zenon DEF Emits
    <2>4. Keep(CoreWritesAck(d.chain, p, data)) /\ emitted' = emitted \cup {p}
      BY <1>1, <1>3, <2>1, <2>2, <2>3, Zenon
    <2>5. data # "empty" /\ chain' = AckedAs(d.chain, p, data)
      BY <1>4, <2>4, Zenon
    <2>6. data = "bytes"
      BY <2>5
    <2> QED
      BY <2>4, <2>5, <2>6, Zenon
  <1>10. \/ q = [panic |-> TRUE, err |-> FALSE, ack |-> "none", chain |-> t]
         \/ q = Receives("error", FALSE, t)
         \/ \E msgs \in Response :
              LET d == Dispatched(t, c, msgs) IN
              \/ q = Receives("none", TRUE, d.chain)
              \/ d.ok /\ q = Receives("none", FALSE, StoreAsyncAckPacket(d.chain, c, p))
              \/ d.ok /\ \E data \in {"empty", "bytes"} : q = Receives(data, FALSE, d.chain)
    <2>1. CASE \E msgs \in Response :
                 q \in LET d == Dispatched(t, c, msgs) IN
                       IF ~d.ok THEN {Receives("none", TRUE, d.chain)}
                       ELSE {Receives("none", FALSE, StoreAsyncAckPacket(d.chain, c, p))}
                            \cup {Receives(data, FALSE, d.chain) : data \in {"empty", "bytes"}}
      <3>1. PICK msgs, d :
              /\ msgs \in Response /\ d = Dispatched(t, c, msgs)
              /\ q \in IF ~d.ok THEN {Receives("none", TRUE, d.chain)}
                       ELSE {Receives("none", FALSE, StoreAsyncAckPacket(d.chain, c, p))}
                            \cup {Receives(data, FALSE, d.chain) : data \in {"empty", "bytes"}}
        BY <2>1, Zenon
      <3>2. CASE ~d.ok
        BY <3>1, <3>2, Zenon
      <3>3. CASE d.ok
        BY <3>1, <3>3, Zenon
      <3> QED
        BY <3>2, <3>3
    <2> QED
      BY <2>1, Zenon DEF OnRecvPacket
  <1>11. CASE q = Receives("error", FALSE, t)
    <2>1. q.err = FALSE /\ q.ack = "error"
      BY <1>6, <1>11, Zenon
    <2> QED
      BY <1>7, <2>1, Zenon
  <1>12. ASSUME NEW d, q = Receives("none", TRUE, d.chain)
         PROVE  chain' = AckedAs(s, p, "error") /\ emitted' = emitted
    <2>1. q.err = TRUE
      BY <1>6, <1>12, Zenon
    <2> QED
      BY <1>7, <2>1, Zenon
  <1> QED
    BY <1>5, <1>8, <1>9, <1>10, <1>11, <1>12, Zenon

\* What is said of a chain with one more packet received, and acknowledged
\* or kept waiting.
LEMMA ReceivedIs ==
  ASSUME NEW s \in Chain, ChannelsIn(s), ReceivedLater(s), Kept(s, {}, fate),
         NEW p \in Packet, p \notin s.receipts, s.channels[ChannelOf(p)].state # "none",
         NEW u, NEW ack \in {"none", "bytes", "error"},
         u.channels = s.channels, u.owned = s.owned, u.view = s.view, u \in Chain,
         u.receipts = s.receipts \cup {p},
         u.handled = IF ack = "error" THEN s.handled ELSE s.handled \cup {p},
         NEW t, Kept(t, {p}, fate), t.channels = s.channels, t.receipts = u.receipts,
         t.handled = s.handled \cup {p},
         u.acks = [t.acks EXCEPT ![p] = ack],
         u.async = IF ack = "none" THEN t.async \cup {<<PortOf(s, ChannelOf(p)), p>>}
                   ELSE t.async,
         u.commitments = t.commitments, u.nextSeq = t.nextSeq, u.told = t.told
  PROVE  ChannelsIn(u) /\ ReceivedLater(u) /\ Kept(u, {}, fate)
  <1>1. ChannelsIn(u)
    BY DEF ChannelsIn, PortOf
  <1>2. ReceivedLater(u)
    BY DEF ReceivedLater
  <1>3. t \in Chain /\ AsyncIn(t, {p}) /\ AcksIn(t, {p}) /\ ToldIn(t, fate)
    BY Zenon DEF Kept
  <1>4. ToldIn(u, fate)
    BY <1>3, Zenon DEF ToldIn
  <1>5. /\ \A x \in Packet : u.acks[x] = IF x = p THEN ack ELSE t.acks[x]
        /\ t.acks[p] = "none"
    <2>1. t.acks \in [Packet -> {"none", "empty", "bytes", "error"}]
      BY <1>3, ChainFields
    <2>2. t.acks[p] = "none"
      BY <1>3 DEF AcksIn
    <2> QED
      BY <2>1, <2>2
  <1>6. s.receipts \subseteq Packet /\ p \notin s.handled
    BY DEF Kept, AcksIn, Chain
  <1>7. s.receipts \subseteq Packet
    BY ChainFields
  <1>8. AcksIn(u, {})
    <2>1. t.handled = {x \in t.receipts : t.acks[x] # "error"}
      BY <1>3, Zenon DEF AcksIn
    <2>2. u.handled = {x \in u.receipts : u.acks[x] # "error"}
      BY <1>5, <1>6, <1>7, <2>1
    <2>3. \A x \in Packet : x \notin t.receipts => t.acks[x] = "none" /\ x # p
      BY <1>3 DEF AcksIn
    <2>4. \A x \in Packet : x \notin u.receipts => u.acks[x] = "none"
      BY <1>5, <2>3
    <2> QED
      BY <2>2, <2>4 DEF AcksIn
  <1>9. AsyncIn(u, {})
    <2>1. \A x : PortOf(t, x) = PortOf(s, x) /\ PortOf(u, x) = PortOf(s, x)
      BY DEF PortOf
    <2>2. t.async = {<<PortOf(s, ChannelOf(x)), x>> :
                       x \in {y \in u.receipts \ {p} : t.acks[y] = "none"}}
      BY <1>3, <2>1 DEF AsyncIn
    <2>3. {y \in u.receipts : u.acks[y] = "none"}
            = {y \in u.receipts \ {p} : t.acks[y] = "none"} \cup (IF ack = "none" THEN {p} ELSE {})
      BY <1>5, <1>7
    <2>4. u.async = {<<PortOf(s, ChannelOf(x)), x>> :
                       x \in {y \in u.receipts : u.acks[y] = "none"}}
      BY <2>2, <2>3
    <2> QED
      BY <2>1, <2>4 DEF AsyncIn
  <1> QED
    BY <1>1, <1>2, <1>4, <1>8, <1>9, Zenon DEF Kept

\* RecvPacket.
LEMMA RecvStep ==
  ASSUME IInv, NEW p \in Packet, RecvPacket(p)
  PROVE  IInv'
  <1> DEFINE c == PortOf(chain, ChannelOf(p))
             rec == chain.receipts \cup {p}
             han == chain.handled \cup {p}
  <1>1. /\ chain \in Chain /\ ChannelsIn(chain) /\ ReceivedLater(chain)
        /\ Kept(chain, {}, fate) /\ emitted = chain.handled
        /\ fate \in [Packet -> {"flying", "received", "expired"}]
    BY Zenon DEF IInv, TypeOK
  <1>2. /\ chain.channels[ChannelOf(p)].state = "open" /\ p \notin chain.receipts
        /\ fate' = fate
    BY Zenon DEF RecvPacket, IsOpen
  <1>3. PICK s, t : /\ s = [chain EXCEPT !.receipts = rec]
                    /\ t = [s EXCEPT !.handled = s.handled \cup {p}]
    BY Zenon
  <1>4. rec \subseteq Packet /\ han \subseteq Packet
    BY <1>1, ChainFields
  <1>5. /\ s \in Chain /\ s.channels = chain.channels /\ s.owned = chain.owned
        /\ s.view = chain.view /\ s.receipts = rec /\ s.acks = chain.acks
        /\ s.async = chain.async /\ s.commitments = chain.commitments
        /\ s.nextSeq = chain.nextSeq /\ s.handled = chain.handled
        /\ s.told = chain.told
    <2> HIDE DEF rec
    <2> QED
      BY <1>1, <1>3, <1>4, Zenon DEF Chain
  <1>6. /\ t \in Chain /\ t.channels = chain.channels /\ t.owned = chain.owned
        /\ t.view = chain.view /\ t.receipts = rec /\ t.acks = chain.acks
        /\ t.async = chain.async /\ t.commitments = chain.commitments
        /\ t.nextSeq = chain.nextSeq /\ t.handled = han
        /\ t.told = chain.told
    <2>1. t = [s EXCEPT !.handled = han]
      BY <1>3, <1>5, Zenon
    <2> HIDE DEF rec, han
    <2> QED
      BY <1>4, <1>5, <2>1, Zenon DEF Chain
  <1>7. Kept(t, {p}, fate)
    <2>1. AsyncIn(chain, {}) /\ AcksIn(chain, {}) /\ ToldIn(chain, fate)
      BY <1>1, Zenon DEF Kept
    <2>2. ToldIn(t, fate)
      BY <1>6, <2>1, Zenon DEF ToldIn
    <2>3. chain.acks[p] = "none" /\ chain.receipts \subseteq Packet
      BY <1>1, <1>2, <2>1, ChainFields DEF AcksIn
    <2>4. AcksIn(t, {p})
      <3>1. chain.handled = {x \in chain.receipts : chain.acks[x] # "error"}
        BY <2>1, Zenon DEF AcksIn
      <3>2. han = {x \in rec : chain.acks[x] # "error"}
        BY <2>3, <3>1
      <3>3. \A x \in Packet : x \notin rec \/ x \in {p} => chain.acks[x] = "none"
        BY <2>1, <2>3 DEF AcksIn
      <3> HIDE DEF rec, han
      <3> QED
        BY <1>6, <3>2, <3>3, Zenon DEF AcksIn
    <2>5. AsyncIn(t, {p})
      <3>1. \A x : PortOf(t, x) = PortOf(chain, x)
        BY <1>6, Zenon DEF PortOf
      <3>2. rec \ {p} = chain.receipts \ {}
        BY <1>2
      <3>3. {y \in t.receipts \ {p} : t.acks[y] = "none"}
              = {y \in chain.receipts \ {} : chain.acks[y] = "none"}
        BY <1>6, <3>2, Zenon
      <3> QED
        BY <1>6, <2>1, <3>1, <3>3 DEF AsyncIn
    <2> QED
      BY <1>6, <2>2, <2>4, <2>5, Zenon DEF Kept
  <1>8. \/ chain' = [s EXCEPT !.acks[p] = "error"] /\ emitted' = emitted
        \/ \E msgs \in Response : \E d :
             /\ d = Dispatched(t, c, msgs) /\ d.ok /\ emitted' = emitted \cup {p}
             /\ chain' = StoreAsyncAckPacket(d.chain, c, p)
                  \/ chain' = [d.chain EXCEPT !.acks[p] = "bytes"]
    <2>1. t = Handled(s, p) /\ s = Receipt(chain, p)
      BY <1>3, Zenon DEF Handled, Receipt
    <2>2. \/ chain' = AckedAs(s, p, "error") /\ emitted' = emitted
          \/ \E msgs \in Response : \E d :
               /\ d = Dispatched(t, c, msgs) /\ d.ok /\ emitted' = emitted \cup {p}
               /\ chain' = StoreAsyncAckPacket(d.chain, c, p)
                    \/ chain' = AckedAs(d.chain, p, "bytes")
      <3>1. c = PortOf(chain, ChannelOf(p))
        BY Zenon
      <3> HIDE DEF c
      <3> QED
        BY <2>1, <3>1, RecvResults
    <2> QED
      BY <2>2, Zenon DEF AckedAs
  <1>9. c \in WithPort
    <2>1. chain.channels[ChannelOf(p)].state # "none" /\ ChannelOf(p) \in Channel
      BY <1>2, PacketParts
    <2> QED
      BY <1>1, <2>1, PortIsContract, Zenon
  <1>10. PICK u : u = chain'
    BY Zenon
  <1>11. ASSUME NEW ack \in {"none", "bytes", "error"}, u \in Chain,
                u.channels = chain.channels, u.owned = chain.owned, u.view = chain.view,
                u.receipts = rec,
                u.handled = IF ack = "error" THEN chain.handled ELSE han,
                NEW d, Kept(d, {p}, fate), d.channels = chain.channels, d.receipts = rec,
                d.handled = han,
                u.acks = [d.acks EXCEPT ![p] = ack],
                u.async = IF ack = "none" THEN d.async \cup {<<c, p>>} ELSE d.async,
                u.commitments = d.commitments, u.nextSeq = d.nextSeq, u.told = d.told,
                emitted' = IF ack = "error" THEN emitted ELSE emitted \cup {p}
         PROVE  IInv'
    <2>1. chain.channels[ChannelOf(p)].state # "none"
      BY <1>2
    <2>2. ChannelsIn(u) /\ ReceivedLater(u) /\ Kept(u, {}, fate)
      BY <1>1, <1>2, <1>11, <2>1, ReceivedIs, Zenon
    <2>3. emitted' = u.handled
      BY <1>1, <1>11
    <2> QED
      BY <1>1, <1>2, <1>10, <2>2, <2>3, NewChain
  <1>12. CASE chain' = [s EXCEPT !.acks[p] = "error"] /\ emitted' = emitted
    <2> DEFINE acks == [t.acks EXCEPT ![p] = "error"]
    <2>1. acks \in [Packet -> {"none", "empty", "bytes", "error"}]
      BY <1>6, ChainFields
    <2>2. u = [s EXCEPT !.acks = acks]
      BY <1>5, <1>6, <1>10, <1>12, Zenon
    <2> HIDE DEF acks, rec, han, c
    <2>3. /\ u \in Chain /\ u.channels = chain.channels /\ u.owned = chain.owned
          /\ u.view = chain.view /\ u.receipts = rec /\ u.acks = acks
          /\ u.async = t.async /\ u.commitments = t.commitments
          /\ u.nextSeq = t.nextSeq /\ u.handled = chain.handled
          /\ u.told = t.told
      <3>1. /\ u \in Chain /\ u.channels = s.channels /\ u.owned = s.owned
            /\ u.view = s.view /\ u.receipts = s.receipts /\ u.acks = acks
            /\ u.async = s.async /\ u.commitments = s.commitments
            /\ u.nextSeq = s.nextSeq /\ u.handled = s.handled
            /\ u.told = s.told
        BY <1>5, <2>1, <2>2, Zenon DEF Chain
      <3> QED
        BY <1>5, <1>6, <3>1, Zenon
    <2>4. /\ u.handled = IF "error" = "error" THEN chain.handled ELSE han
          /\ u.async = IF "error" = "none" THEN t.async \cup {<<c, p>>} ELSE t.async
          /\ emitted' = IF "error" = "error" THEN emitted ELSE emitted \cup {p}
      BY <1>12, <2>3
    <2> QED
      BY <1>6, <1>7, <1>11, <2>3, <2>4 DEF acks
  <1>13. ASSUME NEW msgs \in Response, NEW d, d = Dispatched(t, c, msgs), d.ok,
                emitted' = emitted \cup {p},
                chain' = StoreAsyncAckPacket(d.chain, c, p)
                  \/ chain' = [d.chain EXCEPT !.acks[p] = "bytes"]
         PROVE  IInv'
    <2>1. PICK v : v = d.chain
      BY Zenon
    <2>2. Alike(t, v) /\ Kept(v, {p}, fate) /\ v \in Chain
      <3>1. d \in Outcomes(t, {p}, fate)
        BY <1>7, <1>13, DispatchedKeeps, Zenon
      <3> QED
        BY <2>1, <3>1, Zenon DEF Outcomes, Kept
    <2>3. /\ v.channels = chain.channels /\ v.owned = chain.owned /\ v.receipts = rec
          /\ v.view = chain.view /\ v.handled = han
      BY <1>6, <2>2, Zenon DEF Alike
    <2>4. v.acks \in [Packet -> {"none", "empty", "bytes", "error"}] /\ v.acks[p] = "none"
      BY <2>2, ChainFields DEF Kept, AcksIn
    <2>5. CASE chain' = StoreAsyncAckPacket(d.chain, c, p)
      <3> DEFINE async == v.async \cup {<<c, p>>}
      <3>1. u = [v EXCEPT !.async = async]
        BY <1>10, <2>1, <2>5, Zenon DEF StoreAsyncAckPacket
      <3>2. async \subseteq WithPort \X Packet
        BY <1>9, <2>2, ChainFields
      <3> HIDE DEF async, rec, han, c
      <3>3. /\ u \in Chain /\ u.channels = v.channels /\ u.owned = v.owned
            /\ u.view = v.view /\ u.receipts = v.receipts /\ u.acks = v.acks
            /\ u.async = async /\ u.commitments = v.commitments
            /\ u.nextSeq = v.nextSeq /\ u.handled = v.handled
            /\ u.told = v.told
        BY <2>2, <3>1, <3>2, Zenon DEF Chain
      <3>4. v.acks = [v.acks EXCEPT ![p] = "none"]
        BY <2>4
      <3>5. /\ u.handled = IF "none" = "error" THEN chain.handled ELSE han
            /\ u.async = IF "none" = "none" THEN v.async \cup {<<c, p>>} ELSE v.async
            /\ emitted' = IF "none" = "error" THEN emitted ELSE emitted \cup {p}
        BY <1>13, <2>3, <3>3 DEF async
      <3> QED
        BY <1>11, <2>2, <2>3, <3>3, <3>4, <3>5
    <2>6. CASE chain' = [d.chain EXCEPT !.acks[p] = "bytes"]
      <3> DEFINE acks == [v.acks EXCEPT ![p] = "bytes"]
      <3>1. u = [v EXCEPT !.acks = acks]
        BY <1>10, <2>1, <2>6, Zenon
      <3>2. acks \in [Packet -> {"none", "empty", "bytes", "error"}]
        BY <2>4
      <3> HIDE DEF acks, rec, han, c
      <3>3. /\ u \in Chain /\ u.channels = v.channels /\ u.owned = v.owned
            /\ u.view = v.view /\ u.receipts = v.receipts /\ u.acks = acks
            /\ u.async = v.async /\ u.commitments = v.commitments
            /\ u.nextSeq = v.nextSeq /\ u.handled = v.handled
            /\ u.told = v.told
        BY <2>2, <3>1, <3>2, Zenon DEF Chain
      <3>4. /\ u.handled = IF "bytes" = "error" THEN chain.handled ELSE han
            /\ u.async = IF "bytes" = "none" THEN v.async \cup {<<c, p>>} ELSE v.async
            /\ emitted' = IF "bytes" = "error" THEN emitted ELSE emitted \cup {p}
        BY <1>13, <2>3, <3>3
      <3> QED
        BY <1>11, <2>2, <2>3, <3>3, <3>4 DEF acks
    <2> QED
      BY <1>13, <2>5, <2>6
  <1> QED
    BY <1>8, <1>12, <1>13, Zenon

----------------------------------------------------------------------------
(* The theorems.                                                           *)

\* A chain without channels.
LEMMA InitInv ==
  ASSUME Init
  PROVE  IInv
  <1>1. PICK s : s = chain
    BY Zenon
  <1>2. PICK end : end = [state |-> "none", port |-> NoContract, version |-> ""]
    BY Zenon
  <1>3. /\ s = [channels |-> [ch \in Channel |-> end],
                owned |-> {}, receipts |-> {}, acks |-> [p \in Packet |-> "none"],
                async |-> {}, commitments |-> {}, nextSeq |-> [ch \in Channel |-> 1],
                view |-> [ch \in Channel |-> "none"], handled |-> {},
                told |-> [p \in Packet |-> << >>]]
        /\ fate = [p \in Packet |-> "flying"] /\ emitted = {}
    BY <1>1, <1>2, Zenon DEF Init
  <1>4. end \in ChannelEnd /\ end.state = "none"
    BY <1>2, Zenon DEF ChannelEnd, Version
  <1>5. /\ 1 \in 1..(MaxSeq + 1) /\ << >> \in Seq({"ack", "timeout"})
        /\ {} \subseteq Packet /\ {} \subseteq WithPort \X Channel
        /\ {} \subseteq WithPort \X Packet
    BY IbcAssumption
  <1>6. /\ s.channels = [ch \in Channel |-> end] /\ s.owned = {} /\ s.receipts = {}
        /\ s.acks = [p \in Packet |-> "none"] /\ s.async = {} /\ s.commitments = {}
        /\ s.nextSeq = [ch \in Channel |-> 1] /\ s.view = [ch \in Channel |-> "none"]
        /\ s.handled = {} /\ s.told = [p \in Packet |-> << >>]
    BY <1>3, Zenon
  <1>7. s \in Chain
    <2>1. /\ s.channels \in [Channel -> ChannelEnd]
          /\ s.acks \in [Packet -> {"none", "empty", "bytes", "error"}]
          /\ s.nextSeq \in [Channel -> 1..(MaxSeq + 1)]
          /\ s.view \in [Channel -> {"none", "accepted", "rejected", "open", "closed"}]
          /\ s.told \in [Packet -> Seq({"ack", "timeout"})]
      BY <1>4, <1>5, <1>6, Zenon
    <2>2. s = [channels |-> s.channels, owned |-> s.owned, receipts |-> s.receipts,
               acks |-> s.acks, async |-> s.async, commitments |-> s.commitments,
               nextSeq |-> s.nextSeq, view |-> s.view, handled |-> s.handled,
               told |-> s.told]
      BY <1>3, <1>6, Zenon
    <2>3. /\ s.owned \subseteq WithPort \X Channel /\ s.receipts \subseteq Packet
          /\ s.async \subseteq WithPort \X Packet /\ s.commitments \subseteq Packet
          /\ s.handled \subseteq Packet
      BY <1>5, <1>6, Zenon
    <2> QED
      BY <2>1, <2>2, <2>3, Zenon DEF Chain
  <1>8. ChannelsIn(s) /\ ReceivedLater(s)
    BY <1>4, <1>6 DEF ChannelsIn, ReceivedLater, Views
  <1>9. AsyncIn(s, {}) /\ AcksIn(s, {})
    BY <1>6 DEF AsyncIn, AcksIn
  <1>10. ToldIn(s, fate)
    <2>1. \A p \in Packet : p[2] >= s.nextSeq[ChannelOf(p)]
      <3> SUFFICES ASSUME NEW p \in Packet PROVE p[2] >= s.nextSeq[ChannelOf(p)]
        OBVIOUS
      <3>1. ChannelOf(p) \in Channel /\ p[2] \in 1..MaxSeq
        BY PacketParts
      <3> QED
        BY <1>6, <3>1, IbcAssumption
    <2> QED
      BY <1>6, <2>1 DEF ToldIn
  <1>11. fate \in [Packet -> {"flying", "received", "expired"}] /\ emitted \subseteq Packet
    BY <1>3
  <1> QED
    BY <1>1, <1>3, <1>6, <1>7, <1>8, <1>9, <1>10, <1>11 DEF IInv, TypeOK, Kept

\* Every step keeps the invariant.
LEMMA NextInv ==
  ASSUME IInv, [Next]_vars
  PROVE  IInv'
  <1>1. ASSUME NEW p \in Packet, Acknowledgement(p)
        PROVE  IInv'
    <2>1. PICK r \in BasicCall(Tell([chain EXCEPT !.commitments = @ \ {p}], p, "ack"),
                               PortOf(chain, ChannelOf(p))) : Keep(r)
      BY <1>1, Zenon DEF Acknowledgement, OnAcknowledgementPacket
    <2>2. /\ p \in chain.commitments /\ UNCHANGED <<fate, emitted>>
          /\ "ack" = IF fate[p] = "received" THEN "ack" ELSE "timeout"
      BY <1>1, Zenon DEF Acknowledgement
    <2> QED
      BY <2>1, <2>2, EndStep
  <1>2. ASSUME NEW p \in Packet, Timeout(p)
        PROVE  IInv'
    <2>1. PICK r \in BasicCall(Tell([chain EXCEPT !.commitments = @ \ {p}], p, "timeout"),
                               PortOf(chain, ChannelOf(p))) : Keep(r)
      BY <1>2, Zenon DEF Timeout, OnTimeoutPacket
    <2>2. /\ p \in chain.commitments /\ UNCHANGED <<fate, emitted>>
          /\ "timeout" = IF fate[p] = "received" THEN "ack" ELSE "timeout"
      BY <1>2 DEF Timeout
    <2> QED
      BY <2>1, <2>2, EndStep
  <1>3. ASSUME NEW c \in Contract, ContractCall(c) \/ \E sender \in Contract : SourceCallback(c, sender)
        PROVE  IInv'
    <2>1. PICK r \in BasicCall(chain, c) : Keep(r) /\ UNCHANGED <<fate, emitted>>
      BY <1>3, Zenon DEF ContractCall, SourceCallback
    <2> QED
      BY <2>1, CallStep, Zenon
  <1>4. CASE UNCHANGED vars
    BY <1>4, Zenon DEF vars, IInv, TypeOK
  <1> QED
    BY <1>1, <1>2, <1>3, <1>4, OpenStep, ConnectStep, CloseStep, RecvStep, ArriveStep,
       Zenon DEF Next

\* The inductive invariant.
THEOREM Invariance == Spec => []IInv
  <1>1. Init => IInv
    BY InitInv
  <1>2. IInv /\ [Next]_vars => IInv'
    BY NextInv
  <1> QED
    BY <1>1, <1>2, PTL DEF Spec

\* Types.
THEOREM TypeCorrect == Spec => []TypeOK
  <1>1. IInv => TypeOK
    BY Zenon DEF IInv
  <1> QED
    BY <1>1, Invariance, PTL

\* The core, the module and the contract have the same channels.
THEOREM ChannelsAgreed == Spec => []ChannelsAgree
  <1>1. IInv => ChannelsAgree
    BY DEF IInv, ChannelsIn, Views, ChannelsAgree
  <1> QED
    BY <1>1, Invariance, PTL

\* Every received packet can be acknowledged, once.
THEOREM AcksCanBeWritten == Spec => []AsyncUntilAcked
  <1>1. IInv => AsyncUntilAcked
    <2>1. chain.receipts \ {} = chain.receipts
      OBVIOUS
    <2> QED
      BY <2>1, Zenon DEF IInv, Kept, AsyncIn, AsyncUntilAcked
  <1> QED
    BY <1>1, Invariance, PTL

\* The acknowledgement tells what became of the contract's writes and events.
THEOREM AcksAreTrue == Spec => []AckTellsState
  <1>1. IInv => AckTellsState
    BY DEF IInv, Kept, AcksIn, AckTellsState
  <1> QED
    BY <1>1, Invariance, PTL

\* The contract is told the end of each packet it sent, once.
THEOREM SendersAreTold == Spec => []ToldOnce
  <1>1. IInv => ToldOnce
    BY Zenon DEF IInv, Kept, ToldIn, ToldOnce
  <1> QED
    BY <1>1, Invariance, PTL
============================================================================
