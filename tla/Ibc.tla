-------------------------------- MODULE Ibc --------------------------------
(***************************************************************************)
(* IBC channels and packets of contracts: IBCHandler, which ibc-go calls   *)
(* and which calls the contract through the keeper (OnOpenChannel ...      *)
(* OnTimeoutPacket), and IBCRawPacketHandler, through which a contract     *)
(* sends packets and writes delayed acknowledgements.                      *)
(*                                                                         *)
(* A handler is an operator from the chain before the call to the set of   *)
(* results the contract may bring about: an error flag with the chain as   *)
(* far as it was written.  ibc-go's core keeps or drops that chain; it is  *)
(* external, with unordered channels.                                      *)
(***************************************************************************)
EXTENDS Naturals, Sequences

CONSTANTS
  Contract,
  WithPort,     \* contracts that have an IBC port
  NoContract,
  Channel,
  Response,     \* lists of messages contracts return
  MaxSeq        \* bound: packets on a channel, in each direction

Packet == Channel \X (1..MaxSeq)

ChannelOf(p) == p[1]

\* Messages of a contract: IBCMsg.SendPacket and WriteAcknowledgement, with
\* empty or other data, and one that fails.  The failure of a caught one is
\* handled in a reply.
IBCMsg ==
  [kind : {"send", "fail"}, channel : Channel, caught : BOOLEAN]
  \cup [kind : {"ack"}, packet : Packet, data : {"empty", "bytes"}, caught : BOOLEAN]

ASSUME IbcAssumption ==
  /\ WithPort \subseteq Contract /\ NoContract \notin Contract
  /\ Response \subseteq Seq(IBCMsg)
  /\ MaxSeq \in Nat

Version == {"", "v1"}

ChannelEnd ==
  [state : {"none", "init", "tryopen", "open", "closed"},
   port : WithPort \cup {NoContract}, version : Version]

\* What one chain stores.  view, handled and told stand for the state of the
\* contracts: what their entry points wrote of a channel, of the packets they
\* received and of the end of those they sent.
Chain ==
  [channels : [Channel -> ChannelEnd],
   owned : SUBSET (WithPort \X Channel),      \* channel capabilities claimed
   receipts : SUBSET Packet,
   acks : [Packet -> {"none", "empty", "bytes", "error"}],
   async : SUBSET (WithPort \X Packet),       \* StoreAsyncAckPacket
   commitments : SUBSET Packet,
   nextSeq : [Channel -> 1..(MaxSeq + 1)],
   view : [Channel -> {"none", "accepted", "rejected", "open", "closed"}],
   handled : SUBSET Packet,
   told : [Packet -> Seq({"ack", "timeout"})]]

VARIABLES
  chain,
  fate,       \* of the packets sent: whether they arrived at the other chain
  emitted     \* packets of which the contract's events were emitted

vars == <<chain, fate, emitted>>

Init ==
  /\ chain =
       [channels |-> [ch \in Channel |->
                        [state |-> "none", port |-> NoContract, version |-> ""]],
        owned |-> {}, receipts |-> {}, acks |-> [p \in Packet |-> "none"],
        async |-> {}, commitments |-> {}, nextSeq |-> [ch \in Channel |-> 1],
        view |-> [ch \in Channel |-> "none"], handled |-> {},
        told |-> [p \in Packet |-> << >>]]
  /\ fate = [p \in Packet |-> "flying"]
  /\ emitted = {}

PortOf(s, ch) == s.channels[ch].port

IsOpen(s, ch) == s.channels[ch].state = "open"

----------------------------------------------------------------------------
(* IBCRawPacketHandler.                                                    *)

Fails(s) == [ok |-> FALSE, chain |-> s]
Keeps(s) == [ok |-> TRUE, chain |-> s]

\* The contract has a port, and the module the capability of the channel on
\* that port.
Authenticated(s, c, ch) == c \in WithPort /\ <<c, ch>> \in s.owned

\* ICS4Wrapper.SendPacket
SendPacket(s, c, ch) ==
  IF /\ Authenticated(s, c, ch)
     /\ IsOpen(s, ch) /\ s.nextSeq[ch] <= MaxSeq
  THEN Keeps([s EXCEPT !.commitments = @ \cup {<<ch, s.nextSeq[ch]>>},
                       !.nextSeq[ch] = @ + 1])
  ELSE Fails(s)

\* ChannelKeeper.WriteAcknowledgement
CoreWritesAck(s, p, data) ==
  IF IsOpen(s, ChannelOf(p)) /\ s.acks[p] = "none" /\ data # "empty"
  THEN Keeps([s EXCEPT !.acks[p] = data])
  ELSE Fails(s)

DeleteAsyncAckPacket_Not(s, c, p) == s
DeleteAsyncAckPacket(s, c, p) == [s EXCEPT !.async = @ \ {<<c, p>>}]

WriteAcknowledgement(s, c, p, data) ==
  LET written == CoreWritesAck(s, p, data) IN
  IF Authenticated(s, c, ChannelOf(p)) /\ <<c, p>> \in s.async /\ written.ok
  THEN Keeps(DeleteAsyncAckPacket(written.chain, c, p))
  ELSE Fails(s)

DispatchMsg(s, c, msg) ==
  CASE msg.kind = "send" -> SendPacket(s, c, msg.channel)
    [] msg.kind = "ack"  -> WriteAcknowledgement(s, c, msg.packet, msg.data)
    [] msg.kind = "fail" -> Fails(s)

\* handleContractResponse: a failing message ends it, unless it is caught.
Dispatched(s, c, msgs) ==
  LET after[i \in 0..Len(msgs)] ==
        IF i = 0 THEN Keeps(s)
        ELSE LET r == after[i - 1]
                 next == DispatchMsg(r.chain, c, msgs[i]) IN
             IF ~r.ok \/ (~next.ok /\ msgs[i].caught) THEN r ELSE next
  IN after[Len(msgs)]

----------------------------------------------------------------------------
(* Entry points of contracts, called by the keeper.  s is the chain with   *)
(* what the contract writes.                                               *)

\* OnConnectChannel, OnCloseChannel, OnAckPacket, OnTimeoutPacket and the two
\* callbacks: an error of the VM or of the contract, or its response is
\* dispatched.
BasicCall(s, c) == {Fails(s)} \cup {Dispatched(s, c, msgs) : msgs \in Response}

\* OnOpenChannel: only an error of the VM ends it.  What the contract returns
\* as an error is not looked at, and is no version.
OnOpenChannel(s, ch) ==
  {[ok |-> FALSE, chain |-> s, version |-> ""]}
  \cup {[ok |-> TRUE, chain |-> [s EXCEPT !.view[ch] = "rejected"], version |-> ""]}
  \cup {[ok |-> TRUE, chain |-> [s EXCEPT !.view[ch] = "accepted"], version |-> v] :
          v \in Version}

StoreAsyncAckPacket(s, c, p) == [s EXCEPT !.async = @ \cup {<<c, p>>}]

\* OnRecvPacket: an error of the VM panics; one the contract returns is an
\* error acknowledgement; an acknowledgement that is nil is delayed.
Receives(ack, err, s) == [panic |-> FALSE, err |-> err, ack |-> ack, chain |-> s]

OnRecvPacket(s, c, p) ==
  {[panic |-> TRUE, err |-> FALSE, ack |-> "none", chain |-> s]}
  \cup {Receives("error", FALSE, s)}
  \cup UNION {LET d == Dispatched(s, c, msgs) IN
              IF ~d.ok THEN {Receives("none", TRUE, d.chain)}
              ELSE {Receives("none", FALSE, StoreAsyncAckPacket(d.chain, c, p))}
                   \cup {Receives(data, FALSE, d.chain) : data \in {"empty", "bytes"}} :
              msgs \in Response}

----------------------------------------------------------------------------
(* IBCHandler.                                                             *)

ClaimCapability(s, c, ch) == [s EXCEPT !.owned = @ \cup {<<c, ch>>}]

\* Without a version of the contract the proposed one is accepted, and on
\* OnChanOpenInit there must be one.
OnChanOpenInit(s, c, ch, version) ==
  {IF r.ok /\ (r.version # "" \/ version # "")
   THEN [ok |-> TRUE, chain |-> ClaimCapability(r.chain, c, ch),
         version |-> IF r.version = "" THEN version ELSE r.version]
   ELSE [r EXCEPT !.ok = FALSE] : r \in OnOpenChannel(s, ch)}

OnChanOpenTry(s, c, ch, version) ==
  {IF r.ok
   THEN [ok |-> TRUE, chain |-> ClaimCapability(r.chain, c, ch),
         version |-> IF r.version = "" THEN version ELSE r.version]
   ELSE r : r \in OnOpenChannel(s, ch)}

\* OnChanOpenAck and OnChanOpenConfirm; OnChanCloseInit and OnChanCloseConfirm.
OnChanConnect_Swallow(s, c, ch) ==
  {[r EXCEPT !.ok = TRUE] : r \in {Fails(s)} \cup BasicCall([s EXCEPT !.view[ch] = "open"], c)}
OnChanConnect(s, c, ch) == BasicCall([s EXCEPT !.view[ch] = "open"], c)
OnChanClose(s, c, ch) == BasicCall([s EXCEPT !.view[ch] = "closed"], c)

\* An error becomes an error acknowledgement.  The events of the contract and
\* its submessages are emitted unless the acknowledgement is an error.
Emits_Always(ack, err) == TRUE
Emits(ack, err) == ~err /\ ack # "error"

HandlerOnRecvPacket(s, c, p) ==
  {[panic |-> r.panic, ack |-> IF r.err THEN "error" ELSE r.ack,
    async |-> ~r.err /\ r.ack = "none",
    events |-> Emits(r.ack, r.err), chain |-> r.chain] : r \in OnRecvPacket(s, c, p)}

Tell(s, p, end) == [s EXCEPT !.told[p] = Append(@, end)]

OnAcknowledgementPacket_Swallow(s, c, p) ==
  {[r EXCEPT !.ok = TRUE] : r \in {Fails(s)} \cup BasicCall(Tell(s, p, "ack"), c)}
OnAcknowledgementPacket(s, c, p) == BasicCall(Tell(s, p, "ack"), c)
OnTimeoutPacket(s, c, p) == BasicCall(Tell(s, p, "timeout"), c)

----------------------------------------------------------------------------
(* ibc-go's core: the messages of relayers.  An error drops the message.   *)

Keep(r) == r.ok /\ chain' = r.chain

Opened(r, c, ch, state) ==
  /\ r.ok
  /\ chain' = [r.chain EXCEPT !.channels[ch] =
                 [state |-> state, port |-> c, version |-> r.version]]

ChannelOpenInit(ch, c, version) ==
  /\ chain.channels[ch].state = "none"
  /\ \E r \in OnChanOpenInit(chain, c, ch, version) : Opened(r, c, ch, "init")
  /\ UNCHANGED <<fate, emitted>>

ChannelOpenTry(ch, c, version) ==
  /\ chain.channels[ch].state = "none"
  /\ \E r \in OnChanOpenTry(chain, c, ch, version) : Opened(r, c, ch, "tryopen")
  /\ UNCHANGED <<fate, emitted>>

\* ChannelOpenAck and ChannelOpenConfirm
ChannelConnect(ch) ==
  /\ chain.channels[ch].state \in {"init", "tryopen"}
  /\ \E r \in OnChanConnect([chain EXCEPT !.channels[ch].state = "open"],
                            PortOf(chain, ch), ch) : Keep(r)
  /\ UNCHANGED <<fate, emitted>>

\* ChannelCloseInit and ChannelCloseConfirm
ChannelClose(ch) ==
  /\ chain.channels[ch].state \notin {"none", "closed"}
  /\ \E r \in OnChanClose(chain, PortOf(chain, ch), ch) :
       /\ r.ok
       /\ chain' = [r.chain EXCEPT !.channels[ch].state = "closed"]
  /\ UNCHANGED <<fate, emitted>>

\* A packet is received once.  What the application wrote is dropped if the
\* acknowledgement is an error, and kept if there is none yet.
RecvPacket(p) ==
  LET ch == ChannelOf(p)
      s == [chain EXCEPT !.receipts = @ \cup {p}] IN
  /\ IsOpen(chain, ch) /\ p \notin chain.receipts
  /\ \E r \in HandlerOnRecvPacket([s EXCEPT !.handled = @ \cup {p}], PortOf(chain, ch), p) :
       /\ ~r.panic
       /\ IF r.async THEN chain' = r.chain
          ELSE Keep(CoreWritesAck(IF r.ack = "error" THEN s ELSE r.chain, p, r.ack))
       /\ emitted' = IF r.events THEN emitted \cup {p} ELSE emitted
  /\ UNCHANGED fate

Acknowledgement(p) ==
  /\ p \in chain.commitments /\ fate[p] = "received" /\ IsOpen(chain, ChannelOf(p))
  /\ \E r \in OnAcknowledgementPacket([chain EXCEPT !.commitments = @ \ {p}],
                                      PortOf(chain, ChannelOf(p)), p) : Keep(r)
  /\ UNCHANGED <<fate, emitted>>

Timeout(p) ==
  /\ p \in chain.commitments /\ fate[p] = "expired"
  /\ \E r \in OnTimeoutPacket([chain EXCEPT !.commitments = @ \ {p}],
                              PortOf(chain, ChannelOf(p)), p) : Keep(r)
  /\ UNCHANGED <<fate, emitted>>

\* The other chain receives the packet in time or not.
Arrive(p) ==
  /\ p \in chain.commitments /\ fate[p] = "flying"
  /\ \E f \in {"received", "expired"} : fate' = [fate EXCEPT ![p] = f]
  /\ UNCHANGED <<chain, emitted>>

\* The callbacks middleware calls the contract that a packet of another
\* application names, which on the source chain must be the packet's sender.
validateSender(c, sender) == c = sender

SourceCallback(c, sender) ==
  /\ validateSender(c, sender)
  /\ \E r \in BasicCall(chain, c) : Keep(r)
  /\ UNCHANGED <<fate, emitted>>

\* Any other call of a contract: IBCDestinationCallback, or a transaction.
ContractCall(c) ==
  /\ \E r \in BasicCall(chain, c) : Keep(r)
  /\ UNCHANGED <<fate, emitted>>

Next ==
  \/ \E ch \in Channel :
       \/ \E c \in WithPort, v \in Version :
            ChannelOpenInit(ch, c, v) \/ ChannelOpenTry(ch, c, v)
       \/ ChannelConnect(ch) \/ ChannelClose(ch)
  \/ \E p \in Packet : RecvPacket(p) \/ Acknowledgement(p) \/ Timeout(p) \/ Arrive(p)
  \/ \E c \in Contract :
       \/ \E sender \in Contract : SourceCallback(c, sender)
       \/ ContractCall(c)

Spec == Init /\ [][Next]_vars

----------------------------------------------------------------------------
(* Properties.                                                             *)

TypeOK ==
  /\ chain \in Chain
  /\ fate \in [Packet -> {"flying", "received", "expired"}]
  /\ emitted \subseteq Packet

\* The module and the contract agree with the core on every channel: an open
\* one was connected in a call of the contract that went through, a closed one
\* was closed in one, and the module owns the capability of each, on the port
\* of the contract that opened it and on no other.
ChannelsAgree ==
  /\ \A ch \in Channel :
       chain.view[ch] \in
         CASE chain.channels[ch].state = "none" -> {"none"}
           [] chain.channels[ch].state \in {"init", "tryopen"} -> {"accepted", "rejected"}
           [] chain.channels[ch].state = "open" -> {"open"}
           [] chain.channels[ch].state = "closed" -> {"closed"}
  /\ chain.owned = {<<PortOf(chain, ch), ch>> :
                      ch \in {x \in Channel : chain.channels[x].state # "none"}}

\* A packet waits for its acknowledgement in the store of the contract that
\* received it exactly as long as none is written.  So every received packet
\* can be acknowledged, and once only.
AsyncUntilAcked ==
  chain.async = {<<PortOf(chain, ChannelOf(p)), p>> :
                   p \in {q \in chain.receipts : chain.acks[q] = "none"}}

\* What the contract wrote when it received a packet is kept exactly if the
\* sender is not told of an error, and the events with it.
AckTellsState ==
  /\ chain.handled = {p \in chain.receipts : chain.acks[p] # "error"}
  /\ emitted = chain.handled
  /\ \A p \in Packet \ chain.receipts : chain.acks[p] = "none"

\* A packet stays committed until the contract was told how it ended, in a
\* call that went through; it is told once, and what happened.
ToldOnce ==
  \A p \in Packet :
    IF p \in chain.commitments \/ p[2] >= chain.nextSeq[ChannelOf(p)]
    THEN chain.told[p] = << >>
    ELSE chain.told[p] = IF fate[p] = "received" THEN <<"ack">> ELSE <<"timeout">>

\* "the contract can decide if it accepts": a channel the contract answered
\* with an error when it was opened does not come into being.
RejectedStaysClosed ==
  \A ch \in Channel : chain.view[ch] = "rejected" => chain.channels[ch].state = "none"
============================================================================
