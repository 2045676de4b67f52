------------------------------ MODULE Messages -------------------------------
(*
 * How a message of a contract is performed: a chain of handlers is tried in
 * order, each leaving to the next what it does not know. The first one encodes it
 * as messages of the SDK, checks each of them and its signers and routes it; the
 * second one handles IBC packets and the third one burns coins. When a handler
 * fails, the dispatcher drops what was done (see Dispatcher).
 *
 * Sources: x/wasm/keeper/handler_plugin.go, handler_plugin_encoders.go. The
 * modules of the chain are external: they perform a message or fail, and the
 * error may be that of a contract further down that sent an unknown message.
 * Texts are those of Validation; packets themselves are in Ibc.
 *)
EXTENDS Validation

VARIABLES asked,   (* the message of the contract: its variants, or Nothing *)
          stage,   (* of the chain that is reached *)
          todo,    (* encoded messages that are still to be handled *)
          done,    (* what the modules performed *)
          failed,  (* whether a module of the chain returned an error *)
          outcome  (* "none", and then "ok" or "error" *)
messageVars == <<asked, stage, todo, done, failed, outcome>>

MessagesIdle ==
    /\ stage = "idle" /\ asked = Nothing /\ todo = << >> /\ done = << >>
    /\ failed = FALSE /\ outcome = "none"

------------------------------------------------------------------------------
(* Coins *)

Coin(denom, amount) == [Denom |-> denom, Amount |-> amount]

(* A text as a number: one digit, perhaps with a sign. *)
IsInt(text) == \/ Len(text) = 1 /\ text[1] \in 48..57
               \/ Len(text) = 2 /\ text[1] = 45 /\ text[2] \in 48..57
IntOf(text) == IF Len(text) = 1 THEN text[1] - 48 ELSE 48 - text[2]
IntText(n) == <<48 + n>>

ConvertWasmCoinToSdkCoin(coin) ==
    [ok |-> /\ IsInt(coin.Amount) /\ IntOf(coin.Amount) >= 0
            /\ coin.Denom \in ValidDenom,
     coin |-> coin]

(* Add of sdk.Coins: amounts of a denomination are summed up, those of zero   *)
(* are left out, and the result is sorted.                                    *)
AmountOf(coins, denom) ==
    FoldLeft(LAMBDA n, c : IF c.Denom = denom THEN n + IntOf(c.Amount) ELSE n,
             0, coins)
Sums(coins, denoms) ==
    [i \in DOMAIN denoms |-> Coin(denoms[i], IntText(AmountOf(coins, denoms[i])))]
AddCoin(coins, coin) ==
    LET all == Append(coins, coin)
    IN  Sums(all, SetToSortSeq({d \in {all[i].Denom : i \in DOMAIN all} :
                                    AmountOf(all, d) > 0},
                               LAMBDA d, e : d[1] < e[1]))

ConvertWasmCoinsToSdkCoins(coins) ==
    [ok |-> \A i \in DOMAIN coins : ConvertWasmCoinToSdkCoin(coins[i]).ok,
     coins |-> FoldLeft(AddCoin, << >>, coins)]

------------------------------------------------------------------------------
(* Encoders. A message of a contract should have exactly one variant, but     *)
(* UnmarshalJSON lets several pass: it is the sequence of its variants, in    *)
(* the order in which the encoders look for them, those that none of them     *)
(* knows last in their kind. A variant has a kind, a name, the accounts,      *)
(* channels, ... it is about, and lists of coins.                             *)

Encoded(t, m) == [res |-> "ok", msgs |-> <<[type |-> t, m |-> m]>>]
NoMsgs == [res |-> "ok", msgs |-> << >>]
UnknownMsg == [res |-> "unknown", msgs |-> << >>]
Invalid == [res |-> "error", msgs |-> << >>]

(* The encoding with the coins of the message, unless one of them is bad. *)
IfConverted(c, Encoding(_)) ==
    IF \E i \in DOMAIN c : ~c[i].ok THEN Invalid
    ELSE Encoding([i \in DOMAIN c |-> c[i].coins])
WithCoins(msg, Encoding(_)) ==
    IfConverted([i \in DOMAIN msg.coins |->
                    ConvertWasmCoinsToSdkCoins(msg.coins[i])], Encoding)

(* A single coin may be one of zero, which the sum of coins would leave out. *)
WithCoin(msg, Encoding(_)) ==
    IF ConvertWasmCoinToSdkCoin(msg.coins[1][1]).ok
      THEN Encoding(msg.coins[1][1]) ELSE Invalid

EncodeBankMsg(sender, msg) ==
    CASE msg.variant # "send" -> UnknownMsg
      [] msg.variant = "send" /\ msg.coins[1] = << >> -> NoMsgs
      [] OTHER ->
            WithCoins(msg, LAMBDA c : Encoded("MsgSend",
                [FromAddress |-> sender, ToAddress |-> msg.to[1],
                 Amount |-> c[1]]))

NoCustomMsg(sender, msg) == UnknownMsg

EncodeDistributionMsg(sender, msg) ==
    CASE msg.variant = "set_withdraw_address" ->
            Encoded("MsgSetWithdrawAddress",
                [DelegatorAddress |-> sender, WithdrawAddress |-> msg.to[1]])
      [] msg.variant = "withdraw_delegator_reward" ->
            Encoded("MsgWithdrawDelegatorReward",
                [DelegatorAddress |-> sender, ValidatorAddress |-> msg.to[1]])
      [] msg.variant = "fund_community_pool" ->
            WithCoins(msg, LAMBDA c : Encoded("MsgFundCommunityPool",
                [Depositor |-> sender, Amount |-> c[1]]))
      [] OTHER -> UnknownMsg

EncodeStakingMsg(sender, msg) ==
    CASE msg.variant = "delegate" ->
            WithCoin(msg, LAMBDA c : Encoded("MsgDelegate",
                [DelegatorAddress |-> sender, ValidatorAddress |-> msg.to[1],
                 Amount |-> c]))
      [] msg.variant = "redelegate" ->
            WithCoin(msg, LAMBDA c : Encoded("MsgBeginRedelegate",
                [DelegatorAddress |-> sender, ValidatorSrcAddress |-> msg.to[1],
                 ValidatorDstAddress |-> msg.to[2], Amount |-> c]))
      [] msg.variant = "undelegate" ->
            WithCoin(msg, LAMBDA c : Encoded("MsgUndelegate",
                [DelegatorAddress |-> sender, ValidatorAddress |-> msg.to[1],
                 Amount |-> c]))
      [] OTHER -> UnknownMsg

(* UnpackAny decodes the types that are registered as messages. *)
EncodeAnyMsg(sender, msg) ==
    LET r == Decode(msg.variant, msg.value)
    IN  IF msg.variant \in SenderSigned \cup AuthoritySigned /\ r.ok
          THEN Encoded(msg.variant, r.m) ELSE Invalid

EncodeWasmMsg(sender, msg) ==
    CASE msg.variant = "execute" ->
            WithCoins(msg, LAMBDA c : Encoded("MsgExecuteContract",
                [Sender |-> sender, Contract |-> msg.to[1], Msg |-> Json,
                 Funds |-> c[1]]))
      [] msg.variant = "instantiate" ->
            WithCoins(msg, LAMBDA c : Encoded("MsgInstantiateContract",
                [Sender |-> sender, CodeID |-> 1, Label |-> <<76>>,
                 Msg |-> Json, Admin |-> msg.to[1], Funds |-> c[1]]))
      [] msg.variant = "instantiate2" ->
            WithCoins(msg, LAMBDA c : Encoded("MsgInstantiateContract2",
                [Sender |-> sender, Admin |-> msg.to[1], CodeID |-> 1,
                 Label |-> <<76>>, Msg |-> Json, Funds |-> c[1],
                 Salt |-> <<1>>, FixMsg |-> FALSE]))
      [] msg.variant = "migrate" ->
            Encoded("MsgMigrateContract",
                [Sender |-> sender, Contract |-> msg.to[1], CodeID |-> 1,
                 Msg |-> Json])
      [] msg.variant = "clear_admin" ->
            Encoded("MsgClearAdmin",
                [Sender |-> sender, Contract |-> msg.to[1]])
      [] msg.variant = "update_admin" ->
            Encoded("MsgUpdateAdmin",
                [Sender |-> sender, Contract |-> msg.to[1],
                 NewAdmin |-> msg.to[2]])
      [] OTHER -> UnknownMsg

(* The three fees of a packet are for receiving, acknowledging, timing out. *)
ConvertIBCFee(c) == [RecvFee |-> c[1], AckFee |-> c[2], TimeoutFee |-> c[3]]

(* The port of the contract, and that of the transfer module. *)
PortIDForContract(addr) == <<119>> \o addr
TransferPort == <<116>>

EncodeIBCMsg(sender, msg) ==
    CASE msg.variant = "close_channel" ->
            Encoded("MsgChannelCloseInit",
                [PortId |-> PortIDForContract(sender), ChannelId |-> msg.to[1],
                 Signer |-> sender])
      [] msg.variant = "transfer" ->
            WithCoin(msg, LAMBDA c : Encoded("MsgTransfer",
                [SourcePort |-> TransferPort, SourceChannel |-> msg.to[1],
                 Token |-> c, Sender |-> sender, Receiver |-> msg.to[2]]))
      [] msg.variant = "pay_packet_fee" ->
            WithCoins(msg, LAMBDA c : Encoded("MsgPayPacketFee",
                [Fee |-> ConvertIBCFee(c), SourcePortId |-> msg.to[1],
                 SourceChannelId |-> msg.to[2], Signer |-> sender]))
      [] msg.variant = "pay_packet_fee_async" ->
            WithCoins(msg, LAMBDA c : Encoded("MsgPayPacketFeeAsync",
                [PortId |-> msg.to[1], ChannelId |-> msg.to[2],
                 Fee |-> ConvertIBCFee(c), RefundAddress |-> sender]))
      [] OTHER -> UnknownMsg

(* A vote is a record with an option, a number of wasmvm, and a weight. *)
VoteOption == <<"yes", "no", "abstain", "no_with_veto">>
v1VoteOption == <<"yes", "abstain", "no", "no_with_veto">>

convertVoteOption(option) ==
    CASE option = 1 -> 1 [] option = 2 -> 3 [] option = 4 -> 4
      [] option = 3 -> 2 [] OTHER -> 0

Weighted(votes) ==
    [i \in DOMAIN votes |->
        [votes[i] EXCEPT !.option = convertVoteOption(@)]]

EncodeGovMsg(sender, msg) ==
    CASE msg.variant = "vote" ->
            IF convertVoteOption(msg.to[1].option) # 0
              THEN Encoded("MsgVote", [Voter |-> sender,
                                       Options |-> Weighted(msg.to)])
              ELSE Invalid
      [] msg.variant = "vote_weighted" ->
            IF \A i \in DOMAIN msg.to :
                  /\ IsInt(msg.to[i].weight)
                  /\ convertVoteOption(msg.to[i].option) # 0
              THEN Encoded("MsgVoteWeighted", [Voter |-> sender,
                                               Options |-> Weighted(msg.to)])
              ELSE Invalid
      [] OTHER -> UnknownMsg

EncodeVariant(sender, msg) ==
    CASE msg.kind = "bank" -> EncodeBankMsg(sender, msg)
      [] msg.kind = "custom" -> NoCustomMsg(sender, msg)
      [] msg.kind = "distribution" -> EncodeDistributionMsg(sender, msg)
      [] msg.kind = "ibc" -> EncodeIBCMsg(sender, msg)
      [] msg.kind = "staking" -> EncodeStakingMsg(sender, msg)
      [] msg.kind = "any" -> EncodeAnyMsg(sender, msg)
      [] msg.kind = "wasm" -> EncodeWasmMsg(sender, msg)
      [] msg.kind = "gov" -> EncodeGovMsg(sender, msg)

Encode(sender, variants) ==
    IF variants = << >> THEN UnknownMsg ELSE EncodeVariant(sender, Head(variants))

------------------------------------------------------------------------------
(* What the modules make of a message: the act, in whose name, about what, and *)
(* the amounts that are moved.                                                 *)

Account(text) == IF AccAddressFromBech32(text)
                   THEN CHOOSE a \in {Me, Other} : EqualFold(a, text)
                   ELSE << >>

Amounts(coins) ==
    {<<d, AmountOf(coins, d)>> : d \in {e \in ValidDenom : AmountOf(coins, e) > 0}}

Votes(votes, names) ==
    [i \in DOMAIN votes |-> <<names[votes[i].option], votes[i].weight>>]

Act(act, who, to, coins) ==
    [act |-> act, who |-> Account(who), to |-> to,
     coins |-> [i \in DOMAIN coins |-> Amounts(coins[i])]]

Meaning(t, m) ==
    CASE t = "MsgSend" ->
            Act("send", m.FromAddress, <<m.ToAddress>>, <<m.Amount>>)
      [] t = "MsgSetWithdrawAddress" ->
            Act("set_withdraw_address", m.DelegatorAddress,
                <<m.WithdrawAddress>>, << >>)
      [] t = "MsgWithdrawDelegatorReward" ->
            Act("withdraw_delegator_reward", m.DelegatorAddress,
                <<m.ValidatorAddress>>, << >>)
      [] t = "MsgFundCommunityPool" ->
            Act("fund_community_pool", m.Depositor, << >>, <<m.Amount>>)
      [] t = "MsgDelegate" ->
            Act("delegate", m.DelegatorAddress, <<m.ValidatorAddress>>,
                << <<m.Amount>> >>)
      [] t = "MsgBeginRedelegate" ->
            Act("redelegate", m.DelegatorAddress,
                <<m.ValidatorSrcAddress, m.ValidatorDstAddress>>,
                << <<m.Amount>> >>)
      [] t = "MsgUndelegate" ->
            Act("undelegate", m.DelegatorAddress, <<m.ValidatorAddress>>,
                << <<m.Amount>> >>)
      [] t = "MsgExecuteContract" ->
            Act("execute", m.Sender, <<m.Contract>>, <<m.Funds>>)
      [] t = "MsgInstantiateContract" ->
            Act("instantiate", m.Sender, <<m.Admin>>, <<m.Funds>>)
      [] t = "MsgInstantiateContract2" ->
            Act("instantiate2", m.Sender, <<m.Admin>>, <<m.Funds>>)
      [] t = "MsgMigrateContract" ->
            Act("migrate", m.Sender, <<m.Contract>>, << >>)
      [] t = "MsgClearAdmin" ->
            Act("clear_admin", m.Sender, <<m.Contract>>, << >>)
      [] t = "MsgUpdateAdmin" ->
            Act("update_admin", m.Sender, <<m.Contract, m.NewAdmin>>, << >>)
      [] t = "MsgChannelCloseInit" ->
            Act("close_channel", m.Signer, <<m.ChannelId>>, << >>)
      [] t = "MsgTransfer" ->
            Act("transfer", m.Sender, <<m.SourceChannel, m.Receiver>>,
                << <<m.Token>> >>)
      [] t = "MsgPayPacketFee" ->
            Act("pay_packet_fee", m.Signer, <<m.SourcePortId, m.SourceChannelId>>,
                <<m.Fee.RecvFee, m.Fee.AckFee, m.Fee.TimeoutFee>>)
      [] t = "MsgPayPacketFeeAsync" ->
            Act("pay_packet_fee_async", m.RefundAddress, <<m.PortId, m.ChannelId>>,
                <<m.Fee.RecvFee, m.Fee.AckFee, m.Fee.TimeoutFee>>)
      [] t = "MsgVote" ->
            Act("vote", m.Voter, Votes(m.Options, v1VoteOption), << >>)
      [] t = "MsgVoteWeighted" ->
            Act("vote_weighted", m.Voter, Votes(m.Options, v1VoteOption), << >>)
      [] t \in AuthoritySigned -> [act |-> t, who |-> Account(m.Authority), m |-> m]
      [] OTHER -> [act |-> t, who |-> Account(m.Sender), m |-> m]

GetMsgV1Signers(t, m) == <<Meaning(t, m).who>>

(* The contract holds the capability of one of the channels. *)
Channel == <<99>>
GetCapability(port, channel) == channel = Channel

------------------------------------------------------------------------------
(* The chain of handlers *)

Finish(res) ==
    /\ outcome' = res
    /\ stage' = "finished"
    /\ todo' = << >>

(* The dispatcher drops the writes of a message that fails. *)
Fail(byModule) ==
    /\ Finish("error")
    /\ done' = << >>
    /\ failed' = (failed \/ byModule)

HandleEncoded(r) ==
    CASE r.res = "error" -> Fail(FALSE)
      [] r.res = "unknown" ->
            stage' = "packet" /\ UNCHANGED <<todo, done, failed, outcome>>
      [] r.res = "ok" ->
            /\ stage' = "route"
            /\ todo' = r.msgs
            /\ UNCHANGED <<done, failed, outcome>>

EncodeMsg ==
    /\ stage = "encode"
    /\ HandleEncoded(Encode(Me, asked))
    /\ UNCHANGED asked

Refused(msg) ==
    \/ ~ValidateBasic(msg.type, msg.m)
    \/ \E i \in DOMAIN GetMsgV1Signers(msg.type, msg.m) :
           GetMsgV1Signers(msg.type, msg.m)[i] # Me

Perform(msg) ==
    /\ done' = Append(done, Meaning(msg.type, msg.m))
    /\ todo' = Tail(todo)
    /\ UNCHANGED <<stage, failed, outcome>>

(* Some of what the message does is done, and then a module fails. *)
PerformPartly(msg) ==
    /\ done' = Append(done, [Meaning(msg.type, msg.m) EXCEPT !.act = "partly"])
    /\ failed' = TRUE
    /\ UNCHANGED outcome

handleSdkMessage_Skips(msg, res) ==
    CASE Refused(msg) -> Fail(FALSE)
      [] ~Refused(msg) /\ res = "ok" -> Perform(msg)
      [] ~Refused(msg) /\ res = "error" -> Fail(TRUE)
      [] ~Refused(msg) /\ res = "unknown" ->
            PerformPartly(msg) /\ todo' = Tail(todo) /\ UNCHANGED stage

(* Each encoded message in turn. What the router answers is res; "unknown" is *)
(* the error of a contract that was called and sent an unknown message, after *)
(* which the chain goes on with what was done so far.                         *)
handleSdkMessage(msg, res) ==
    CASE Refused(msg) -> Fail(FALSE)
      [] ~Refused(msg) /\ res = "ok" -> Perform(msg)
      [] ~Refused(msg) /\ res = "error" -> Fail(TRUE)
      [] ~Refused(msg) /\ res = "unknown" ->
            PerformPartly(msg) /\ todo' = << >> /\ stage' = "packet"

SDKMessageHandler(res) ==
    /\ stage = "route"
    /\ IF todo = << >> THEN Finish("ok") /\ UNCHANGED <<done, failed>>
                       ELSE handleSdkMessage(Head(todo), res)
    /\ UNCHANGED asked

(* The variants a handler of the chain knows: it takes the first one. *)
Variants(kind, names) ==
    SelectSeq(asked, LAMBDA v : v.kind = kind /\ v.variant \in names)

FinishWith(act) ==
    /\ done' = Append(done, act)
    /\ Finish("ok")
    /\ UNCHANGED failed

HandlePacket(msg, res) ==
    IF msg.port = << >> \/ msg.to[1] = << >> \/ ~GetCapability(msg.port, msg.to[1])
      THEN Fail(FALSE)
      ELSE IF res = "ok" THEN FinishWith(Act(msg.variant, Me, msg.to, << >>))
                         ELSE Fail(TRUE)

IBCRawPacketHandler(res) ==
    /\ stage = "packet"
    /\ LET known == Variants("ibc", {"send_packet", "write_acknowledgement"})
       IN  IF known = << >>
             THEN stage' = "burn" /\ UNCHANGED <<todo, done, failed, outcome>>
             ELSE HandlePacket(Head(known), res)
    /\ UNCHANGED asked

Burn(coins, res) ==
    IF ~coins.ok \/ coins.coins = << >> THEN Fail(FALSE)
    ELSE IF res = "ok" THEN FinishWith(Act("burn", Me, << >>, <<coins.coins>>))
                       ELSE Fail(TRUE)

BurnCoinMessageHandler(res) ==
    /\ stage = "burn"
    /\ LET known == Variants("bank", {"burn"})
       IN  IF known = << >>
             THEN Fail(FALSE)
             ELSE Burn(ConvertWasmCoinsToSdkCoins(Head(known).coins[1]), res)
    /\ UNCHANGED asked

------------------------------------------------------------------------------
(* What contracts ask for. Each variant says whether its values are fit.     *)

NoAddress == <<63>>
CoinA == <<97>>
CoinB == <<98>>
One == <<49>>
Two == <<50>>

FitCoins == {<< >>, <<Coin(CoinA, One)>>, <<Coin(CoinB, Two), Coin(CoinA, One)>>,
             <<Coin(CoinA, One), Coin(CoinB, One), Coin(CoinA, Two)>>}
NoCoins == {<<Coin(CoinA, <<48>>)>>}
UnfitCoins == {<<Coin(CoinA, <<45, 49>>)>>, <<Coin(CoinA, <<120>>)>>,
               <<Coin(CoinA, One), Coin(<<33>>, One)>>}

(* Amounts of a message: the fit and the unfit ones. *)
NoAmount == [fit |-> {<< >>}, unfit |-> {}]
Amount == [fit |-> {<<c>> : c \in FitCoins \cup NoCoins},
           unfit |-> {<<c>> : c \in UnfitCoins}]
OneCoin == [fit |-> {<< <<Coin(CoinA, One)>> >>} \cup {<<c>> : c \in NoCoins},
            unfit |-> {<< <<Coin(CoinA, <<45, 49>>)>> >>, << <<Coin(<<33>>, One)>> >>}]
Burnt == [fit |-> {<<c>> : c \in FitCoins \ {<< >>}},
          unfit |-> {<<c>> : c \in UnfitCoins \cup NoCoins \cup {<< >>}}]
Fees == [fit |-> {<< <<Coin(CoinA, One)>>, <<Coin(CoinA, Two)>>, << >> >>},
         unfit |-> {<< <<Coin(CoinA, One)>>, << >>, c>> : c \in UnfitCoins}]

Asked(kind, variant, fitTo, unfitTo, coins) ==
    {[kind |-> kind, variant |-> variant, to |-> to, coins |-> c,
      port |-> PortIDForContract(Me), fit |-> to \in fitTo /\ c \in coins.fit] :
        to \in fitTo \cup unfitTo, c \in coins.fit \cup coins.unfit}

Vote(option, weight) == [option |-> option, weight |-> weight]
Addressed == {<<Other>>, <<ToUpper(Other)>>}
Validators == {<< <<118>> >>}
Packets == Asked("ibc", "send_packet", {<<Channel>>}, {<< << >> >>, << <<100>> >>}, NoAmount)
             \cup Asked("ibc", "write_acknowledgement", {<<Channel>>},
                        {<< << >> >>, << <<100>> >>}, NoAmount)

Requests ==
    UNION {
      Asked("bank", "send", Addressed, {}, Amount),
      Asked("bank", "burn", {<< >>}, {}, Burnt),
      Asked("distribution", "set_withdraw_address", Addressed, {}, NoAmount),
      Asked("distribution", "withdraw_delegator_reward", Validators, {}, NoAmount),
      Asked("distribution", "fund_community_pool", {<< >>}, {}, Amount),
      Asked("staking", "delegate", Validators, {}, OneCoin),
      Asked("staking", "undelegate", Validators, {}, OneCoin),
      Asked("staking", "redelegate", {<< <<118>>, <<119>> >>}, {}, OneCoin),
      Asked("wasm", "execute", Addressed, {<<NoAddress>>}, Amount),
      Asked("wasm", "instantiate", Addressed \cup {<< << >> >>}, {<<NoAddress>>},
            Amount),
      Asked("wasm", "instantiate2", Addressed, {<<NoAddress>>}, Amount),
      Asked("wasm", "migrate", Addressed, {<<NoAddress>>}, NoAmount),
      Asked("wasm", "clear_admin", Addressed, {<<NoAddress>>}, NoAmount),
      Asked("wasm", "update_admin", {<<Other, Other>>},
            {<<Other, ToUpper(Me)>>, <<NoAddress, Other>>, <<Other, NoAddress>>},
            NoAmount),
      Asked("ibc", "close_channel", {<<Channel>>}, {}, NoAmount),
      Asked("ibc", "transfer", {<<Channel, Other>>}, {}, OneCoin),
      Asked("ibc", "pay_packet_fee", {<<TransferPort, Channel>>}, {}, Fees),
      Asked("ibc", "pay_packet_fee_async", {<<TransferPort, Channel>>}, {}, Fees),
      Packets,
      {[p EXCEPT !.port = << >>, !.fit = FALSE] : p \in Packets},
      Asked("gov", "vote", {<<Vote(n, One)>> : n \in 1..4}, {<<Vote(0, One)>>}, NoAmount),
      Asked("gov", "vote_weighted", {<<Vote(2, One), Vote(3, Two)>>},
            {<<Vote(2, One), Vote(0, One)>>, <<Vote(1, One), Vote(3, <<120>>)>>},
            NoAmount),
      UNION {Asked(kind, "other", {}, {<<Other>>}, NoAmount) :
                kind \in {"bank", "custom", "distribution", "staking", "wasm",
                         "ibc", "gov"}}}

(* The values of the fields of the module's own messages, which a contract may *)
(* also send as bytes: those that are fit, the usual one first, and others.    *)
Access(permission, addresses) ==
    [Permission |-> permission, Addresses |-> addresses]
ParamsOf(access, permission) ==
    [CodeUploadAccess |-> access, InstantiateDefaultPermission |-> permission]
FitLists == << <<Other>>, <<ToUpper(Other), Me>> >>
UnfitLists == {<< >>, <<NoAddress>>, <<Me, ToUpper(Me)>>, <<Me, Other, Me>>}
FitAccess == <<Access(3, << >>), Access(1, << >>), Access(4, FitLists[2])>>
UnfitAccess == {Access(0, << >>), Access(2, << >>)}
                 \cup {Access(4, as) : as \in UnfitLists}
FitFunds == << << >>, <<Coin(CoinA, One)>>, <<Coin(CoinA, One), Coin(CoinB, Two)>> >>
UnfitFunds == {<<Coin(CoinB, One), Coin(CoinA, One)>>, <<Coin(CoinA, <<48>>)>>,
               <<Coin(CoinA, One), Coin(CoinA, One)>>, <<Coin(<<33>>, One)>>}
FitText == <<76>>
UnfitTexts == {<< >>, <<76, 76, 76>>, <<Space, 76>>, <<76, Space>>, <<1>>}

FitValues(field) ==
    CASE field \in {"Sender", "Authority"} -> <<Me, ToUpper(Me)>>
      [] field \in {"Contract", "NewAdmin"} -> <<Other, ToUpper(Other)>>
      [] field = "Admin" -> << << >>, Other>>
      [] field = "CodeID" -> <<1>>
      [] field \in {"Label", "NewLabel"} -> <<FitText>>
      [] field = "Msg" -> <<Json>>
      [] field = "Funds" -> FitFunds
      [] field = "InstantiatePermission" ->
            << << >> >> \o [i \in DOMAIN FitAccess |-> <<FitAccess[i]>>]
      [] field = "NewInstantiatePermission" ->
            [i \in DOMAIN FitAccess |-> <<FitAccess[i]>>]
      [] field = "Params" ->
            [i \in DOMAIN FitAccess |-> ParamsOf(FitAccess[i], 4)]
      [] field = "CodeIDs" -> << <<1>>, <<2, 1>> >>
      [] field = "Addresses" -> FitLists
      [] field \in {"WASMByteCode", "Salt"} -> << <<1>>, <<1, 1>> >>
      [] field \in {"FixMsg", "UnpinCode"} -> <<FALSE, TRUE>>
      [] field \in {"Source", "Builder", "CodeHash"} -> << << >> >>

UnfitValues(field) ==
    CASE field \in {"Sender", "Authority"} -> {<< >>, NoAddress, Other}
      [] field = "NewAdmin" -> {<< >>, NoAddress, Me, ToUpper(Me)}
      [] field = "Contract" -> {<< >>, NoAddress}
      [] field = "Admin" -> {NoAddress}
      [] field = "CodeID" -> {0}
      [] field \in {"Label", "NewLabel"} -> UnfitTexts
      [] field = "Msg" -> {<< >>, <<123>>}
      [] field = "Funds" -> UnfitFunds
      [] field = "InstantiatePermission" -> {<<a>> : a \in UnfitAccess}
      [] field = "NewInstantiatePermission" ->
            {<< >>} \cup {<<a>> : a \in UnfitAccess}
      [] field = "Params" -> {ParamsOf(a, 3) : a \in UnfitAccess}
                               \cup {ParamsOf(FitAccess[1], n) : n \in {0, 2, 5}}
      [] field = "CodeIDs" -> {<< >>, <<1, 1>>, <<1, 2, 3>>}
      [] field = "Addresses" -> UnfitLists
      [] field \in {"WASMByteCode", "Salt"} -> {<< >>, <<1, 1, 1>>}
      [] field \in {"FixMsg", "UnpinCode"} -> {}
      [] field \in {"Source", "Builder", "CodeHash"} -> {<<47>>}

(* Messages with at most one unusual value. *)
Meant(t) ==
    LET fields == DOMAIN Zero(t)
        usual == [f \in fields |-> FitValues(f)[1]]
        verified == [f \in fields |->
                        CASE f = "Source" -> Source [] f = "Builder" -> Builder
                          [] f = "CodeHash" -> One [] OTHER -> usual[f]]
        Of(m, fit) == [t |-> t, m |-> m, fit |-> fit]
    IN  UNION {{Of([usual EXCEPT ![f] = v], TRUE) : v \in ToSet(FitValues(f))}
                 \cup {Of([usual EXCEPT ![f] = v], FALSE) : v \in UnfitValues(f)} :
                f \in fields}
          \cup IF "Source" \in fields
                 THEN {Of(verified, TRUE)}
                        \cup {Of([verified EXCEPT ![f] = << >>], FALSE) :
                                f \in {"Source", "Builder", "CodeHash"}}
                 ELSE {}

AnyRequests ==
    {[kind |-> "any", variant |-> a.t, to |-> << >>, coins |-> << >>,
      port |-> << >>, fit |-> a.fit, m |-> a.m, value |-> Marshal(a.t, a.m)] :
        a \in UNION {Meant(t) : t \in SenderSigned \cup AuthoritySigned}}
      \cup {[kind |-> "any", variant |-> "MsgStoreCodeResponse", to |-> << >>,
             coins |-> << >>, port |-> << >>, fit |-> FALSE, value |-> << >>]}

(* Messages with two variants: of different kinds, or both of one. *)
Usual(kind, variant) ==
    CHOOSE p \in Requests : p.kind = kind /\ p.variant = variant /\ p.fit
Sending == Usual("ibc", "send_packet")
Burning == Usual("bank", "burn")
Foreign(kind) == CHOOSE p \in Requests : p.kind = kind /\ p.variant = "other"
Mixed ==
    {<<Burning, p>> : p \in Packets}
      \cup {<<p, Sending>> : p \in {Usual("bank", "send"), Foreign("bank"),
                                    Foreign("custom"), Foreign("distribution"),
                                    Usual("distribution", "fund_community_pool"),
                                    Usual("ibc", "close_channel")}}
      \cup {<<Sending, p>> : p \in {Usual("ibc", "write_acknowledgement"),
                                    Usual("staking", "delegate"),
                                    Usual("wasm", "execute")}}
      \cup {<<Usual("bank", "send"), Burning>>, <<Burning, Usual("gov", "vote")>>,
            <<Usual("wasm", "execute"), Usual("gov", "vote")>>}

Ask ==
    /\ stage = "idle"
    /\ asked' \in {<<p>> : p \in Requests \cup AnyRequests} \cup Mixed \cup {<< >>}
    /\ stage' = "encode"
    /\ UNCHANGED <<todo, done, failed, outcome>>

MessagesNext ==
    \/ Ask
    \/ EncodeMsg
    \/ \E res \in {"ok", "error", "unknown"} : SDKMessageHandler(res)
    \/ \E res \in {"ok", "error"} : IBCRawPacketHandler(res)
    \/ \E res \in {"ok", "error"} : BurnCoinMessageHandler(res)

------------------------------------------------------------------------------
(* Properties *)

(* What a message of a contract is to do, in terms of the message itself. *)
Wanted(msg) ==
    CASE msg.kind = "any" -> <<Meaning(msg.variant, msg.m)>>
      [] msg.kind = "gov" ->
            <<Act(msg.variant, Me, Votes(msg.to, VoteOption), << >>)>>
      [] msg.kind = "bank" /\ msg.coins = << << >> >> -> << >>
      [] OTHER -> <<Act(msg.variant, Me, msg.to, msg.coins)>>

(* A message of a contract takes effect if and only if its values are fit and *)
(* no module returns an error; then exactly what it asks for was done, in the *)
(* name of the contract and with the sums of the coins it lists, and nothing  *)
(* is left of a handler that gave up on the way. Otherwise nothing was done.  *)
(* Of a message with several variants exactly one is done, unless a module    *)
(* failed on the first one with the error of an unknown message: what it did  *)
(* then stays, and another variant is done after it. That covers the chain of *)
(* handlers, the encoders, ValidateBasic and the check of the signers.        *)
DoneAsAsked ==
    /\ outcome = "ok" =>
          \E i \in DOMAIN asked :
             /\ asked[i].fit
             /\ IF failed THEN i > 1 /\ Tail(done) = Wanted(asked[i])
                          ELSE done = Wanted(asked[i])
    /\ outcome = "ok" => \A i \in DOMAIN done : done[i].who = Me
    /\ outcome = "error" =>
          /\ done = << >>
          /\ failed \/ asked = << >> \/ \E i \in DOMAIN asked : ~asked[i].fit
==============================================================================
