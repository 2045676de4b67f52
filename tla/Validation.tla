----------------------------- MODULE Validation ------------------------------
(*
 * The stateless checks of x/wasm (ValidateBasic) on its messages, which are
 * records of Wire.
 *
 * Sources: x/wasm/types/{tx,validation,params}.go. What is asked
 * of single texts is reduced to a few of them: addresses and their spelling in
 * upper case, texts with a space at an end or a character that is not printable,
 * JSON, URIs and references of images that can be parsed or not.
 *)
EXTENDS Wire

CONSTANTS MaxLabelSize, MaxSaltSize, MaxWasmSize, MaxAddressCount,
          maxCodeIDCount

(* Addresses in lower and in upper case; nothing else is an address. *)
Me == <<109>>
Other == <<111>>
ToUpper(text) == [i \in DOMAIN text |-> IF text[i] > 96 THEN text[i] - 32
                                                        ELSE text[i]]
AccAddressFromBech32(text) ==
    \E a \in {Me, Other} : text \in {a, ToUpper(a)}
EqualFold(a, b) == ToUpper(a) = ToUpper(b)

Space == 32
Trimmed(text) == text # << >> => Space \notin {Head(text), Last(text)}
Printable(text) == \A i \in DOMAIN text : text[i] >= Space

Json == <<123, 125>>
Source == <<47>>
Builder == <<98>>

RawContractMessage_ValidateBasic(r) == r = Json

------------------------------------------------------------------------------
(* Parts of messages *)

validateWasmCode(s, maxSize) == s # << >> /\ Len(s) <= maxSize

ValidateLabel(label) ==
    /\ label # << >>
    /\ Len(label) <= MaxLabelSize
    /\ Trimmed(label)
    /\ Printable(label)

ValidateSalt(salt) == salt # << >> /\ Len(salt) <= MaxSaltSize

ValidateVerificationInfo(source, builder, codeHash) ==
    source # << >> \/ builder # << >> \/ codeHash # << >> =>
        source = Source /\ builder = Builder /\ codeHash # << >>

hasDuplicates(s) == \E i, j \in DOMAIN s : i # j /\ s[i] = s[j]

validateBech32Addresses(addresses) ==
    /\ addresses # << >>
    /\ Len(addresses) <= MaxAddressCount
    /\ \A i \in DOMAIN addresses : AccAddressFromBech32(addresses[i])
    /\ ~hasDuplicates([i \in DOMAIN addresses |-> ToUpper(addresses[i])])

validateCodeIDs(codeIDs) ==
    /\ codeIDs # << >>
    /\ Len(codeIDs) <= maxCodeIDCount
    /\ ~hasDuplicates(codeIDs)

validateAccessType(a) == a \in {1, 3, 4}

AccessConfig_ValidateBasic(a) ==
    \/ a.Permission \in {1, 3}
    \/ a.Permission = 4 /\ validateBech32Addresses(a.Addresses)

Params_ValidateBasic(p) ==
    /\ validateAccessType(p.InstantiateDefaultPermission)
    /\ AccessConfig_ValidateBasic(p.CodeUploadAccess)

Optional(Check(_), pointed) == pointed = << >> \/ Check(pointed[1])
OptionalAddress(text) == text = << >> \/ AccAddressFromBech32(text)

(* Validate of sdk.Coins: denominations in order, positive amounts. Amounts   *)
(* are texts of one digit here.                                               *)
ValidDenom == {<<97>>, <<98>>}
Coins_Validate(coins) ==
    /\ \A i \in DOMAIN coins :
          /\ coins[i].Denom \in ValidDenom
          /\ coins[i].Amount \in {<<n>> : n \in 49..57}
    /\ \A i \in DOMAIN coins : i > 1 => coins[i - 1].Denom[1] < coins[i].Denom[1]

------------------------------------------------------------------------------
(* Messages *)

MsgStoreCode_ValidateBasic(msg) ==
    /\ AccAddressFromBech32(msg.Sender)
    /\ validateWasmCode(msg.WASMByteCode, MaxWasmSize)
    /\ Optional(AccessConfig_ValidateBasic, msg.InstantiatePermission)

MsgInstantiateContract_ValidateBasic(msg) ==
    /\ AccAddressFromBech32(msg.Sender)
    /\ msg.CodeID # 0
    /\ ValidateLabel(msg.Label)
    /\ Coins_Validate(msg.Funds)
    /\ OptionalAddress(msg.Admin)
    /\ RawContractMessage_ValidateBasic(msg.Msg)

MsgInstantiateContract2_ValidateBasic(msg) ==
    /\ AccAddressFromBech32(msg.Sender)
    /\ msg.CodeID # 0
    /\ ValidateLabel(msg.Label)
    /\ Coins_Validate(msg.Funds)
    /\ OptionalAddress(msg.Admin)
    /\ RawContractMessage_ValidateBasic(msg.Msg)
    /\ ValidateSalt(msg.Salt)

MsgExecuteContract_ValidateBasic(msg) ==
    /\ AccAddressFromBech32(msg.Sender)
    /\ AccAddressFromBech32(msg.Contract)
    /\ Coins_Validate(msg.Funds)
    /\ RawContractMessage_ValidateBasic(msg.Msg)

MsgMigrateContract_ValidateBasic(msg) ==
    /\ msg.CodeID # 0
    /\ AccAddressFromBech32(msg.Sender)
    /\ AccAddressFromBech32(msg.Contract)
    /\ RawContractMessage_ValidateBasic(msg.Msg)

MsgUpdateAdmin_ValidateBasic(msg) ==
    /\ AccAddressFromBech32(msg.Sender)
    /\ AccAddressFromBech32(msg.Contract)
    /\ AccAddressFromBech32(msg.NewAdmin)
    /\ ~EqualFold(msg.Sender, msg.NewAdmin)

MsgClearAdmin_ValidateBasic(msg) ==
    /\ AccAddressFromBech32(msg.Sender)
    /\ AccAddressFromBech32(msg.Contract)

MsgUpdateInstantiateConfig_ValidateBasic(msg) ==
    /\ AccAddressFromBech32(msg.Sender)
    /\ msg.CodeID # 0
    /\ msg.NewInstantiatePermission # << >>
    /\ AccessConfig_ValidateBasic(msg.NewInstantiatePermission[1])

MsgUpdateParams_ValidateBasic(msg) ==
    /\ AccAddressFromBech32(msg.Authority)
    /\ Params_ValidateBasic(msg.Params)

MsgSudoContract_ValidateBasic(msg) ==
    /\ AccAddressFromBech32(msg.Authority)
    /\ AccAddressFromBech32(msg.Contract)
    /\ RawContractMessage_ValidateBasic(msg.Msg)

MsgPinCodes_ValidateBasic(msg) ==
    AccAddressFromBech32(msg.Authority) /\ validateCodeIDs(msg.CodeIDs)

MsgUnpinCodes_ValidateBasic(msg) ==
    AccAddressFromBech32(msg.Authority) /\ validateCodeIDs(msg.CodeIDs)

MsgStoreAndInstantiateContract_ValidateBasic(msg) ==
    /\ AccAddressFromBech32(msg.Authority)
    /\ ValidateLabel(msg.Label)
    /\ Coins_Validate(msg.Funds)
    /\ OptionalAddress(msg.Admin)
    /\ ValidateVerificationInfo(msg.Source, msg.Builder, msg.CodeHash)
    /\ RawContractMessage_ValidateBasic(msg.Msg)
    /\ validateWasmCode(msg.WASMByteCode, MaxWasmSize)
    /\ Optional(AccessConfig_ValidateBasic, msg.InstantiatePermission)

MsgAddCodeUploadParamsAddresses_ValidateBasic(msg) ==
    AccAddressFromBech32(msg.Authority) /\ validateBech32Addresses(msg.Addresses)

MsgRemoveCodeUploadParamsAddresses_ValidateBasic(msg) ==
    AccAddressFromBech32(msg.Authority) /\ validateBech32Addresses(msg.Addresses)

MsgStoreAndMigrateContract_ValidateBasic(msg) ==
    /\ AccAddressFromBech32(msg.Authority)
    /\ AccAddressFromBech32(msg.Contract)
    /\ RawContractMessage_ValidateBasic(msg.Msg)
    /\ validateWasmCode(msg.WASMByteCode, MaxWasmSize)
    /\ Optional(AccessConfig_ValidateBasic, msg.InstantiatePermission)

MsgUpdateContractLabel_ValidateBasic(msg) ==
    /\ AccAddressFromBech32(msg.Sender)
    /\ ValidateLabel(msg.NewLabel)
    /\ AccAddressFromBech32(msg.Contract)

ValidateBasic(t, msg) ==
    CASE t = "MsgStoreCode" -> MsgStoreCode_ValidateBasic(msg)
      [] t = "MsgInstantiateContract" ->
            MsgInstantiateContract_ValidateBasic(msg)
      [] t = "MsgInstantiateContract2" ->
            MsgInstantiateContract2_ValidateBasic(msg)
      [] t = "MsgExecuteContract" -> MsgExecuteContract_ValidateBasic(msg)
      [] t = "MsgMigrateContract" -> MsgMigrateContract_ValidateBasic(msg)
      [] t = "MsgUpdateAdmin" -> MsgUpdateAdmin_ValidateBasic(msg)
      [] t = "MsgClearAdmin" -> MsgClearAdmin_ValidateBasic(msg)
      [] t = "MsgUpdateInstantiateConfig" ->
            MsgUpdateInstantiateConfig_ValidateBasic(msg)
      [] t = "MsgUpdateParams" -> MsgUpdateParams_ValidateBasic(msg)
      [] t = "MsgSudoContract" -> MsgSudoContract_ValidateBasic(msg)
      [] t = "MsgPinCodes" -> MsgPinCodes_ValidateBasic(msg)
      [] t = "MsgUnpinCodes" -> MsgUnpinCodes_ValidateBasic(msg)
      [] t = "MsgStoreAndInstantiateContract" ->
            MsgStoreAndInstantiateContract_ValidateBasic(msg)
      [] t = "MsgAddCodeUploadParamsAddresses" ->
            MsgAddCodeUploadParamsAddresses_ValidateBasic(msg)
      [] t = "MsgRemoveCodeUploadParamsAddresses" ->
            MsgRemoveCodeUploadParamsAddresses_ValidateBasic(msg)
      [] t = "MsgStoreAndMigrateContract" ->
            MsgStoreAndMigrateContract_ValidateBasic(msg)
      [] t = "MsgUpdateContractLabel" ->
            MsgUpdateContractLabel_ValidateBasic(msg)
      [] OTHER -> TRUE

(* The account that has to sign a message, as its definition says. *)
SenderSigned ==
    {"MsgStoreCode", "MsgInstantiateContract", "MsgInstantiateContract2",
     "MsgExecuteContract", "MsgMigrateContract", "MsgUpdateAdmin",
     "MsgClearAdmin", "MsgUpdateInstantiateConfig", "MsgUpdateContractLabel"}
AuthoritySigned ==
    {"MsgUpdateParams", "MsgSudoContract", "MsgPinCodes", "MsgUnpinCodes",
     "MsgStoreAndInstantiateContract", "MsgAddCodeUploadParamsAddresses",
     "MsgRemoveCodeUploadParamsAddresses", "MsgStoreAndMigrateContract"}
==============================================================================
