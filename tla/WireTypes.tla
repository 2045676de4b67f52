------------------------------ MODULE WireTypes ------------------------------
(*
 * The messages kept in the store of x/wasm, in grants, in genesis files and in
 * the responses to IBC messages (types.pb.go, authz.pb.go, genesis.pb.go,
 * ibc.pb.go).
 * Three definitions per message give the fields as its three generated
 * functions treat them, in the order of the code: n is the tag byte that is
 * written, the bytes counted for the tag, and the field number that is recognised.
 *)
EXTENDS WireForms

AccessTypeParam_MarshalToSizedBuffer == <<varint("Value", 8)>>
AccessTypeParam_Size == <<varint("Value", 1)>>
AccessTypeParam_Unmarshal == <<varint("Value", 1)>>

AccessConfig_MarshalToSizedBuffer ==
    <<list("Addresses", 26), varint("Permission", 8)>>
AccessConfig_Size == <<varint("Permission", 1), list("Addresses", 1)>>
AccessConfig_Unmarshal == <<varint("Permission", 1), list("Addresses", 3)>>

Params_MarshalToSizedBuffer ==
    <<varint("InstantiateDefaultPermission", 16),
      value("CodeUploadAccess", "AccessConfig", 10)>>
Params_Size ==
    <<value("CodeUploadAccess", "AccessConfig", 1),
      varint("InstantiateDefaultPermission", 1)>>
Params_Unmarshal ==
    <<value("CodeUploadAccess", "AccessConfig", 1),
      varint("InstantiateDefaultPermission", 2)>>

CodeInfo_MarshalToSizedBuffer ==
    <<value("InstantiateConfig", "AccessConfig", 42), bytes("Creator", 18),
      bytes("CodeHash", 10)>>
CodeInfo_Size ==
    <<bytes("CodeHash", 1), bytes("Creator", 1),
      value("InstantiateConfig", "AccessConfig", 1)>>
CodeInfo_Unmarshal ==
    <<bytes("CodeHash", 1), bytes("Creator", 2),
      value("InstantiateConfig", "AccessConfig", 5)>>

ContractInfo_MarshalToSizedBuffer ==
    <<pointer("Extension", "Any", 58), bytes("IBCPortID", 50),
      pointer("Created", "AbsoluteTxPosition", 42), bytes("Label", 34),
      bytes("Admin", 26), bytes("Creator", 18), varint("CodeID", 8)>>
ContractInfo_Size ==
    <<varint("CodeID", 1), bytes("Creator", 1), bytes("Admin", 1),
      bytes("Label", 1), pointer("Created", "AbsoluteTxPosition", 1),
      bytes("IBCPortID", 1), pointer("Extension", "Any", 1)>>
ContractInfo_Unmarshal ==
    <<varint("CodeID", 1), bytes("Creator", 2), bytes("Admin", 3),
      bytes("Label", 4), pointer("Created", "AbsoluteTxPosition", 5),
      bytes("IBCPortID", 6), pointer("Extension", "Any", 7)>>

ContractCodeHistoryEntry_MarshalToSizedBuffer ==
    <<bytes("Msg", 34), pointer("Updated", "AbsoluteTxPosition", 26),
      varint("CodeID", 16), varint("Operation", 8)>>
ContractCodeHistoryEntry_Size ==
    <<varint("Operation", 1), varint("CodeID", 1),
      pointer("Updated", "AbsoluteTxPosition", 1), bytes("Msg", 1)>>
ContractCodeHistoryEntry_Unmarshal ==
    <<varint("Operation", 1), varint("CodeID", 2),
      pointer("Updated", "AbsoluteTxPosition", 3), bytes("Msg", 4)>>

AbsoluteTxPosition_MarshalToSizedBuffer ==
    <<varint("TxIndex", 16), varint("BlockHeight", 8)>>
AbsoluteTxPosition_Size == <<varint("BlockHeight", 1), varint("TxIndex", 1)>>
AbsoluteTxPosition_Unmarshal ==
    <<varint("BlockHeight", 1), varint("TxIndex", 2)>>

Model_MarshalToSizedBuffer == <<bytes("Value", 18), bytes("Key", 10)>>
Model_Size == <<bytes("Key", 1), bytes("Value", 1)>>
Model_Unmarshal == <<bytes("Key", 1), bytes("Value", 2)>>

StoreCodeAuthorization_MarshalToSizedBuffer ==
    <<messages("Grants", "CodeGrant", 10)>>
StoreCodeAuthorization_Size == <<messages("Grants", "CodeGrant", 1)>>
StoreCodeAuthorization_Unmarshal == <<messages("Grants", "CodeGrant", 1)>>

ContractExecutionAuthorization_MarshalToSizedBuffer ==
    <<messages("Grants", "ContractGrant", 10)>>
ContractExecutionAuthorization_Size ==
    <<messages("Grants", "ContractGrant", 1)>>
ContractExecutionAuthorization_Unmarshal ==
    <<messages("Grants", "ContractGrant", 1)>>

ContractMigrationAuthorization_MarshalToSizedBuffer ==
    <<messages("Grants", "ContractGrant", 10)>>
ContractMigrationAuthorization_Size ==
    <<messages("Grants", "ContractGrant", 1)>>
ContractMigrationAuthorization_Unmarshal ==
    <<messages("Grants", "ContractGrant", 1)>>

CodeGrant_MarshalToSizedBuffer ==
    <<pointer("InstantiatePermission", "AccessConfig", 18),
      bytes("CodeHash", 10)>>
CodeGrant_Size ==
    <<bytes("CodeHash", 1),
      pointer("InstantiatePermission", "AccessConfig", 1)>>
CodeGrant_Unmarshal ==
    <<bytes("CodeHash", 1),
      pointer("InstantiatePermission", "AccessConfig", 2)>>

ContractGrant_MarshalToSizedBuffer ==
    <<pointer("Filter", "Any", 26), pointer("Limit", "Any", 18),
      bytes("Contract", 10)>>
ContractGrant_Size ==
    <<bytes("Contract", 1), pointer("Limit", "Any", 1),
      pointer("Filter", "Any", 1)>>
ContractGrant_Unmarshal ==
    <<bytes("Contract", 1), pointer("Limit", "Any", 2),
      pointer("Filter", "Any", 3)>>

MaxCallsLimit_MarshalToSizedBuffer == <<varint("Remaining", 8)>>
MaxCallsLimit_Size == <<varint("Remaining", 1)>>
MaxCallsLimit_Unmarshal == <<varint("Remaining", 1)>>

MaxFundsLimit_MarshalToSizedBuffer == <<messages("Amounts", "Coin", 10)>>
MaxFundsLimit_Size == <<messages("Amounts", "Coin", 1)>>
MaxFundsLimit_Unmarshal == <<messages("Amounts", "Coin", 1)>>

CombinedLimit_MarshalToSizedBuffer ==
    <<messages("Amounts", "Coin", 18), varint("CallsRemaining", 8)>>
CombinedLimit_Size ==
    <<varint("CallsRemaining", 1), messages("Amounts", "Coin", 1)>>
CombinedLimit_Unmarshal ==
    <<varint("CallsRemaining", 1), messages("Amounts", "Coin", 2)>>

AllowAllMessagesFilter_MarshalToSizedBuffer == <<>>
AllowAllMessagesFilter_Size == <<>>
AllowAllMessagesFilter_Unmarshal == <<>>

AcceptedMessageKeysFilter_MarshalToSizedBuffer == <<list("Keys", 10)>>
AcceptedMessageKeysFilter_Size == <<list("Keys", 1)>>
AcceptedMessageKeysFilter_Unmarshal == <<list("Keys", 1)>>

AcceptedMessagesFilter_MarshalToSizedBuffer == <<list("Messages", 10)>>
AcceptedMessagesFilter_Size == <<list("Messages", 1)>>
AcceptedMessagesFilter_Unmarshal == <<list("Messages", 1)>>

GenesisState_MarshalToSizedBuffer ==
    <<messages("Sequences", "Sequence", 34),
      messages("Contracts", "Contract", 26), messages("Codes", "Code", 18),
      value("Params", "Params", 10)>>
GenesisState_Size ==
    <<value("Params", "Params", 1), messages("Codes", "Code", 1),
      messages("Contracts", "Contract", 1),
      messages("Sequences", "Sequence", 1)>>
GenesisState_Unmarshal ==
    <<value("Params", "Params", 1), messages("Codes", "Code", 2),
      messages("Contracts", "Contract", 3),
      messages("Sequences", "Sequence", 4)>>

Code_MarshalToSizedBuffer ==
    <<bool("Pinned", 32), bytes("CodeBytes", 26),
      value("CodeInfo", "CodeInfo", 18), varint("CodeID", 8)>>
Code_Size ==
    <<varint("CodeID", 1), value("CodeInfo", "CodeInfo", 1),
      bytes("CodeBytes", 1), bool("Pinned", 2)>>
Code_Unmarshal ==
    <<varint("CodeID", 1), value("CodeInfo", "CodeInfo", 2),
      bytes("CodeBytes", 3), bool("Pinned", 4)>>

Contract_MarshalToSizedBuffer ==
    <<messages("ContractCodeHistory", "ContractCodeHistoryEntry", 34),
      messages("ContractState", "Model", 26),
      value("ContractInfo", "ContractInfo", 18), bytes("ContractAddress", 10)>>
Contract_Size ==
    <<bytes("ContractAddress", 1), value("ContractInfo", "ContractInfo", 1),
      messages("ContractState", "Model", 1),
      messages("ContractCodeHistory", "ContractCodeHistoryEntry", 1)>>
Contract_Unmarshal ==
    <<bytes("ContractAddress", 1), value("ContractInfo", "ContractInfo", 2),
      messages("ContractState", "Model", 3),
      messages("ContractCodeHistory", "ContractCodeHistoryEntry", 4)>>

Sequence_MarshalToSizedBuffer == <<varint("Value", 16), bytes("IDKey", 10)>>
Sequence_Size == <<bytes("IDKey", 1), varint("Value", 1)>>
Sequence_Unmarshal == <<bytes("IDKey", 1), varint("Value", 2)>>

MsgIBCSend_MarshalToSizedBuffer ==
    <<bytes("Data", 50), varint("TimeoutTimestamp", 40),
      varint("TimeoutHeight", 32), bytes("Channel", 18)>>
MsgIBCSend_Size ==
    <<bytes("Channel", 1), varint("TimeoutHeight", 1),
      varint("TimeoutTimestamp", 1), bytes("Data", 1)>>
MsgIBCSend_Unmarshal ==
    <<bytes("Channel", 2), varint("TimeoutHeight", 4),
      varint("TimeoutTimestamp", 5), bytes("Data", 6)>>

MsgIBCSendResponse_MarshalToSizedBuffer == <<varint("Sequence", 8)>>
MsgIBCSendResponse_Size == <<varint("Sequence", 1)>>
MsgIBCSendResponse_Unmarshal == <<varint("Sequence", 1)>>

MsgIBCWriteAcknowledgementResponse_MarshalToSizedBuffer == <<>>
MsgIBCWriteAcknowledgementResponse_Size == <<>>
MsgIBCWriteAcknowledgementResponse_Unmarshal == <<>>

MsgIBCCloseChannel_MarshalToSizedBuffer == <<bytes("Channel", 18)>>
MsgIBCCloseChannel_Size == <<bytes("Channel", 1)>>
MsgIBCCloseChannel_Unmarshal == <<bytes("Channel", 2)>>

(* The messages above by name. *)
WireTypesSchema ==
    [AccessTypeParam |->
        Schema(AccessTypeParam_MarshalToSizedBuffer, AccessTypeParam_Size,
               AccessTypeParam_Unmarshal),
     AccessConfig |->
        Schema(AccessConfig_MarshalToSizedBuffer, AccessConfig_Size,
               AccessConfig_Unmarshal),
     Params |->
        Schema(Params_MarshalToSizedBuffer, Params_Size, Params_Unmarshal),
     CodeInfo |->
        Schema(CodeInfo_MarshalToSizedBuffer, CodeInfo_Size,
               CodeInfo_Unmarshal),
     ContractInfo |->
        Schema(ContractInfo_MarshalToSizedBuffer, ContractInfo_Size,
               ContractInfo_Unmarshal),
     ContractCodeHistoryEntry |->
        Schema(ContractCodeHistoryEntry_MarshalToSizedBuffer,
               ContractCodeHistoryEntry_Size,
               ContractCodeHistoryEntry_Unmarshal),
     AbsoluteTxPosition |->
        Schema(AbsoluteTxPosition_MarshalToSizedBuffer,
               AbsoluteTxPosition_Size, AbsoluteTxPosition_Unmarshal),
     Model |->
        Schema(Model_MarshalToSizedBuffer, Model_Size, Model_Unmarshal),
     StoreCodeAuthorization |->
        Schema(StoreCodeAuthorization_MarshalToSizedBuffer,
               StoreCodeAuthorization_Size, StoreCodeAuthorization_Unmarshal),
     ContractExecutionAuthorization |->
        Schema(ContractExecutionAuthorization_MarshalToSizedBuffer,
               ContractExecutionAuthorization_Size,
               ContractExecutionAuthorization_Unmarshal),
     ContractMigrationAuthorization |->
        Schema(ContractMigrationAuthorization_MarshalToSizedBuffer,
               ContractMigrationAuthorization_Size,
               ContractMigrationAuthorization_Unmarshal),
     CodeGrant |->
        Schema(CodeGrant_MarshalToSizedBuffer, CodeGrant_Size,
               CodeGrant_Unmarshal),
     ContractGrant |->
        Schema(ContractGrant_MarshalToSizedBuffer, ContractGrant_Size,
               ContractGrant_Unmarshal),
     MaxCallsLimit |->
        Schema(MaxCallsLimit_MarshalToSizedBuffer, MaxCallsLimit_Size,
               MaxCallsLimit_Unmarshal),
     MaxFundsLimit |->
        Schema(MaxFundsLimit_MarshalToSizedBuffer, MaxFundsLimit_Size,
               MaxFundsLimit_Unmarshal),
     CombinedLimit |->
        Schema(CombinedLimit_MarshalToSizedBuffer, CombinedLimit_Size,
               CombinedLimit_Unmarshal),
     AllowAllMessagesFilter |->
        Schema(AllowAllMessagesFilter_MarshalToSizedBuffer,
               AllowAllMessagesFilter_Size, AllowAllMessagesFilter_Unmarshal),
     AcceptedMessageKeysFilter |->
        Schema(AcceptedMessageKeysFilter_MarshalToSizedBuffer,
               AcceptedMessageKeysFilter_Size,
               AcceptedMessageKeysFilter_Unmarshal),
     AcceptedMessagesFilter |->
        Schema(AcceptedMessagesFilter_MarshalToSizedBuffer,
               AcceptedMessagesFilter_Size, AcceptedMessagesFilter_Unmarshal),
     GenesisState |->
        Schema(GenesisState_MarshalToSizedBuffer, GenesisState_Size,
               GenesisState_Unmarshal),
     Code |->
        Schema(Code_MarshalToSizedBuffer, Code_Size, Code_Unmarshal),
     Contract |->
        Schema(Contract_MarshalToSizedBuffer, Contract_Size,
               Contract_Unmarshal),
     Sequence |->
        Schema(Sequence_MarshalToSizedBuffer, Sequence_Size,
               Sequence_Unmarshal),
     MsgIBCSend |->
        Schema(MsgIBCSend_MarshalToSizedBuffer, MsgIBCSend_Size,
               MsgIBCSend_Unmarshal),
     MsgIBCSendResponse |->
        Schema(MsgIBCSendResponse_MarshalToSizedBuffer,
               MsgIBCSendResponse_Size, MsgIBCSendResponse_Unmarshal),
     MsgIBCWriteAcknowledgementResponse |->
        Schema(MsgIBCWriteAcknowledgementResponse_MarshalToSizedBuffer,
               MsgIBCWriteAcknowledgementResponse_Size,
               MsgIBCWriteAcknowledgementResponse_Unmarshal),
     MsgIBCCloseChannel |->
        Schema(MsgIBCCloseChannel_MarshalToSizedBuffer,
               MsgIBCCloseChannel_Size, MsgIBCCloseChannel_Unmarshal)]
==============================================================================
