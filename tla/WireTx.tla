-------------------------------- MODULE WireTx --------------------------------
(*
 * The messages of the Msg service and their responses (tx.pb.go).
 * Three definitions per message give the fields as its three generated
 * functions treat them, in the order of the code: n is the tag byte that is
 * written, the bytes counted for the tag, and the field number that is recognised.
 *)
EXTENDS WireForms

MsgStoreCode_MarshalToSizedBuffer ==
    <<pointer("InstantiatePermission", "AccessConfig", 42),
      bytes("WASMByteCode", 18), bytes("Sender", 10)>>
MsgStoreCode_Size ==
    <<bytes("Sender", 1), bytes("WASMByteCode", 1),
      pointer("InstantiatePermission", "AccessConfig", 1)>>
MsgStoreCode_Unmarshal ==
    <<bytes("Sender", 1), bytes("WASMByteCode", 2),
      pointer("InstantiatePermission", "AccessConfig", 5)>>

MsgStoreCodeResponse_MarshalToSizedBuffer ==
    <<bytes("Checksum", 18), varint("CodeID", 8)>>
MsgStoreCodeResponse_Size == <<varint("CodeID", 1), bytes("Checksum", 1)>>
MsgStoreCodeResponse_Unmarshal == <<varint("CodeID", 1), bytes("Checksum", 2)>>

MsgInstantiateContract_MarshalToSizedBuffer ==
    <<messages("Funds", "Coin", 50), bytes("Msg", 42), bytes("Label", 34),
      varint("CodeID", 24), bytes("Admin", 18), bytes("Sender", 10)>>
MsgInstantiateContract_Size ==
    <<bytes("Sender", 1), bytes("Admin", 1), varint("CodeID", 1),
      bytes("Label", 1), bytes("Msg", 1), messages("Funds", "Coin", 1)>>
MsgInstantiateContract_Unmarshal ==
    <<bytes("Sender", 1), bytes("Admin", 2), varint("CodeID", 3),
      bytes("Label", 4), bytes("Msg", 5), messages("Funds", "Coin", 6)>>

MsgInstantiateContractResponse_MarshalToSizedBuffer ==
    <<bytes("Data", 18), bytes("Address", 10)>>
MsgInstantiateContractResponse_Size ==
    <<bytes("Address", 1), bytes("Data", 1)>>
MsgInstantiateContractResponse_Unmarshal ==
    <<bytes("Address", 1), bytes("Data", 2)>>

MsgInstantiateContract2_MarshalToSizedBuffer ==
    <<bool("FixMsg", 64), bytes("Salt", 58), messages("Funds", "Coin", 50),
      bytes("Msg", 42), bytes("Label", 34), varint("CodeID", 24),
      bytes("Admin", 18), bytes("Sender", 10)>>
MsgInstantiateContract2_Size ==
    <<bytes("Sender", 1), bytes("Admin", 1), varint("CodeID", 1),
      bytes("Label", 1), bytes("Msg", 1), messages("Funds", "Coin", 1),
      bytes("Salt", 1), bool("FixMsg", 2)>>
MsgInstantiateContract2_Unmarshal ==
    <<bytes("Sender", 1), bytes("Admin", 2), varint("CodeID", 3),
      bytes("Label", 4), bytes("Msg", 5), messages("Funds", "Coin", 6),
      bytes("Salt", 7), bool("FixMsg", 8)>>

MsgInstantiateContract2Response_MarshalToSizedBuffer ==
    <<bytes("Data", 18), bytes("Address", 10)>>
MsgInstantiateContract2Response_Size ==
    <<bytes("Address", 1), bytes("Data", 1)>>
MsgInstantiateContract2Response_Unmarshal ==
    <<bytes("Address", 1), bytes("Data", 2)>>

MsgExecuteContract_MarshalToSizedBuffer ==
    <<messages("Funds", "Coin", 42), bytes("Msg", 26), bytes("Contract", 18),
      bytes("Sender", 10)>>
MsgExecuteContract_Size ==
    <<bytes("Sender", 1), bytes("Contract", 1), bytes("Msg", 1),
      messages("Funds", "Coin", 1)>>
MsgExecuteContract_Unmarshal ==
    <<bytes("Sender", 1), bytes("Contract", 2), bytes("Msg", 3),
      messages("Funds", "Coin", 5)>>

MsgExecuteContractResponse_MarshalToSizedBuffer == <<bytes("Data", 10)>>
MsgExecuteContractResponse_Size == <<bytes("Data", 1)>>
MsgExecuteContractResponse_Unmarshal == <<bytes("Data", 1)>>

MsgMigrateContract_MarshalToSizedBuffer ==
    <<bytes("Msg", 34), varint("CodeID", 24), bytes("Contract", 18),
      bytes("Sender", 10)>>
MsgMigrateContract_Size ==
    <<bytes("Sender", 1), bytes("Contract", 1), varint("CodeID", 1),
      bytes("Msg", 1)>>
MsgMigrateContract_Unmarshal ==
    <<bytes("Sender", 1), bytes("Contract", 2), varint("CodeID", 3),
      bytes("Msg", 4)>>

MsgMigrateContractResponse_MarshalToSizedBuffer == <<bytes("Data", 10)>>
MsgMigrateContractResponse_Size == <<bytes("Data", 1)>>
MsgMigrateContractResponse_Unmarshal == <<bytes("Data", 1)>>

MsgUpdateAdmin_MarshalToSizedBuffer ==
    <<bytes("Contract", 26), bytes("NewAdmin", 18), bytes("Sender", 10)>>
MsgUpdateAdmin_Size ==
    <<bytes("Sender", 1), bytes("NewAdmin", 1), bytes("Contract", 1)>>
MsgUpdateAdmin_Unmarshal ==
    <<bytes("Sender", 1), bytes("NewAdmin", 2), bytes("Contract", 3)>>

MsgUpdateAdminResponse_MarshalToSizedBuffer == <<>>
MsgUpdateAdminResponse_Size == <<>>
MsgUpdateAdminResponse_Unmarshal == <<>>

MsgClearAdmin_MarshalToSizedBuffer ==
    <<bytes("Contract", 26), bytes("Sender", 10)>>
MsgClearAdmin_Size == <<bytes("Sender", 1), bytes("Contract", 1)>>
MsgClearAdmin_Unmarshal == <<bytes("Sender", 1), bytes("Contract", 3)>>

MsgClearAdminResponse_MarshalToSizedBuffer == <<>>
MsgClearAdminResponse_Size == <<>>
MsgClearAdminResponse_Unmarshal == <<>>

MsgUpdateInstantiateConfig_MarshalToSizedBuffer ==
    <<pointer("NewInstantiatePermission", "AccessConfig", 26),
      varint("CodeID", 16), bytes("Sender", 10)>>
MsgUpdateInstantiateConfig_Size ==
    <<bytes("Sender", 1), varint("CodeID", 1),
      pointer("NewInstantiatePermission", "AccessConfig", 1)>>
MsgUpdateInstantiateConfig_Unmarshal ==
    <<bytes("Sender", 1), varint("CodeID", 2),
      pointer("NewInstantiatePermission", "AccessConfig", 3)>>

MsgUpdateInstantiateConfigResponse_MarshalToSizedBuffer == <<>>
MsgUpdateInstantiateConfigResponse_Size == <<>>
MsgUpdateInstantiateConfigResponse_Unmarshal == <<>>

MsgUpdateParams_MarshalToSizedBuffer ==
    <<value("Params", "Params", 18), bytes("Authority", 10)>>
MsgUpdateParams_Size == <<bytes("Authority", 1), value("Params", "Params", 1)>>
MsgUpdateParams_Unmarshal ==
    <<bytes("Authority", 1), value("Params", "Params", 2)>>

MsgUpdateParamsResponse_MarshalToSizedBuffer == <<>>
MsgUpdateParamsResponse_Size == <<>>
MsgUpdateParamsResponse_Unmarshal == <<>>

MsgSudoContract_MarshalToSizedBuffer ==
    <<bytes("Msg", 26), bytes("Contract", 18), bytes("Authority", 10)>>
MsgSudoContract_Size ==
    <<bytes("Authority", 1), bytes("Contract", 1), bytes("Msg", 1)>>
MsgSudoContract_Unmarshal ==
    <<bytes("Authority", 1), bytes("Contract", 2), bytes("Msg", 3)>>

MsgSudoContractResponse_MarshalToSizedBuffer == <<bytes("Data", 10)>>
MsgSudoContractResponse_Size == <<bytes("Data", 1)>>
MsgSudoContractResponse_Unmarshal == <<bytes("Data", 1)>>

MsgPinCodes_MarshalToSizedBuffer ==
    <<packed("CodeIDs", 18), bytes("Authority", 10)>>
MsgPinCodes_Size == <<bytes("Authority", 1), packed("CodeIDs", 1)>>
MsgPinCodes_Unmarshal == <<bytes("Authority", 1), packed("CodeIDs", 2)>>

MsgPinCodesResponse_MarshalToSizedBuffer == <<>>
MsgPinCodesResponse_Size == <<>>
MsgPinCodesResponse_Unmarshal == <<>>

MsgUnpinCodes_MarshalToSizedBuffer ==
    <<packed("CodeIDs", 18), bytes("Authority", 10)>>
MsgUnpinCodes_Size == <<bytes("Authority", 1), packed("CodeIDs", 1)>>
MsgUnpinCodes_Unmarshal == <<bytes("Authority", 1), packed("CodeIDs", 2)>>

MsgUnpinCodesResponse_MarshalToSizedBuffer == <<>>
MsgUnpinCodesResponse_Size == <<>>
MsgUnpinCodesResponse_Unmarshal == <<>>

MsgStoreAndInstantiateContract_MarshalToSizedBuffer ==
    <<bytes("CodeHash", 98), bytes("Builder", 90), bytes("Source", 82),
      messages("Funds", "Coin", 74), bytes("Msg", 66), bytes("Label", 58),
      bytes("Admin", 50), bool("UnpinCode", 40),
      pointer("InstantiatePermission", "AccessConfig", 34),
      bytes("WASMByteCode", 26), bytes("Authority", 10)>>
MsgStoreAndInstantiateContract_Size ==
    <<bytes("Authority", 1), bytes("WASMByteCode", 1),
      pointer("InstantiatePermission", "AccessConfig", 1),
      bool("UnpinCode", 2), bytes("Admin", 1), bytes("Label", 1),
      bytes("Msg", 1), messages("Funds", "Coin", 1), bytes("Source", 1),
      bytes("Builder", 1), bytes("CodeHash", 1)>>
MsgStoreAndInstantiateContract_Unmarshal ==
    <<bytes("Authority", 1), bytes("WASMByteCode", 3),
      pointer("InstantiatePermission", "AccessConfig", 4),
      bool("UnpinCode", 5), bytes("Admin", 6), bytes("Label", 7),
      bytes("Msg", 8), messages("Funds", "Coin", 9), bytes("Source", 10),
      bytes("Builder", 11), bytes("CodeHash", 12)>>

MsgStoreAndInstantiateContractResponse_MarshalToSizedBuffer ==
    <<bytes("Data", 18), bytes("Address", 10)>>
MsgStoreAndInstantiateContractResponse_Size ==
    <<bytes("Address", 1), bytes("Data", 1)>>
MsgStoreAndInstantiateContractResponse_Unmarshal ==
    <<bytes("Address", 1), bytes("Data", 2)>>

MsgAddCodeUploadParamsAddresses_MarshalToSizedBuffer ==
    <<list("Addresses", 18), bytes("Authority", 10)>>
MsgAddCodeUploadParamsAddresses_Size ==
    <<bytes("Authority", 1), list("Addresses", 1)>>
MsgAddCodeUploadParamsAddresses_Unmarshal ==
    <<bytes("Authority", 1), list("Addresses", 2)>>

MsgAddCodeUploadParamsAddressesResponse_MarshalToSizedBuffer == <<>>
MsgAddCodeUploadParamsAddressesResponse_Size == <<>>
MsgAddCodeUploadParamsAddressesResponse_Unmarshal == <<>>

MsgRemoveCodeUploadParamsAddresses_MarshalToSizedBuffer ==
    <<list("Addresses", 18), bytes("Authority", 10)>>
MsgRemoveCodeUploadParamsAddresses_Size ==
    <<bytes("Authority", 1), list("Addresses", 1)>>
MsgRemoveCodeUploadParamsAddresses_Unmarshal ==
    <<bytes("Authority", 1), list("Addresses", 2)>>

MsgRemoveCodeUploadParamsAddressesResponse_MarshalToSizedBuffer == <<>>
MsgRemoveCodeUploadParamsAddressesResponse_Size == <<>>
MsgRemoveCodeUploadParamsAddressesResponse_Unmarshal == <<>>

MsgStoreAndMigrateContract_MarshalToSizedBuffer ==
    <<bytes("Msg", 42), bytes("Contract", 34),
      pointer("InstantiatePermission", "AccessConfig", 26),
      bytes("WASMByteCode", 18), bytes("Authority", 10)>>
MsgStoreAndMigrateContract_Size ==
    <<bytes("Authority", 1), bytes("WASMByteCode", 1),
      pointer("InstantiatePermission", "AccessConfig", 1),
      bytes("Contract", 1), bytes("Msg", 1)>>
MsgStoreAndMigrateContract_Unmarshal ==
    <<bytes("Authority", 1), bytes("WASMByteCode", 2),
      pointer("InstantiatePermission", "AccessConfig", 3),
      bytes("Contract", 4), bytes("Msg", 5)>>

MsgStoreAndMigrateContractResponse_MarshalToSizedBuffer ==
    <<bytes("Data", 26), bytes("Checksum", 18), varint("CodeID", 8)>>
MsgStoreAndMigrateContractResponse_Size ==
    <<varint("CodeID", 1), bytes("Checksum", 1), bytes("Data", 1)>>
MsgStoreAndMigrateContractResponse_Unmarshal ==
    <<varint("CodeID", 1), bytes("Checksum", 2), bytes("Data", 3)>>

MsgUpdateContractLabel_MarshalToSizedBuffer ==
    <<bytes("Contract", 26), bytes("NewLabel", 18), bytes("Sender", 10)>>
MsgUpdateContractLabel_Size ==
    <<bytes("Sender", 1), bytes("NewLabel", 1), bytes("Contract", 1)>>
MsgUpdateContractLabel_Unmarshal ==
    <<bytes("Sender", 1), bytes("NewLabel", 2), bytes("Contract", 3)>>

MsgUpdateContractLabelResponse_MarshalToSizedBuffer == <<>>
MsgUpdateContractLabelResponse_Size == <<>>
MsgUpdateContractLabelResponse_Unmarshal == <<>>

(* The messages above by name. *)
WireTxSchema ==
    [MsgStoreCode |->
        Schema(MsgStoreCode_MarshalToSizedBuffer, MsgStoreCode_Size,
               MsgStoreCode_Unmarshal),
     MsgStoreCodeResponse |->
        Schema(MsgStoreCodeResponse_MarshalToSizedBuffer,
               MsgStoreCodeResponse_Size, MsgStoreCodeResponse_Unmarshal),
     MsgInstantiateContract |->
        Schema(MsgInstantiateContract_MarshalToSizedBuffer,
               MsgInstantiateContract_Size, MsgInstantiateContract_Unmarshal),
     MsgInstantiateContractResponse |->
        Schema(MsgInstantiateContractResponse_MarshalToSizedBuffer,
               MsgInstantiateContractResponse_Size,
               MsgInstantiateContractResponse_Unmarshal),
     MsgInstantiateContract2 |->
        Schema(MsgInstantiateContract2_MarshalToSizedBuffer,
               MsgInstantiateContract2_Size,
               MsgInstantiateContract2_Unmarshal),
     MsgInstantiateContract2Response |->
        Schema(MsgInstantiateContract2Response_MarshalToSizedBuffer,
               MsgInstantiateContract2Response_Size,
               MsgInstantiateContract2Response_Unmarshal),
     MsgExecuteContract |->
        Schema(MsgExecuteContract_MarshalToSizedBuffer,
               MsgExecuteContract_Size, MsgExecuteContract_Unmarshal),
     MsgExecuteContractResponse |->
        Schema(MsgExecuteContractResponse_MarshalToSizedBuffer,
               MsgExecuteContractResponse_Size,
               MsgExecuteContractResponse_Unmarshal),
     MsgMigrateContract |->
        Schema(MsgMigrateContract_MarshalToSizedBuffer,
               MsgMigrateContract_Size, MsgMigrateContract_Unmarshal),
     MsgMigrateContractResponse |->
        Schema(MsgMigrateContractResponse_MarshalToSizedBuffer,
               MsgMigrateContractResponse_Size,
               MsgMigrateContractResponse_Unmarshal),
     MsgUpdateAdmin |->
        Schema(MsgUpdateAdmin_MarshalToSizedBuffer, MsgUpdateAdmin_Size,
               MsgUpdateAdmin_Unmarshal),
     MsgUpdateAdminResponse |->
        Schema(MsgUpdateAdminResponse_MarshalToSizedBuffer,
               MsgUpdateAdminResponse_Size, MsgUpdateAdminResponse_Unmarshal),
     MsgClearAdmin |->
        Schema(MsgClearAdmin_MarshalToSizedBuffer, MsgClearAdmin_Size,
               MsgClearAdmin_Unmarshal),
     MsgClearAdminResponse |->
        Schema(MsgClearAdminResponse_MarshalToSizedBuffer,
               MsgClearAdminResponse_Size, MsgClearAdminResponse_Unmarshal),
     MsgUpdateInstantiateConfig |->
        Schema(MsgUpdateInstantiateConfig_MarshalToSizedBuffer,
               MsgUpdateInstantiateConfig_Size,
               MsgUpdateInstantiateConfig_Unmarshal),
     MsgUpdateInstantiateConfigResponse |->
        Schema(MsgUpdateInstantiateConfigResponse_MarshalToSizedBuffer,
               MsgUpdateInstantiateConfigResponse_Size,
               MsgUpdateInstantiateConfigResponse_Unmarshal),
     MsgUpdateParams |->
        Schema(MsgUpdateParams_MarshalToSizedBuffer, MsgUpdateParams_Size,
               MsgUpdateParams_Unmarshal),
     MsgUpdateParamsResponse |->
        Schema(MsgUpdateParamsResponse_MarshalToSizedBuffer,
               MsgUpdateParamsResponse_Size,
               MsgUpdateParamsResponse_Unmarshal),
     MsgSudoContract |->
        Schema(MsgSudoContract_MarshalToSizedBuffer, MsgSudoContract_Size,
               MsgSudoContract_Unmarshal),
     MsgSudoContractResponse |->
        Schema(MsgSudoContractResponse_MarshalToSizedBuffer,
               MsgSudoContractResponse_Size,
               MsgSudoContractResponse_Unmarshal),
     MsgPinCodes |->
        Schema(MsgPinCodes_MarshalToSizedBuffer, MsgPinCodes_Size,
               MsgPinCodes_Unmarshal),
     MsgPinCodesResponse |->
        Schema(MsgPinCodesResponse_MarshalToSizedBuffer,
               MsgPinCodesResponse_Size, MsgPinCodesResponse_Unmarshal),
     MsgUnpinCodes |->
        Schema(MsgUnpinCodes_MarshalToSizedBuffer, MsgUnpinCodes_Size,
               MsgUnpinCodes_Unmarshal),
     MsgUnpinCodesResponse |->
        Schema(MsgUnpinCodesResponse_MarshalToSizedBuffer,
               MsgUnpinCodesResponse_Size, MsgUnpinCodesResponse_Unmarshal),
     MsgStoreAndInstantiateContract |->
        Schema(MsgStoreAndInstantiateContract_MarshalToSizedBuffer,
               MsgStoreAndInstantiateContract_Size,
               MsgStoreAndInstantiateContract_Unmarshal),
     MsgStoreAndInstantiateContractResponse |->
        Schema(MsgStoreAndInstantiateContractResponse_MarshalToSizedBuffer,
               MsgStoreAndInstantiateContractResponse_Size,
               MsgStoreAndInstantiateContractResponse_Unmarshal),
     MsgAddCodeUploadParamsAddresses |->
        Schema(MsgAddCodeUploadParamsAddresses_MarshalToSizedBuffer,
               MsgAddCodeUploadParamsAddresses_Size,
               MsgAddCodeUploadParamsAddresses_Unmarshal),
     MsgAddCodeUploadParamsAddressesResponse |->
        Schema(MsgAddCodeUploadParamsAddressesResponse_MarshalToSizedBuffer,
               MsgAddCodeUploadParamsAddressesResponse_Size,
               MsgAddCodeUploadParamsAddressesResponse_Unmarshal),
     MsgRemoveCodeUploadParamsAddresses |->
        Schema(MsgRemoveCodeUploadParamsAddresses_MarshalToSizedBuffer,
               MsgRemoveCodeUploadParamsAddresses_Size,
               MsgRemoveCodeUploadParamsAddresses_Unmarshal),
     MsgRemoveCodeUploadParamsAddressesResponse |->
        Schema(
               MsgRemoveCodeUploadParamsAddressesResponse_MarshalToSizedBuffer,
               MsgRemoveCodeUploadParamsAddressesResponse_Size,
               MsgRemoveCodeUploadParamsAddressesResponse_Unmarshal),
     MsgStoreAndMigrateContract |->
        Schema(MsgStoreAndMigrateContract_MarshalToSizedBuffer,
               MsgStoreAndMigrateContract_Size,
               MsgStoreAndMigrateContract_Unmarshal),
     MsgStoreAndMigrateContractResponse |->
        Schema(MsgStoreAndMigrateContractResponse_MarshalToSizedBuffer,
               MsgStoreAndMigrateContractResponse_Size,
               MsgStoreAndMigrateContractResponse_Unmarshal),
     MsgUpdateContractLabel |->
        Schema(MsgUpdateContractLabel_MarshalToSizedBuffer,
               MsgUpdateContractLabel_Size, MsgUpdateContractLabel_Unmarshal),
     MsgUpdateContractLabelResponse |->
        Schema(MsgUpdateContractLabelResponse_MarshalToSizedBuffer,
               MsgUpdateContractLabelResponse_Size,
               MsgUpdateContractLabelResponse_Unmarshal)]
==============================================================================
