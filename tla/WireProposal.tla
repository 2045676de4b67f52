----------------------------- MODULE WireProposal -----------------------------
(*
 * The contents of legacy governance proposals (proposal_legacy.pb.go).
 * Three definitions per message give the fields as its three generated
 * functions treat them, in the order of the code: n is the tag byte that is
 * written, the bytes counted for the tag, and the field number that is recognised.
 *)
EXTENDS WireForms

StoreCodeProposal_MarshalToSizedBuffer ==
    <<bytes("CodeHash", 90), bytes("Builder", 82), bytes("Source", 74),
      bool("UnpinCode", 64),
      pointer("InstantiatePermission", "AccessConfig", 58),
      bytes("WASMByteCode", 34), bytes("RunAs", 26), bytes("Description", 18),
      bytes("Title", 10)>>
StoreCodeProposal_Size ==
    <<bytes("Title", 1), bytes("Description", 1), bytes("RunAs", 1),
      bytes("WASMByteCode", 1),
      pointer("InstantiatePermission", "AccessConfig", 1),
      bool("UnpinCode", 2), bytes("Source", 1), bytes("Builder", 1),
      bytes("CodeHash", 1)>>
StoreCodeProposal_Unmarshal ==
    <<bytes("Title", 1), bytes("Description", 2), bytes("RunAs", 3),
      bytes("WASMByteCode", 4),
      pointer("InstantiatePermission", "AccessConfig", 7),
      bool("UnpinCode", 8), bytes("Source", 9), bytes("Builder", 10),
      bytes("CodeHash", 11)>>

InstantiateContractProposal_MarshalToSizedBuffer ==
    <<messages("Funds", "Coin", 66), bytes("Msg", 58), bytes("Label", 50),
      varint("CodeID", 40), bytes("Admin", 34), bytes("RunAs", 26),
      bytes("Description", 18), bytes("Title", 10)>>
InstantiateContractProposal_Size ==
    <<bytes("Title", 1), bytes("Description", 1), bytes("RunAs", 1),
      bytes("Admin", 1), varint("CodeID", 1), bytes("Label", 1),
      bytes("Msg", 1), messages("Funds", "Coin", 1)>>
InstantiateContractProposal_Unmarshal ==
    <<bytes("Title", 1), bytes("Description", 2), bytes("RunAs", 3),
      bytes("Admin", 4), varint("CodeID", 5), bytes("Label", 6),
      bytes("Msg", 7), messages("Funds", "Coin", 8)>>

InstantiateContract2Proposal_MarshalToSizedBuffer ==
    <<bool("FixMsg", 80), bytes("Salt", 74), messages("Funds", "Coin", 66),
      bytes("Msg", 58), bytes("Label", 50), varint("CodeID", 40),
      bytes("Admin", 34), bytes("RunAs", 26), bytes("Description", 18),
      bytes("Title", 10)>>
InstantiateContract2Proposal_Size ==
    <<bytes("Title", 1), bytes("Description", 1), bytes("RunAs", 1),
      bytes("Admin", 1), varint("CodeID", 1), bytes("Label", 1),
      bytes("Msg", 1), messages("Funds", "Coin", 1), bytes("Salt", 1),
      bool("FixMsg", 2)>>
InstantiateContract2Proposal_Unmarshal ==
    <<bytes("Title", 1), bytes("Description", 2), bytes("RunAs", 3),
      bytes("Admin", 4), varint("CodeID", 5), bytes("Label", 6),
      bytes("Msg", 7), messages("Funds", "Coin", 8), bytes("Salt", 9),
      bool("FixMsg", 10)>>

MigrateContractProposal_MarshalToSizedBuffer ==
    <<bytes("Msg", 50), varint("CodeID", 40), bytes("Contract", 34),
      bytes("Description", 18), bytes("Title", 10)>>
MigrateContractProposal_Size ==
    <<bytes("Title", 1), bytes("Description", 1), bytes("Contract", 1),
      varint("CodeID", 1), bytes("Msg", 1)>>
MigrateContractProposal_Unmarshal ==
    <<bytes("Title", 1), bytes("Description", 2), bytes("Contract", 4),
      varint("CodeID", 5), bytes("Msg", 6)>>

SudoContractProposal_MarshalToSizedBuffer ==
    <<bytes("Msg", 34), bytes("Contract", 26), bytes("Description", 18),
      bytes("Title", 10)>>
SudoContractProposal_Size ==
    <<bytes("Title", 1), bytes("Description", 1), bytes("Contract", 1),
      bytes("Msg", 1)>>
SudoContractProposal_Unmarshal ==
    <<bytes("Title", 1), bytes("Description", 2), bytes("Contract", 3),
      bytes("Msg", 4)>>

ExecuteContractProposal_MarshalToSizedBuffer ==
    <<messages("Funds", "Coin", 50), bytes("Msg", 42), bytes("Contract", 34),
      bytes("RunAs", 26), bytes("Description", 18), bytes("Title", 10)>>
ExecuteContractProposal_Size ==
    <<bytes("Title", 1), bytes("Description", 1), bytes("RunAs", 1),
      bytes("Contract", 1), bytes("Msg", 1), messages("Funds", "Coin", 1)>>
ExecuteContractProposal_Unmarshal ==
    <<bytes("Title", 1), bytes("Description", 2), bytes("RunAs", 3),
      bytes("Contract", 4), bytes("Msg", 5), messages("Funds", "Coin", 6)>>

UpdateAdminProposal_MarshalToSizedBuffer ==
    <<bytes("Contract", 34), bytes("NewAdmin", 26), bytes("Description", 18),
      bytes("Title", 10)>>
UpdateAdminProposal_Size ==
    <<bytes("Title", 1), bytes("Description", 1), bytes("NewAdmin", 1),
      bytes("Contract", 1)>>
UpdateAdminProposal_Unmarshal ==
    <<bytes("Title", 1), bytes("Description", 2), bytes("NewAdmin", 3),
      bytes("Contract", 4)>>

ClearAdminProposal_MarshalToSizedBuffer ==
    <<bytes("Contract", 26), bytes("Description", 18), bytes("Title", 10)>>
ClearAdminProposal_Size ==
    <<bytes("Title", 1), bytes("Description", 1), bytes("Contract", 1)>>
ClearAdminProposal_Unmarshal ==
    <<bytes("Title", 1), bytes("Description", 2), bytes("Contract", 3)>>

PinCodesProposal_MarshalToSizedBuffer ==
    <<packed("CodeIDs", 26), bytes("Description", 18), bytes("Title", 10)>>
PinCodesProposal_Size ==
    <<bytes("Title", 1), bytes("Description", 1), packed("CodeIDs", 1)>>
PinCodesProposal_Unmarshal ==
    <<bytes("Title", 1), bytes("Description", 2), packed("CodeIDs", 3)>>

UnpinCodesProposal_MarshalToSizedBuffer ==
    <<packed("CodeIDs", 26), bytes("Description", 18), bytes("Title", 10)>>
UnpinCodesProposal_Size ==
    <<bytes("Title", 1), bytes("Description", 1), packed("CodeIDs", 1)>>
UnpinCodesProposal_Unmarshal ==
    <<bytes("Title", 1), bytes("Description", 2), packed("CodeIDs", 3)>>

AccessConfigUpdate_MarshalToSizedBuffer ==
    <<value("InstantiatePermission", "AccessConfig", 18), varint("CodeID", 8)>>
AccessConfigUpdate_Size ==
    <<varint("CodeID", 1), value("InstantiatePermission", "AccessConfig", 1)>>
AccessConfigUpdate_Unmarshal ==
    <<varint("CodeID", 1), value("InstantiatePermission", "AccessConfig", 2)>>

UpdateInstantiateConfigProposal_MarshalToSizedBuffer ==
    <<messages("AccessConfigUpdates", "AccessConfigUpdate", 26),
      bytes("Description", 18), bytes("Title", 10)>>
UpdateInstantiateConfigProposal_Size ==
    <<bytes("Title", 1), bytes("Description", 1),
      messages("AccessConfigUpdates", "AccessConfigUpdate", 1)>>
UpdateInstantiateConfigProposal_Unmarshal ==
    <<bytes("Title", 1), bytes("Description", 2),
      messages("AccessConfigUpdates", "AccessConfigUpdate", 3)>>

StoreAndInstantiateContractProposal_MarshalToSizedBuffer ==
    <<bytes("CodeHash", 106), bytes("Builder", 98), bytes("Source", 90),
      messages("Funds", "Coin", 82), bytes("Msg", 74), bytes("Label", 66),
      bytes("Admin", 58), bool("UnpinCode", 48),
      pointer("InstantiatePermission", "AccessConfig", 42),
      bytes("WASMByteCode", 34), bytes("RunAs", 26), bytes("Description", 18),
      bytes("Title", 10)>>
StoreAndInstantiateContractProposal_Size ==
    <<bytes("Title", 1), bytes("Description", 1), bytes("RunAs", 1),
      bytes("WASMByteCode", 1),
      pointer("InstantiatePermission", "AccessConfig", 1),
      bool("UnpinCode", 2), bytes("Admin", 1), bytes("Label", 1),
      bytes("Msg", 1), messages("Funds", "Coin", 1), bytes("Source", 1),
      bytes("Builder", 1), bytes("CodeHash", 1)>>
StoreAndInstantiateContractProposal_Unmarshal ==
    <<bytes("Title", 1), bytes("Description", 2), bytes("RunAs", 3),
      bytes("WASMByteCode", 4),
      pointer("InstantiatePermission", "AccessConfig", 5),
      bool("UnpinCode", 6), bytes("Admin", 7), bytes("Label", 8),
      bytes("Msg", 9), messages("Funds", "Coin", 10), bytes("Source", 11),
      bytes("Builder", 12), bytes("CodeHash", 13)>>

(* The messages above by name. *)
WireProposalSchema ==
    [StoreCodeProposal |->
        Schema(StoreCodeProposal_MarshalToSizedBuffer, StoreCodeProposal_Size,
               StoreCodeProposal_Unmarshal),
     InstantiateContractProposal |->
        Schema(InstantiateContractProposal_MarshalToSizedBuffer,
               InstantiateContractProposal_Size,
               InstantiateContractProposal_Unmarshal),
     InstantiateContract2Proposal |->
        Schema(InstantiateContract2Proposal_MarshalToSizedBuffer,
               InstantiateContract2Proposal_Size,
               InstantiateContract2Proposal_Unmarshal),
     MigrateContractProposal |->
        Schema(MigrateContractProposal_MarshalToSizedBuffer,
               MigrateContractProposal_Size,
               MigrateContractProposal_Unmarshal),
     SudoContractProposal |->
        Schema(SudoContractProposal_MarshalToSizedBuffer,
               SudoContractProposal_Size, SudoContractProposal_Unmarshal),
     ExecuteContractProposal |->
        Schema(ExecuteContractProposal_MarshalToSizedBuffer,
               ExecuteContractProposal_Size,
               ExecuteContractProposal_Unmarshal),
     UpdateAdminProposal |->
        Schema(UpdateAdminProposal_MarshalToSizedBuffer,
               UpdateAdminProposal_Size, UpdateAdminProposal_Unmarshal),
     ClearAdminProposal |->
        Schema(ClearAdminProposal_MarshalToSizedBuffer,
               ClearAdminProposal_Size, ClearAdminProposal_Unmarshal),
     PinCodesProposal |->
        Schema(PinCodesProposal_MarshalToSizedBuffer, PinCodesProposal_Size,
               PinCodesProposal_Unmarshal),
     UnpinCodesProposal |->
        Schema(UnpinCodesProposal_MarshalToSizedBuffer,
               UnpinCodesProposal_Size, UnpinCodesProposal_Unmarshal),
     AccessConfigUpdate |->
        Schema(AccessConfigUpdate_MarshalToSizedBuffer,
               AccessConfigUpdate_Size, AccessConfigUpdate_Unmarshal),
     UpdateInstantiateConfigProposal |->
        Schema(UpdateInstantiateConfigProposal_MarshalToSizedBuffer,
               UpdateInstantiateConfigProposal_Size,
               UpdateInstantiateConfigProposal_Unmarshal),
     StoreAndInstantiateContractProposal |->
        Schema(StoreAndInstantiateContractProposal_MarshalToSizedBuffer,
               StoreAndInstantiateContractProposal_Size,
               StoreAndInstantiateContractProposal_Unmarshal)]
==============================================================================
