------------------------------ MODULE WireLegacy ------------------------------
(*
 * The types of the store of earlier versions of the module, as the migrations
 * read and write them (migrations/v2 and v3, legacy_types.go).
 * Three definitions per message give the fields as its three generated
 * functions treat them, in the order of the code: n is the tag byte that is
 * written, the bytes counted for the tag, and the field number that is recognised.
 *)
EXTENDS WireForms

V2AccessTypeParam_MarshalToSizedBuffer == <<varint("Value", 8)>>
V2AccessTypeParam_Size == <<varint("Value", 1)>>
V2AccessTypeParam_Unmarshal == <<varint("Value", 1)>>

V2AccessConfig_MarshalToSizedBuffer ==
    <<list("Addresses", 26), bytes("Address", 18), varint("Permission", 8)>>
V2AccessConfig_Size ==
    <<varint("Permission", 1), bytes("Address", 1), list("Addresses", 1)>>
V2AccessConfig_Unmarshal ==
    <<varint("Permission", 1), bytes("Address", 2), list("Addresses", 3)>>

V2Params_MarshalToSizedBuffer ==
    <<varint("InstantiateDefaultPermission", 16),
      value("CodeUploadAccess", "V2AccessConfig", 10)>>
V2Params_Size ==
    <<value("CodeUploadAccess", "V2AccessConfig", 1),
      varint("InstantiateDefaultPermission", 1)>>
V2Params_Unmarshal ==
    <<value("CodeUploadAccess", "V2AccessConfig", 1),
      varint("InstantiateDefaultPermission", 2)>>

V2CodeInfo_MarshalToSizedBuffer ==
    <<value("InstantiateConfig", "V2AccessConfig", 42), bytes("Creator", 18),
      bytes("CodeHash", 10)>>
V2CodeInfo_Size ==
    <<bytes("CodeHash", 1), bytes("Creator", 1),
      value("InstantiateConfig", "V2AccessConfig", 1)>>
V2CodeInfo_Unmarshal ==
    <<bytes("CodeHash", 1), bytes("Creator", 2),
      value("InstantiateConfig", "V2AccessConfig", 5)>>

V3AccessTypeParam_MarshalToSizedBuffer == <<varint("Value", 8)>>
V3AccessTypeParam_Size == <<varint("Value", 1)>>
V3AccessTypeParam_Unmarshal == <<varint("Value", 1)>>

V3AccessConfig_MarshalToSizedBuffer ==
    <<list("Addresses", 26), bytes("Address", 18), varint("Permission", 8)>>
V3AccessConfig_Size ==
    <<varint("Permission", 1), bytes("Address", 1), list("Addresses", 1)>>
V3AccessConfig_Unmarshal ==
    <<varint("Permission", 1), bytes("Address", 2), list("Addresses", 3)>>

V3Params_MarshalToSizedBuffer ==
    <<varint("InstantiateDefaultPermission", 16),
      value("CodeUploadAccess", "V3AccessConfig", 10)>>
V3Params_Size ==
    <<value("CodeUploadAccess", "V3AccessConfig", 1),
      varint("InstantiateDefaultPermission", 1)>>
V3Params_Unmarshal ==
    <<value("CodeUploadAccess", "V3AccessConfig", 1),
      varint("InstantiateDefaultPermission", 2)>>

V3CodeInfo_MarshalToSizedBuffer ==
    <<value("InstantiateConfig", "V3AccessConfig", 42), bytes("Creator", 18),
      bytes("CodeHash", 10)>>
V3CodeInfo_Size ==
    <<bytes("CodeHash", 1), bytes("Creator", 1),
      value("InstantiateConfig", "V3AccessConfig", 1)>>
V3CodeInfo_Unmarshal ==
    <<bytes("CodeHash", 1), bytes("Creator", 2),
      value("InstantiateConfig", "V3AccessConfig", 5)>>

(* The messages above by name. *)
WireLegacySchema ==
    [V2AccessTypeParam |->
        Schema(V2AccessTypeParam_MarshalToSizedBuffer, V2AccessTypeParam_Size,
               V2AccessTypeParam_Unmarshal),
     V2AccessConfig |->
        Schema(V2AccessConfig_MarshalToSizedBuffer, V2AccessConfig_Size,
               V2AccessConfig_Unmarshal),
     V2Params |->
        Schema(V2Params_MarshalToSizedBuffer, V2Params_Size,
               V2Params_Unmarshal),
     V2CodeInfo |->
        Schema(V2CodeInfo_MarshalToSizedBuffer, V2CodeInfo_Size,
               V2CodeInfo_Unmarshal),
     V3AccessTypeParam |->
        Schema(V3AccessTypeParam_MarshalToSizedBuffer, V3AccessTypeParam_Size,
               V3AccessTypeParam_Unmarshal),
     V3AccessConfig |->
        Schema(V3AccessConfig_MarshalToSizedBuffer, V3AccessConfig_Size,
               V3AccessConfig_Unmarshal),
     V3Params |->
        Schema(V3Params_MarshalToSizedBuffer, V3Params_Size,
               V3Params_Unmarshal),
     V3CodeInfo |->
        Schema(V3CodeInfo_MarshalToSizedBuffer, V3CodeInfo_Size,
               V3CodeInfo_Unmarshal)]
==============================================================================
