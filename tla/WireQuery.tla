------------------------------ MODULE WireQuery ------------------------------
(*
 * The requests and responses of the Query service (query.pb.go).
 * Three definitions per message give the fields as its three generated
 * functions treat them, in the order of the code: n is the tag byte that is
 * written, the bytes counted for the tag, and the field number that is recognised.
 *)
EXTENDS WireForms

QueryContractInfoRequest_MarshalToSizedBuffer == <<bytes("Address", 10)>>
QueryContractInfoRequest_Size == <<bytes("Address", 1)>>
QueryContractInfoRequest_Unmarshal == <<bytes("Address", 1)>>

QueryContractInfoResponse_MarshalToSizedBuffer ==
    <<value("ContractInfo", "ContractInfo", 18), bytes("Address", 10)>>
QueryContractInfoResponse_Size ==
    <<bytes("Address", 1), value("ContractInfo", "ContractInfo", 1)>>
QueryContractInfoResponse_Unmarshal ==
    <<bytes("Address", 1), value("ContractInfo", "ContractInfo", 2)>>

QueryContractHistoryRequest_MarshalToSizedBuffer ==
    <<pointer("Pagination", "PageRequest", 18), bytes("Address", 10)>>
QueryContractHistoryRequest_Size ==
    <<bytes("Address", 1), pointer("Pagination", "PageRequest", 1)>>
QueryContractHistoryRequest_Unmarshal ==
    <<bytes("Address", 1), pointer("Pagination", "PageRequest", 2)>>

QueryContractHistoryResponse_MarshalToSizedBuffer ==
    <<pointer("Pagination", "PageResponse", 18),
      messages("Entries", "ContractCodeHistoryEntry", 10)>>
QueryContractHistoryResponse_Size ==
    <<messages("Entries", "ContractCodeHistoryEntry", 1),
      pointer("Pagination", "PageResponse", 1)>>
QueryContractHistoryResponse_Unmarshal ==
    <<messages("Entries", "ContractCodeHistoryEntry", 1),
      pointer("Pagination", "PageResponse", 2)>>

QueryContractsByCodeRequest_MarshalToSizedBuffer ==
    <<pointer("Pagination", "PageRequest", 18), varint("CodeId", 8)>>
QueryContractsByCodeRequest_Size ==
    <<varint("CodeId", 1), pointer("Pagination", "PageRequest", 1)>>
QueryContractsByCodeRequest_Unmarshal ==
    <<varint("CodeId", 1), pointer("Pagination", "PageRequest", 2)>>

QueryContractsByCodeResponse_MarshalToSizedBuffer ==
    <<pointer("Pagination", "PageResponse", 18), list("Contracts", 10)>>
QueryContractsByCodeResponse_Size ==
    <<list("Contracts", 1), pointer("Pagination", "PageResponse", 1)>>
QueryContractsByCodeResponse_Unmarshal ==
    <<list("Contracts", 1), pointer("Pagination", "PageResponse", 2)>>

QueryAllContractStateRequest_MarshalToSizedBuffer ==
    <<pointer("Pagination", "PageRequest", 18), bytes("Address", 10)>>
QueryAllContractStateRequest_Size ==
    <<bytes("Address", 1), pointer("Pagination", "PageRequest", 1)>>
QueryAllContractStateRequest_Unmarshal ==
    <<bytes("Address", 1), pointer("Pagination", "PageRequest", 2)>>

QueryAllContractStateResponse_MarshalToSizedBuffer ==
    <<pointer("Pagination", "PageResponse", 18),
      messages("Models", "Model", 10)>>
QueryAllContractStateResponse_Size ==
    <<messages("Models", "Model", 1),
      pointer("Pagination", "PageResponse", 1)>>
QueryAllContractStateResponse_Unmarshal ==
    <<messages("Models", "Model", 1),
      pointer("Pagination", "PageResponse", 2)>>

QueryRawContractStateRequest_MarshalToSizedBuffer ==
    <<bytes("QueryData", 18), bytes("Address", 10)>>
QueryRawContractStateRequest_Size ==
    <<bytes("Address", 1), bytes("QueryData", 1)>>
QueryRawContractStateRequest_Unmarshal ==
    <<bytes("Address", 1), bytes("QueryData", 2)>>

QueryRawContractStateResponse_MarshalToSizedBuffer == <<bytes("Data", 10)>>
QueryRawContractStateResponse_Size == <<bytes("Data", 1)>>
QueryRawContractStateResponse_Unmarshal == <<bytes("Data", 1)>>

QuerySmartContractStateRequest_MarshalToSizedBuffer ==
    <<bytes("QueryData", 18), bytes("Address", 10)>>
QuerySmartContractStateRequest_Size ==
    <<bytes("Address", 1), bytes("QueryData", 1)>>
QuerySmartContractStateRequest_Unmarshal ==
    <<bytes("Address", 1), bytes("QueryData", 2)>>

QuerySmartContractStateResponse_MarshalToSizedBuffer == <<bytes("Data", 10)>>
QuerySmartContractStateResponse_Size == <<bytes("Data", 1)>>
QuerySmartContractStateResponse_Unmarshal == <<bytes("Data", 1)>>

QueryCodeRequest_MarshalToSizedBuffer == <<varint("CodeId", 8)>>
QueryCodeRequest_Size == <<varint("CodeId", 1)>>
QueryCodeRequest_Unmarshal == <<varint("CodeId", 1)>>

QueryCodeInfoRequest_MarshalToSizedBuffer == <<varint("CodeId", 8)>>
QueryCodeInfoRequest_Size == <<varint("CodeId", 1)>>
QueryCodeInfoRequest_Unmarshal == <<varint("CodeId", 1)>>

QueryCodeInfoResponse_MarshalToSizedBuffer ==
    <<value("InstantiatePermission", "AccessConfig", 34),
      bytes("Checksum", 26), bytes("Creator", 18), varint("CodeID", 8)>>
QueryCodeInfoResponse_Size ==
    <<varint("CodeID", 1), bytes("Creator", 1), bytes("Checksum", 1),
      value("InstantiatePermission", "AccessConfig", 1)>>
QueryCodeInfoResponse_Unmarshal ==
    <<varint("CodeID", 1), bytes("Creator", 2), bytes("Checksum", 3),
      value("InstantiatePermission", "AccessConfig", 4)>>

CodeInfoResponse_MarshalToSizedBuffer ==
    <<value("InstantiatePermission", "AccessConfig", 50),
      bytes("DataHash", 26), bytes("Creator", 18), varint("CodeID", 8)>>
CodeInfoResponse_Size ==
    <<varint("CodeID", 1), bytes("Creator", 1), bytes("DataHash", 1),
      value("InstantiatePermission", "AccessConfig", 1)>>
CodeInfoResponse_Unmarshal ==
    <<varint("CodeID", 1), bytes("Creator", 2), bytes("DataHash", 3),
      value("InstantiatePermission", "AccessConfig", 6)>>

QueryCodeResponse_MarshalToSizedBuffer ==
    <<bytes("Data", 18), pointer("CodeInfoResponse", "CodeInfoResponse", 10)>>
QueryCodeResponse_Size ==
    <<pointer("CodeInfoResponse", "CodeInfoResponse", 1), bytes("Data", 1)>>
QueryCodeResponse_Unmarshal ==
    <<pointer("CodeInfoResponse", "CodeInfoResponse", 1), bytes("Data", 2)>>

QueryCodesRequest_MarshalToSizedBuffer ==
    <<pointer("Pagination", "PageRequest", 10)>>
QueryCodesRequest_Size == <<pointer("Pagination", "PageRequest", 1)>>
QueryCodesRequest_Unmarshal == <<pointer("Pagination", "PageRequest", 1)>>

QueryCodesResponse_MarshalToSizedBuffer ==
    <<pointer("Pagination", "PageResponse", 18),
      messages("CodeInfos", "CodeInfoResponse", 10)>>
QueryCodesResponse_Size ==
    <<messages("CodeInfos", "CodeInfoResponse", 1),
      pointer("Pagination", "PageResponse", 1)>>
QueryCodesResponse_Unmarshal ==
    <<messages("CodeInfos", "CodeInfoResponse", 1),
      pointer("Pagination", "PageResponse", 2)>>

QueryPinnedCodesRequest_MarshalToSizedBuffer ==
    <<pointer("Pagination", "PageRequest", 18)>>
QueryPinnedCodesRequest_Size == <<pointer("Pagination", "PageRequest", 1)>>
QueryPinnedCodesRequest_Unmarshal ==
    <<pointer("Pagination", "PageRequest", 2)>>

QueryPinnedCodesResponse_MarshalToSizedBuffer ==
    <<pointer("Pagination", "PageResponse", 18), packed("CodeIDs", 10)>>
QueryPinnedCodesResponse_Size ==
    <<packed("CodeIDs", 1), pointer("Pagination", "PageResponse", 1)>>
QueryPinnedCodesResponse_Unmarshal ==
    <<packed("CodeIDs", 1), pointer("Pagination", "PageResponse", 2)>>

QueryParamsRequest_MarshalToSizedBuffer == <<>>
QueryParamsRequest_Size == <<>>
QueryParamsRequest_Unmarshal == <<>>

QueryParamsResponse_MarshalToSizedBuffer == <<value("Params", "Params", 10)>>
QueryParamsResponse_Size == <<value("Params", "Params", 1)>>
QueryParamsResponse_Unmarshal == <<value("Params", "Params", 1)>>

QueryContractsByCreatorRequest_MarshalToSizedBuffer ==
    <<pointer("Pagination", "PageRequest", 18), bytes("CreatorAddress", 10)>>
QueryContractsByCreatorRequest_Size ==
    <<bytes("CreatorAddress", 1), pointer("Pagination", "PageRequest", 1)>>
QueryContractsByCreatorRequest_Unmarshal ==
    <<bytes("CreatorAddress", 1), pointer("Pagination", "PageRequest", 2)>>

QueryContractsByCreatorResponse_MarshalToSizedBuffer ==
    <<pointer("Pagination", "PageResponse", 18),
      list("ContractAddresses", 10)>>
QueryContractsByCreatorResponse_Size ==
    <<list("ContractAddresses", 1), pointer("Pagination", "PageResponse", 1)>>
QueryContractsByCreatorResponse_Unmarshal ==
    <<list("ContractAddresses", 1), pointer("Pagination", "PageResponse", 2)>>

QueryWasmLimitsConfigRequest_MarshalToSizedBuffer == <<>>
QueryWasmLimitsConfigRequest_Size == <<>>
QueryWasmLimitsConfigRequest_Unmarshal == <<>>

QueryWasmLimitsConfigResponse_MarshalToSizedBuffer == <<bytes("Config", 10)>>
QueryWasmLimitsConfigResponse_Size == <<bytes("Config", 1)>>
QueryWasmLimitsConfigResponse_Unmarshal == <<bytes("Config", 1)>>

QueryBuildAddressRequest_MarshalToSizedBuffer ==
    <<bytes("InitArgs", 34), bytes("Salt", 26), bytes("CreatorAddress", 18),
      bytes("CodeHash", 10)>>
QueryBuildAddressRequest_Size ==
    <<bytes("CodeHash", 1), bytes("CreatorAddress", 1), bytes("Salt", 1),
      bytes("InitArgs", 1)>>
QueryBuildAddressRequest_Unmarshal ==
    <<bytes("CodeHash", 1), bytes("CreatorAddress", 2), bytes("Salt", 3),
      bytes("InitArgs", 4)>>

QueryBuildAddressResponse_MarshalToSizedBuffer == <<bytes("Address", 10)>>
QueryBuildAddressResponse_Size == <<bytes("Address", 1)>>
QueryBuildAddressResponse_Unmarshal == <<bytes("Address", 1)>>

(* The messages above by name. *)
WireQuerySchema ==
    [QueryContractInfoRequest |->
        Schema(QueryContractInfoRequest_MarshalToSizedBuffer,
               QueryContractInfoRequest_Size,
               QueryContractInfoRequest_Unmarshal),
     QueryContractInfoResponse |->
        Schema(QueryContractInfoResponse_MarshalToSizedBuffer,
               QueryContractInfoResponse_Size,
               QueryContractInfoResponse_Unmarshal),
     QueryContractHistoryRequest |->
        Schema(QueryContractHistoryRequest_MarshalToSizedBuffer,
               QueryContractHistoryRequest_Size,
               QueryContractHistoryRequest_Unmarshal),
     QueryContractHistoryResponse |->
        Schema(QueryContractHistoryResponse_MarshalToSizedBuffer,
               QueryContractHistoryResponse_Size,
               QueryContractHistoryResponse_Unmarshal),
     QueryContractsByCodeRequest |->
        Schema(QueryContractsByCodeRequest_MarshalToSizedBuffer,
               QueryContractsByCodeRequest_Size,
               QueryContractsByCodeRequest_Unmarshal),
     QueryContractsByCodeResponse |->
        Schema(QueryContractsByCodeResponse_MarshalToSizedBuffer,
               QueryContractsByCodeResponse_Size,
               QueryContractsByCodeResponse_Unmarshal),
     QueryAllContractStateRequest |->
        Schema(QueryAllContractStateRequest_MarshalToSizedBuffer,
               QueryAllContractStateRequest_Size,
               QueryAllContractStateRequest_Unmarshal),
     QueryAllContractStateResponse |->
        Schema(QueryAllContractStateResponse_MarshalToSizedBuffer,
               QueryAllContractStateResponse_Size,
               QueryAllContractStateResponse_Unmarshal),
     QueryRawContractStateRequest |->
        Schema(QueryRawContractStateRequest_MarshalToSizedBuffer,
               QueryRawContractStateRequest_Size,
               QueryRawContractStateRequest_Unmarshal),
     QueryRawContractStateResponse |->
        Schema(QueryRawContractStateResponse_MarshalToSizedBuffer,
               QueryRawContractStateResponse_Size,
               QueryRawContractStateResponse_Unmarshal),
     QuerySmartContractStateRequest |->
        Schema(QuerySmartContractStateRequest_MarshalToSizedBuffer,
               QuerySmartContractStateRequest_Size,
               QuerySmartContractStateRequest_Unmarshal),
     QuerySmartContractStateResponse |->
        Schema(QuerySmartContractStateResponse_MarshalToSizedBuffer,
               QuerySmartContractStateResponse_Size,
               QuerySmartContractStateResponse_Unmarshal),
     QueryCodeRequest |->
        Schema(QueryCodeRequest_MarshalToSizedBuffer, QueryCodeRequest_Size,
               QueryCodeRequest_Unmarshal),
     QueryCodeInfoRequest |->
        Schema(QueryCodeInfoRequest_MarshalToSizedBuffer,
               QueryCodeInfoRequest_Size, QueryCodeInfoRequest_Unmarshal),
     QueryCodeInfoResponse |->
        Schema(QueryCodeInfoResponse_MarshalToSizedBuffer,
               QueryCodeInfoResponse_Size, QueryCodeInfoResponse_Unmarshal),
     CodeInfoResponse |->
        Schema(CodeInfoResponse_MarshalToSizedBuffer, CodeInfoResponse_Size,
               CodeInfoResponse_Unmarshal),
     QueryCodeResponse |->
        Schema(QueryCodeResponse_MarshalToSizedBuffer, QueryCodeResponse_Size,
               QueryCodeResponse_Unmarshal),
     QueryCodesRequest |->
        Schema(QueryCodesRequest_MarshalToSizedBuffer, QueryCodesRequest_Size,
               QueryCodesRequest_Unmarshal),
     QueryCodesResponse |->
        Schema(QueryCodesResponse_MarshalToSizedBuffer,
               QueryCodesResponse_Size, QueryCodesResponse_Unmarshal),
     QueryPinnedCodesRequest |->
        Schema(QueryPinnedCodesRequest_MarshalToSizedBuffer,
               QueryPinnedCodesRequest_Size,
               QueryPinnedCodesRequest_Unmarshal),
     QueryPinnedCodesResponse |->
        Schema(QueryPinnedCodesResponse_MarshalToSizedBuffer,
               QueryPinnedCodesResponse_Size,
               QueryPinnedCodesResponse_Unmarshal),
     QueryParamsRequest |->
        Schema(QueryParamsRequest_MarshalToSizedBuffer,
               QueryParamsRequest_Size, QueryParamsRequest_Unmarshal),
     QueryParamsResponse |->
        Schema(QueryParamsResponse_MarshalToSizedBuffer,
               QueryParamsResponse_Size, QueryParamsResponse_Unmarshal),
     QueryContractsByCreatorRequest |->
        Schema(QueryContractsByCreatorRequest_MarshalToSizedBuffer,
               QueryContractsByCreatorRequest_Size,
               QueryContractsByCreatorRequest_Unmarshal),
     QueryContractsByCreatorResponse |->
        Schema(QueryContractsByCreatorResponse_MarshalToSizedBuffer,
               QueryContractsByCreatorResponse_Size,
               QueryContractsByCreatorResponse_Unmarshal),
     QueryWasmLimitsConfigRequest |->
        Schema(QueryWasmLimitsConfigRequest_MarshalToSizedBuffer,
               QueryWasmLimitsConfigRequest_Size,
               QueryWasmLimitsConfigRequest_Unmarshal),
     QueryWasmLimitsConfigResponse |->
        Schema(QueryWasmLimitsConfigResponse_MarshalToSizedBuffer,
               QueryWasmLimitsConfigResponse_Size,
               QueryWasmLimitsConfigResponse_Unmarshal),
     QueryBuildAddressRequest |->
        Schema(QueryBuildAddressRequest_MarshalToSizedBuffer,
               QueryBuildAddressRequest_Size,
               QueryBuildAddressRequest_Unmarshal),
     QueryBuildAddressResponse |->
        Schema(QueryBuildAddressResponse_MarshalToSizedBuffer,
               QueryBuildAddressResponse_Size,
               QueryBuildAddressResponse_Unmarshal)]
==============================================================================
