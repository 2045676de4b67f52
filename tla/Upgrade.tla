------------------------------- MODULE Upgrade -------------------------------
(*
 * The upgrade of a chain from an earlier version of x/wasm to version 4: the
 * migrations that are registered for the module run one after the other within
 * the block of the upgrade. A node that stops before the block is committed
 * starts again from the last committed version. Values of the store are bytes:
 * each migration reads what the version before wrote.
 *
 * Sources: x/wasm/keeper/migrations.go, x/wasm/migrations/{v1,v2,v3}/store.go,
 * x/wasm/migrations/v2/params_legacy.go, x/wasm/module.go. The module manager and
 * x/params are external: the first runs the migrations in order, the second
 * holds a valid parameter set in versions 1 and 2.
 *
 * Bounds: the codes and contracts of the old chain are constants, and its access
 * configurations name one or two addresses.
 *)
EXTENDS Wire

CONSTANTS OldCode,     (* ids of stored codes *)
          OldContract  (* addresses of contracts *)

VARIABLES version,  (* of the module, in the block that is being executed *)
          subspace, (* the parameters that x/params holds for the module *)
          kv,       (* the store of the module *)
          saved,    (* version and store of the last committed block *)
          before    (* the configurations at the time of the upgrade *)
upgradeVars == <<version, subspace, kv, saved, before>>

UpgradeIdle ==
    /\ version = 0
    /\ subspace = Nothing /\ kv = Nothing /\ saved = Nothing /\ before = Nothing

------------------------------------------------------------------------------
(* The old chain *)

AccessTypeNobody == 1
AccessTypeOnlyAddress == 2
AccessTypeEverybody == 3
AccessTypeAnyOfAddresses == 4

(* Addresses as texts. *)
Alice == <<97>>
Bob == <<98>>

AccessConfigOf(permission, address, addresses) ==
    [Permission |-> permission, Address |-> address, Addresses |-> addresses]

(* Configurations that ValidateBasic of the old versions accepts. *)
LegacyAccess ==
    {AccessConfigOf(p, Nothing, Nothing) : p \in {AccessTypeNobody, AccessTypeEverybody}}
      \cup {AccessConfigOf(AccessTypeOnlyAddress, a, Nothing) : a \in {Alice, Bob}}
      \cup {AccessConfigOf(AccessTypeAnyOfAddresses, Nothing, as) :
              as \in {<<Bob>>, <<Bob, Alice>>}}

LegacyParams ==
    [CodeUploadAccess : LegacyAccess, InstantiateDefaultPermission : 1..4]

LegacyCodeInfo(access) ==
    [CodeHash |-> <<1, 2>>, Creator |-> Alice, InstantiateConfig |-> access]

(* The entry of a contract in the index by creator. *)
IndexEntry(contract, info) == <<info.Creator, info.Created[1], contract>>

ContractInfos == [contract \in OldContract |->
    [Zero("ContractInfo") EXCEPT
        !.CodeID = 1,
        !.Creator = IF contract % 2 = 0 THEN Alice ELSE Bob,
        !.Created = <<[BlockHeight |-> 128, TxIndex |-> contract]>>]]

FullIndex == {IndexEntry(c, ContractInfos[c]) : c \in OldContract}

OldChain(v, params, access) ==
    /\ version' = v
    /\ subspace' = IF v < 3 THEN params ELSE Nothing
    /\ kv' = [params |-> IF v < 3 THEN Nothing ELSE Marshal("V3Params", params),
              codes |-> [c \in OldCode |->
                            Marshal("V3CodeInfo", LegacyCodeInfo(access[c]))],
              contracts |-> [c \in OldContract |->
                                Marshal("ContractInfo", ContractInfos[c])],
              index |-> IF v = 1 THEN {} ELSE FullIndex]
    /\ saved' = [version |-> v, kv |-> kv']
    /\ before' = [params |-> params, access |-> access]

------------------------------------------------------------------------------
(* Migrations. One that cannot decode a value panics, and the chain halts. *)

Halted == 5

Migrate1to2 ==
    /\ version = 1
    /\ LET info == [c \in DOMAIN kv.contracts |->
                        Decode("ContractInfo", kv.contracts[c])]
           ok == \A c \in DOMAIN info : info[c].ok
       IN  /\ kv' = IF ok THEN [kv EXCEPT !.index = @ \cup
                                    {IndexEntry(c, info[c].m) : c \in DOMAIN info}]
                          ELSE kv
           /\ version' = IF ok THEN 2 ELSE Halted
    /\ UNCHANGED <<subspace, saved, before>>

(* MigrateStore of v2 *)
Migrate2to3 ==
    /\ version = 2
    /\ kv' = [kv EXCEPT !.params = Marshal("V2Params", subspace)]
    /\ version' = 3
    /\ UNCHANGED <<subspace, saved, before>>

updateAccessConfig_KeepsType(a) ==
    [Permission |-> a.Permission,
     Addresses |-> IF a.Permission = AccessTypeOnlyAddress
                     THEN <<a.Address>> ELSE a.Addresses]
updateAccessConfig(a) ==
    IF a.Permission = AccessTypeOnlyAddress
      THEN [Permission |-> AccessTypeAnyOfAddresses, Addresses |-> <<a.Address>>]
      ELSE [Permission |-> a.Permission, Addresses |-> a.Addresses]

NewParams(p) ==
    [CodeUploadAccess |-> updateAccessConfig(p.CodeUploadAccess),
     InstantiateDefaultPermission |->
        IF p.InstantiateDefaultPermission = AccessTypeOnlyAddress
          THEN AccessTypeAnyOfAddresses
          ELSE p.InstantiateDefaultPermission]

NewCodeInfo(i) ==
    [CodeHash |-> i.CodeHash, Creator |-> i.Creator,
     InstantiateConfig |-> updateAccessConfig(i.InstantiateConfig)]

Migrate3to4 ==
    /\ version = 3
    /\ LET params == Decode("V3Params", kv.params)
           info == [c \in DOMAIN kv.codes |-> Decode("V3CodeInfo", kv.codes[c])]
           ok == params.ok /\ \A c \in DOMAIN info : info[c].ok
       IN  /\ kv' = IF ok
                      THEN [kv EXCEPT
                              !.params = IF @ = Nothing THEN @
                                  ELSE Marshal("Params", NewParams(params.m)),
                              !.codes = [c \in DOMAIN info |->
                                  Marshal("CodeInfo", NewCodeInfo(info[c].m))]]
                      ELSE kv
           /\ version' = IF ok THEN 4 ELSE Halted
    /\ UNCHANGED <<subspace, saved, before>>

CommitUpgrade ==
    /\ version = 4
    /\ saved # [version |-> version, kv |-> kv]
    /\ saved' = [version |-> version, kv |-> kv]
    /\ UNCHANGED <<version, subspace, kv, before>>

(* The node stops and starts again from the last committed block. *)
StopUpgrade ==
    /\ version # 0
    /\ saved.version # version
    /\ version' = saved.version
    /\ kv' = saved.kv
    /\ UNCHANGED <<subspace, saved, before>>

UpgradeNext ==
    \/ /\ version = 0
       /\ \E v \in 1..3, p \in LegacyParams, a \in [OldCode -> LegacyAccess] :
              OldChain(v, p, a)
    \/ Migrate1to2
    \/ Migrate2to3
    \/ Migrate3to4
    \/ CommitUpgrade
    \/ StopUpgrade

------------------------------------------------------------------------------
(* Properties *)

(* Who a configuration admits, in the versions up to 3 and in version 4. A    *)
(* permission that version 4 does not know makes it panic.                    *)
AdmittedBefore(a) ==
    CASE a.Permission = AccessTypeNobody -> {}
      [] a.Permission = AccessTypeOnlyAddress -> {a.Address}
      [] a.Permission = AccessTypeEverybody -> {Alice, Bob}
      [] a.Permission = AccessTypeAnyOfAddresses -> ToSet(a.Addresses)
AdmittedNow(a) ==
    CASE a.Permission = AccessTypeNobody -> {}
      [] a.Permission = AccessTypeEverybody -> {Alice, Bob}
      [] a.Permission = AccessTypeAnyOfAddresses -> ToSet(a.Addresses)
      [] OTHER -> {Panic}

(* The configuration of a code that Bob uploads without naming one. *)
Default(permission) == AccessConfigOf(permission, Bob, <<Bob>>)

(* From whatever version the upgrade starts and however often the node stops  *)
(* in between, no migration panics. Afterwards version 4 can decode what is   *)
(* stored, the same accounts as before may upload code, instantiate each code *)
(* and instantiate a code with default permission, codes keep hash and        *)
(* creator, and every contract is in the index by creator.                    *)
UpgradeKeeps ==
    /\ version # Halted
    /\ version # 0 /\ saved.version = 4 =>
        /\ LET params == Decode("Params", saved.kv.params)
           IN  /\ params.ok
               /\ AdmittedNow(params.m.CodeUploadAccess)
                    = AdmittedBefore(before.params.CodeUploadAccess)
               /\ AdmittedNow(Default(params.m.InstantiateDefaultPermission))
                    = AdmittedBefore(
                        Default(before.params.InstantiateDefaultPermission))
        /\ \A c \in OldCode :
              LET info == Decode("CodeInfo", saved.kv.codes[c])
                  old == LegacyCodeInfo(before.access[c])
              IN  /\ info.ok
                  /\ info.m.CodeHash = old.CodeHash
                  /\ info.m.Creator = old.Creator
                  /\ AdmittedNow(info.m.InstantiateConfig)
                       = AdmittedBefore(old.InstantiateConfig)
        /\ saved.kv.index = FullIndex
==============================================================================
