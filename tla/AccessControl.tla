--------------------------- MODULE AccessControl ---------------------------
(***************************************************************************)
(* Access configurations and the three authorization policies of x/wasm:   *)
(* who may upload, instantiate, modify.  Everything here is a pure         *)
(* operator; the address list of an AccessConfig is a set, because no      *)
(* operation of the source looks at its order.                             *)
(***************************************************************************)
EXTENDS Naturals, FiniteSets

CONSTANTS
  NoActor,          \* the nil address: a contract without an admin
  MaxAddressCount,  \* the longest address list an AccessConfig may hold
  Propagate         \* actions whose gov permission is passed on to submessages

\* AuthorizationPolicyAction
Instantiate == "Instantiate"
MigrateContract == "MigrateContract"
Action == {Instantiate, MigrateContract}

ASSUME PropagateAssumption == Propagate \subseteq Action

AccessType == {"Nobody", "AnyOfAddresses", "Everybody"}

AccessConfig(Actor) == [permission : AccessType, addresses : SUBSET Actor]

AllowNobody == [permission |-> "Nobody", addresses |-> {}]
AllowEverybody == [permission |-> "Everybody", addresses |-> {}]
AllowAnyOf(S) == [permission |-> "AnyOfAddresses", addresses |-> S]

\* AccessType.With: the configuration a default permission stands for.
With(type, actor) ==
  CASE type = "Nobody"         -> AllowNobody
    [] type = "Everybody"      -> AllowEverybody
    [] type = "AnyOfAddresses" -> AllowAnyOf({actor})

\* AccessConfig.ValidateBasic with validateBech32Addresses: a list of
\* addresses is neither empty nor longer than MaxAddressCount.
ValidAddresses(S) == S # {} /\ Cardinality(S) <= MaxAddressCount

ValidConfig(config) ==
  config.permission = "AnyOfAddresses" => ValidAddresses(config.addresses)

Allowed(config, actor) ==
  \/ config.permission = "Everybody"
  \/ config.permission = "AnyOfAddresses" /\ actor \in config.addresses

\* AccessType.IsSubset
TypeIsSubset(type, superType) ==
  \/ superType = "Everybody"
  \/ superType = "Nobody" /\ type = "Nobody"
  \/ superType = "AnyOfAddresses" /\ type \in {"Nobody", "AnyOfAddresses"}

\* AccessConfig.IsSubset
ConfigIsSubset(config, super) ==
  IF super.permission = "AnyOfAddresses"
  THEN \/ config.permission = "Nobody"
       \/ /\ config.permission = "AnyOfAddresses"
          /\ config.addresses \subseteq super.addresses
  ELSE TypeIsSubset(config.permission, super.permission)

----------------------------------------------------------------------------
\* The policies.  A partial policy remembers the one action it is for.
DefaultPolicy == [kind |-> "default", action |-> "none"]
GovPolicy == [kind |-> "gov", action |-> "none"]
PartialPolicy(action) == [kind |-> "partial", action |-> action]

Policy == {DefaultPolicy, GovPolicy} \cup {PartialPolicy(a) : a \in Action}

CanCreateCode(policy, upload, default, actor, config) ==
  \/ policy.kind = "gov"
  \/ Allowed(upload, actor) /\ ConfigIsSubset(config, default)

CanInstantiateContract(policy, config, actor) ==
  \/ policy.kind = "gov"
  \/ policy = PartialPolicy(Instantiate)
  \/ Allowed(config, actor)

CanModifyContract_NoAdmin(policy, admin, actor) ==
  \/ policy.kind = "gov"
  \/ policy = PartialPolicy(MigrateContract)
  \/ admin \in {NoActor, actor}

CanModifyContract(policy, admin, actor) ==
  \/ policy.kind = "gov"
  \/ policy = PartialPolicy(MigrateContract)
  \/ admin # NoActor /\ admin = actor

CanModifyCodeAccessConfig(policy, creator, actor, isSubset) ==
  \/ policy.kind = "gov"
  \/ creator = actor /\ isSubset

\* SubMessageAuthorizationPolicy of the three policies.
SubMessagePolicy_Self(policy, action) == policy
SubMessagePolicy(policy, action) ==
  IF policy.kind = "gov"
  THEN IF action \in Propagate THEN PartialPolicy(action) ELSE DefaultPolicy
  ELSE policy
============================================================================
