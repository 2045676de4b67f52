------------------------------ MODULE Registry ------------------------------
(***************************************************************************)
(* The keeper's registry: uploaded codes, contracts, their code history,   *)
(* the two secondary indexes, the id sequences, the pinned codes and the   *)
(* parameters, together with the part of wasmvm that outlives a            *)
(* transaction (compiled codes on disk, pinned codes in memory).           *)
(*                                                                         *)
(* A transaction (or a passed proposal) runs its messages in a branch of   *)
(* the committed store.  A message that runs a contract may dispatch       *)
(* submessages; each runs in a branch of its own (sdk CacheContext) that   *)
(* is written back or dropped.  The branches form a stack.  What wasmvm    *)
(* keeps is not part of any branch, so a dropped branch does not undo it.  *)
(***************************************************************************)
EXTENDS AccessControl, Sequences

CONSTANTS
  User,            \* externally owned accounts
  Authority,       \* the gov module account
  Hash,            \* checksums of wasm byte code
  IBCHash,         \* those whose code exports the IBC entry points
  MigrateVersion,  \* the ContractMigrateVersion of a checksum, or NoVersion
  NoVersion,
  Salt,            \* salt (and fixed message) of a predictable address
  Label,           \* contract labels
  InputConfig,     \* access configurations messages carry
  InputDefault,    \* default permissions a MsgUpdateParams carries
  InputAdmin,      \* admins messages carry
  InputPin,        \* code id lists MsgPinCodes and MsgUnpinCodes carry
  InputAccount,    \* kinds of account outsiders create at an address
  NoCode,          \* GetCodeInfo returns nil
  NoContract,      \* GetContractInfo returns nil
  MaxCode,         \* bound: code ids are 1..MaxCode
  MaxInstance,     \* bound: instance ids are 1..MaxInstance
  MaxPosition,     \* bound: transaction positions are 0..MaxPosition
  MaxDepth,        \* bound: nested branches
  MaxHistory       \* bound: entries in a contract's code history

CodeID == 1..MaxCode
InstanceID == 1..MaxInstance
Position == 0..MaxPosition

\* BuildContractAddressClassic and BuildContractAddressPredictable are
\* hashes of length-prefixed parts: injective, and never equal.  A contract
\* at a predictable address creates no further predictable one (bound).
ClassicAddress(codeID, instanceID) == <<"classic", codeID, instanceID>>
PredictableAddress(hash, creator, salt) ==
  <<"predictable", hash, creator, salt>>

Classic == {ClassicAddress(c, i) : c \in CodeID, i \in InstanceID}
Signer == User \cup {Authority}
Predictable ==
  {PredictableAddress(h, c, s) : h \in Hash, c \in Signer \cup Classic, s \in Salt}
Contract == Classic \cup Predictable
Actor == Signer \cup Contract

CodeInfo == [hash : Hash, creator : Actor, access : AccessConfig(Actor)]
ContractInfo ==
  [code : CodeID, creator : Actor, admin : Actor \cup {NoActor},
   created : Position, label : Label, port : BOOLEAN]
HistoryEntry ==
  [operation : {"Init", "Migrate"}, code : CodeID, updated : Position]

\* What x/auth holds at an address: nothing; a plain account of an accepted
\* type; a vesting account (the pruner handles it); another type it does not
\* handle; an account with a public key or a sequence number.
AccountKind == {"none", "base", "vesting", "other", "claimed"}

Store ==
  [codes     : [CodeID -> CodeInfo \cup {NoCode}],
   contracts : [Contract -> ContractInfo \cup {NoContract}],
   history   : [Contract -> Seq(HistoryEntry)],
   byCode    : SUBSET (CodeID \X Position \X Contract),
   byCreator : SUBSET (Actor \X Position \X Contract),
   accounts  : [Contract -> AccountKind],
   ports     : SUBSET Contract,
   pinned    : SUBSET CodeID,
   seqCode   : Nat,
   seqInst   : Nat,
   upload    : AccessConfig(Actor),
   default   : AccessType]

ASSUME RegistryAssumption ==
  /\ MaxCode \in Nat /\ MaxInstance \in Nat /\ MaxPosition \in Nat
  /\ MaxDepth \in Nat /\ MaxHistory \in Nat
  /\ IBCHash \subseteq Hash
  /\ MigrateVersion \in [Hash -> Nat \cup {NoVersion}]
  /\ InputConfig \subseteq {c \in AccessConfig(Actor) : ValidConfig(c)}
  /\ InputDefault \subseteq AccessType
  /\ InputAdmin \subseteq Actor \cup {NoActor}
  /\ InputPin \subseteq SUBSET CodeID
  /\ InputAccount \subseteq AccountKind \ {"none"}
  /\ NoCode \notin CodeInfo
  /\ NoContract \notin ContractInfo
  /\ NoActor \notin Actor
  /\ Authority \notin Contract

VARIABLES
  committed,  \* the multistore after the last committed transaction
  stack,      \* branches of the running transaction, outermost first
  position,   \* AbsoluteTxPosition of the running transaction
  vmCodes,    \* checksums wasmvm has on disk
  vmPinned    \* checksums wasmvm has pinned in memory

vars == <<committed, stack, position, vmCodes, vmPinned>>
vm == <<vmCodes, vmPinned>>

\* A branch: the store it sees; who sends the messages in it (at the bottom,
\* the signer of the last message); the policy its context carries; the
\* contract its message runs and the policy that contract's submessages get.
Frame ==
  [store : Store, sender : Actor \cup {NoActor}, policy : Policy,
   running : Contract \cup {NoActor}, subPolicy : Policy,
   handled : BOOLEAN, failed : BOOLEAN]

NewFrame(store, sender, policy) ==
  [store |-> store, sender |-> sender, policy |-> policy,
   running |-> NoActor, subPolicy |-> DefaultPolicy,
   handled |-> FALSE, failed |-> FALSE]

EmptyStore ==
  [codes     |-> [c \in CodeID |-> NoCode],
   contracts |-> [a \in Contract |-> NoContract],
   history   |-> [a \in Contract |-> << >>],
   byCode    |-> {},
   byCreator |-> {},
   accounts  |-> [a \in Contract |-> "none"],
   ports     |-> {},
   pinned    |-> {},
   seqCode   |-> 1,
   seqInst   |-> 1,
   upload    |-> AllowEverybody,
   default   |-> "Everybody"]

Init ==
  /\ committed = EmptyStore
  /\ stack = << >>
  /\ position = 0
  /\ vmCodes = {}
  /\ vmPinned = {}

Top == stack[Len(stack)]

\* A message of actor a is being handled in the innermost branch: every
\* message of a transaction in turn, but a submessage branch takes one only.
Sends(a) ==
  /\ stack # << >>
  /\ ~Top.failed
  /\ IF Len(stack) = 1 THEN a \in Signer ELSE a = Top.sender /\ ~Top.handled

\* msgServer.selectAuthorizationPolicy
selectAuthorizationPolicy(a) ==
  IF a = Authority THEN GovPolicy ELSE Top.policy

\* The message of actor a is handled: the store it leaves, the contract whose
\* response is to be dispatched (or none) and the policy for that.
Handled(a, store, contract, policy) ==
  stack' = [stack EXCEPT ![Len(stack)] =
              [@ EXCEPT !.store = store, !.sender = a, !.handled = TRUE,
                        !.running = contract, !.subPolicy = policy]]

HasContract(store, a) == store.contracts[a] # NoContract
HasCode(store, c) == store.codes[c] # NoCode
HashOf(store, c) == store.codes[c].hash

----------------------------------------------------------------------------
(* What the keeper operations write.                                       *)

\* create
Create(store, creator, hash, access) ==
  [store EXCEPT
     !.codes[store.seqCode] =
        [hash |-> hash, creator |-> creator, access |-> access],
     !.seqCode = @ + 1]

\* ensureIbcPort
ensureIbcPort(ports, a) == ports \cup {a}

addToContractCodeSecondaryIndex(index, a, entry) ==
  index \cup {<<entry.code, entry.updated, a>>}

removeFromContractCodeSecondaryIndex(index, a, entry) ==
  index \ {<<entry.code, entry.updated, a>>}

addToContractCreatorSecondaryIndex(index, creator, pos, a) ==
  index \cup {<<creator, pos, a>>}

appendToContractHistory_Overwrite(history, a, entry) ==
  [history EXCEPT ![a] =
     IF @ = << >> THEN <<entry>> ELSE [@ EXCEPT ![Len(@)] = entry]]

appendToContractHistory(history, a, entry) ==
  [history EXCEPT ![a] = Append(@, entry)]

mustGetLastContractHistoryEntry(history, a) == history[a][Len(history[a])]

\* The account check of instantiate.  A claimed account is rejected first; an
\* accepted type is kept as it is; any other is replaced by a plain account,
\* if the pruner handles it.
AccountAcceptable_SkipClaimed(kind) == kind # "other"
AccountAcceptable(kind) == kind \notin {"claimed", "other"}

TakenOver(kind) == IF kind \in {"base", "claimed"} THEN kind ELSE "base"

\* instantiate, from the account check to the stored contract: the entry is
\* indexed and the contract stored before its response is dispatched.
Instantiated_IndexAdmin(store, a, codeID, creator, admin, label) ==
  LET entry == [operation |-> "Init", code |-> codeID, updated |-> position]
      isIBC == HashOf(store, codeID) \in IBCHash
  IN
  [store EXCEPT
     !.accounts[a] = TakenOver(@),
     !.ports = IF isIBC THEN ensureIbcPort(@, a) ELSE @,
     !.byCode = addToContractCodeSecondaryIndex(@, a, entry),
     !.byCreator = addToContractCreatorSecondaryIndex(@, admin, position, a),
     !.history = appendToContractHistory(@, a, entry),
     !.contracts[a] =
        [code |-> codeID, creator |-> creator, admin |-> admin,
         created |-> position, label |-> label, port |-> isIBC]]

Instantiated(store, a, codeID, creator, admin, label) ==
  LET entry == [operation |-> "Init", code |-> codeID, updated |-> position]
      isIBC == HashOf(store, codeID) \in IBCHash
  IN
  [store EXCEPT
     !.accounts[a] = TakenOver(@),
     !.ports = IF isIBC THEN ensureIbcPort(@, a) ELSE @,
     !.byCode = addToContractCodeSecondaryIndex(@, a, entry),
     !.byCreator = addToContractCreatorSecondaryIndex(@, creator, position, a),
     !.history = appendToContractHistory(@, a, entry),
     !.contracts[a] =
        [code |-> codeID, creator |-> creator, admin |-> admin,
         created |-> position, label |-> label, port |-> isIBC]]

\* migrate refuses to leave a contract that owns a port without callbacks.
KeepsCallbacks_Any(store, a, codeID) == TRUE
KeepsCallbacks(store, a, codeID) ==
  store.contracts[a].port => HashOf(store, codeID) \in IBCHash

\* migrate skips the entry point when both versions are set and equal.
RunsMigrate(store, a, codeID) ==
  LET new == MigrateVersion[HashOf(store, codeID)]
      old == MigrateVersion[HashOf(store, store.contracts[a].code)]
  IN  new = NoVersion \/ old = NoVersion \/ new # old

\* migrate: the index entry of the last history entry goes first.
Migrated_AddFirst(store, a, codeID) ==
  LET entry == [operation |-> "Migrate", code |-> codeID, updated |-> position]
      last == mustGetLastContractHistoryEntry(store.history, a)
      isIBC == HashOf(store, codeID) \in IBCHash
  IN
  [store EXCEPT
     !.ports = IF isIBC /\ ~store.contracts[a].port
               THEN ensureIbcPort(@, a) ELSE @,
     !.byCode = removeFromContractCodeSecondaryIndex(
                  addToContractCodeSecondaryIndex(@, a, entry), a, last),
     !.history = appendToContractHistory(@, a, entry),
     !.contracts[a] = [store.contracts[a] EXCEPT
                         !.code = codeID, !.port = @ \/ isIBC]]

Migrated_Recreated(store, a, codeID) ==
  LET entry == [operation |-> "Migrate", code |-> codeID, updated |-> position]
      last == mustGetLastContractHistoryEntry(store.history, a)
      isIBC == HashOf(store, codeID) \in IBCHash
  IN
  [store EXCEPT
     !.ports = IF isIBC /\ ~store.contracts[a].port
               THEN ensureIbcPort(@, a) ELSE @,
     !.byCode = addToContractCodeSecondaryIndex(
                  removeFromContractCodeSecondaryIndex(@, a, last), a, entry),
     !.history = appendToContractHistory(@, a, entry),
     !.contracts[a] = [store.contracts[a] EXCEPT
                         !.code = codeID, !.port = @ \/ isIBC,
                         !.created = position]]

Migrated(store, a, codeID) ==
  LET entry == [operation |-> "Migrate", code |-> codeID, updated |-> position]
      last == mustGetLastContractHistoryEntry(store.history, a)
      isIBC == HashOf(store, codeID) \in IBCHash
  IN
  [store EXCEPT
     !.ports = IF isIBC /\ ~store.contracts[a].port
               THEN ensureIbcPort(@, a) ELSE @,
     !.byCode = addToContractCodeSecondaryIndex(
                  removeFromContractCodeSecondaryIndex(@, a, last), a, entry),
     !.history = appendToContractHistory(@, a, entry),
     !.contracts[a] = [store.contracts[a] EXCEPT
                         !.code = codeID, !.port = @ \/ isIBC]]

----------------------------------------------------------------------------
(* The message handlers.  Each is the path to the end of the handler; an   *)
(* error return or a panic, before or after the writes, is MessageFails:   *)
(* it dooms the branch, and with it all that the handler wrote to it.      *)
(* What the handler did in wasmvm by then stays.                           *)

\* The precondition of create and the code id it takes.
MayCreate(a, store, policy, access) ==
  /\ store.seqCode \in CodeID
  /\ access \in InputConfig \cup {With(store.default, a)}
  /\ CanCreateCode(policy, store.upload, With(store.default, a), a, access)

StoreCode(a, hash, access) ==
  LET policy == selectAuthorizationPolicy(a) IN
  /\ Sends(a)
  /\ MayCreate(a, Top.store, policy, access)
  /\ Handled(a, Create(Top.store, a, hash, access), NoActor, DefaultPolicy)
  /\ vmCodes' = vmCodes \cup {hash}
  /\ UNCHANGED <<committed, position, vmPinned>>

\* The checks of instantiate, for the address a generator returned.
MayInstantiate(store, policy, codeID, creator, address) ==
  /\ HasCode(store, codeID)
  /\ CanInstantiateContract(policy, store.codes[codeID].access, creator)
  /\ ~HasContract(store, address)
  /\ AccountAcceptable(store.accounts[address])

\* ClassicAddressGenerator
NextInstance_Same(store) == store
NextInstance(store) == [store EXCEPT !.seqInst = @ + 1]

InstantiateContract(a, codeID, admin, label) ==
  LET policy == selectAuthorizationPolicy(a)
      address == ClassicAddress(codeID, Top.store.seqInst)
      store == NextInstance(Top.store)
  IN
  /\ Sends(a)
  /\ Top.store.seqInst \in InstanceID
  /\ MayInstantiate(store, policy, codeID, a, address)
  /\ Handled(a, Instantiated(store, address, codeID, a, admin, label),
             address, SubMessagePolicy(policy, Instantiate))
  /\ UNCHANGED <<committed, position, vm>>

\* The contract address is a function of the checksum, creator and salt.
InstantiateContract2(a, codeID, admin, label, salt) ==
  LET policy == selectAuthorizationPolicy(a)
      address == PredictableAddress(HashOf(Top.store, codeID), a, salt)
  IN
  /\ Sends(a)
  /\ a \in Signer \cup Classic
  /\ HasCode(Top.store, codeID)
  /\ MayInstantiate(Top.store, policy, codeID, a, address)
  /\ Handled(a, Instantiated(Top.store, address, codeID, a, admin, label),
             address, SubMessagePolicy(policy, Instantiate))
  /\ UNCHANGED <<committed, position, vm>>

\* execute: the submessages of the contract inherit the context's policy.
ExecuteContract(a, contract) ==
  /\ Sends(a)
  /\ HasContract(Top.store, contract)
  /\ Handled(a, Top.store, contract, Top.policy)
  /\ UNCHANGED <<committed, position, vm>>

\* Sudo, for the authority only.
SudoContract(a, contract) ==
  /\ a = Authority
  /\ ExecuteContract(a, contract)

\* The checks of migrate.
MayMigrate(store, policy, a, contract, codeID) ==
  /\ HasContract(store, contract)
  /\ Len(store.history[contract]) < MaxHistory
  /\ CanModifyContract(policy, store.contracts[contract].admin, a)
  /\ HasCode(store, codeID)
  /\ CanInstantiateContract(policy, store.codes[codeID].access, a)
  /\ KeepsCallbacks(store, contract, codeID)

\* Whose response is dispatched after a migration: nobody's if the entry
\* point was skipped.
MigrateRuns(store, contract, codeID) ==
  IF RunsMigrate(store, contract, codeID) THEN contract ELSE NoActor

Migrate(a, contract, codeID) ==
  LET policy == selectAuthorizationPolicy(a) IN
  /\ Sends(a)
  /\ MayMigrate(Top.store, policy, a, contract, codeID)
  /\ Handled(a, Migrated(Top.store, contract, codeID),
             MigrateRuns(Top.store, contract, codeID),
             SubMessagePolicy(policy, MigrateContract))
  /\ UNCHANGED <<committed, position, vm>>

StoreAndInstantiateContract(a, hash, access, admin, label) ==
  LET policy == selectAuthorizationPolicy(a)
      codeID == Top.store.seqCode
      store == NextInstance(Create(Top.store, a, hash, access))
      address == ClassicAddress(codeID, Top.store.seqInst)
  IN
  /\ Sends(a)
  /\ MayCreate(a, Top.store, policy, access)
  /\ Top.store.seqInst \in InstanceID
  /\ MayInstantiate(store, policy, codeID, a, address)
  /\ Handled(a, Instantiated(store, address, codeID, a, admin, label),
             address, SubMessagePolicy(policy, Instantiate))
  /\ vmCodes' = vmCodes \cup {hash}
  /\ UNCHANGED <<committed, position, vmPinned>>

StoreAndMigrateContract(a, hash, access, contract) ==
  LET policy == selectAuthorizationPolicy(a)
      codeID == Top.store.seqCode
      store == Create(Top.store, a, hash, access)
  IN
  /\ Sends(a)
  /\ MayCreate(a, Top.store, policy, access)
  /\ MayMigrate(store, policy, a, contract, codeID)
  /\ Handled(a, Migrated(store, contract, codeID),
             MigrateRuns(store, contract, codeID),
             SubMessagePolicy(policy, MigrateContract))
  /\ vmCodes' = vmCodes \cup {hash}
  /\ UNCHANGED <<committed, position, vmPinned>>

\* setContractAdmin: UpdateAdmin with an address, ClearAdmin with none.
SetContractAdmin(a, contract, admin) ==
  LET store == Top.store IN
  /\ Sends(a)
  /\ HasContract(store, contract)
  /\ CanModifyContract(selectAuthorizationPolicy(a),
                       store.contracts[contract].admin, a)
  /\ Handled(a, [store EXCEPT !.contracts[contract] = [@ EXCEPT !.admin = admin]],
             NoActor, DefaultPolicy)
  /\ UNCHANGED <<committed, position, vm>>

\* setContractLabel
UpdateContractLabel(a, contract, label) ==
  LET store == Top.store IN
  /\ Sends(a)
  /\ HasContract(store, contract)
  /\ CanModifyContract(selectAuthorizationPolicy(a),
                       store.contracts[contract].admin, a)
  /\ Handled(a, [store EXCEPT !.contracts[contract] = [@ EXCEPT !.label = label]],
             NoActor, DefaultPolicy)
  /\ UNCHANGED <<committed, position, vm>>

\* setAccessConfig compares permission types only.
UpdateInstantiateConfig(a, codeID, config) ==
  LET store == Top.store IN
  /\ Sends(a)
  /\ HasCode(store, codeID)
  /\ CanModifyCodeAccessConfig(
       selectAuthorizationPolicy(a), store.codes[codeID].creator, a,
       TypeIsSubset(config.permission, store.default))
  /\ Handled(a, [store EXCEPT !.codes[codeID] = [@ EXCEPT !.access = config]],
             NoActor, DefaultPolicy)
  /\ UNCHANGED <<committed, position, vm>>

UpdateParams(a, upload, default) ==
  /\ a = Authority /\ Sends(a)
  /\ Handled(a, [Top.store EXCEPT !.upload = upload, !.default = default],
             NoActor, DefaultPolicy)
  /\ UNCHANGED <<committed, position, vm>>

AddCodeUploadParamsAddresses(a, addresses) ==
  LET store == Top.store IN
  /\ a = Authority /\ Sends(a)
  /\ store.upload.permission = "AnyOfAddresses"
  /\ Handled(a, [store EXCEPT !.upload.addresses = @ \cup addresses],
             NoActor, DefaultPolicy)
  /\ UNCHANGED <<committed, position, vm>>

RemoveCodeUploadParamsAddresses(a, addresses) ==
  LET store == Top.store IN
  /\ a = Authority /\ Sends(a)
  /\ store.upload.permission = "AnyOfAddresses"
  /\ Handled(a, [store EXCEPT !.upload.addresses = @ \ addresses],
             NoActor, DefaultPolicy)
  /\ UNCHANGED <<committed, position, vm>>

Hashes(store, codeIDs) == {HashOf(store, c) : c \in codeIDs}

\* PinCodes and UnpinCodes: wasmvm first, then the store, code by code.
PinCodes(a, codeIDs) ==
  LET store == Top.store IN
  /\ a = Authority /\ Sends(a)
  /\ \A c \in codeIDs : HasCode(store, c)
  /\ Handled(a, [store EXCEPT !.pinned = @ \cup codeIDs], NoActor, DefaultPolicy)
  /\ vmPinned' = vmPinned \cup Hashes(store, codeIDs)
  /\ UNCHANGED <<committed, position, vmCodes>>

UnpinCodes(a, codeIDs) ==
  LET store == Top.store IN
  /\ a = Authority /\ Sends(a)
  /\ \A c \in codeIDs : HasCode(store, c)
  /\ Handled(a, [store EXCEPT !.pinned = @ \ codeIDs], NoActor, DefaultPolicy)
  /\ vmPinned' = vmPinned \ Hashes(store, codeIDs)
  /\ UNCHANGED <<committed, position, vmCodes>>

----------------------------------------------------------------------------
(* Branches, transactions and the node.                                    *)

\* DefaultAuthorizationPolicy stands for a context that carries no policy.
\* Messages of one block, and those run by an end blocker, may share a
\* position: it is the gas the block has consumed so far.
BeginTx ==
  /\ stack = << >>
  /\ position' \in {position, position + 1} \cap Position
  /\ stack' = <<NewFrame(committed, NoActor, DefaultPolicy)>>
  /\ UNCHANGED <<committed, vm>>

\* DispatchSubmessages opens a branch for the next submessage of the
\* contract that runs, or that is being replied to.
BeginSubmessage ==
  /\ stack # << >> /\ Len(stack) < MaxDepth
  /\ ~Top.failed /\ Top.running # NoActor
  /\ stack' = Append(stack, NewFrame(Top.store, Top.running, Top.subPolicy))
  /\ UNCHANGED <<committed, position, vm>>

MessageFails ==
  /\ stack # << >> /\ ~Top.failed
  /\ stack' = [stack EXCEPT ![Len(stack)] = [@ EXCEPT !.failed = TRUE]]
  /\ UNCHANGED <<committed, position, vm>>

\* commit() of the branch: its store becomes the store of the one below.
CommitSubmessage ==
  /\ Len(stack) > 1 /\ ~Top.failed /\ Top.handled
  /\ stack' = [i \in 1..(Len(stack) - 1) |->
                 IF i = Len(stack) - 1
                 THEN [stack[i] EXCEPT !.store = Top.store] ELSE stack[i]]
  /\ UNCHANGED <<committed, position, vm>>

\* The branch is dropped.  The caller may go on (reply on error) or fail.
DropSubmessage ==
  /\ Len(stack) > 1 /\ Top.failed
  /\ stack' = [i \in 1..(Len(stack) - 1) |-> stack[i]]
  /\ UNCHANGED <<committed, position, vm>>

EndTx ==
  /\ Len(stack) = 1
  /\ committed' = IF Top.failed THEN committed ELSE Top.store
  /\ stack' = << >>
  /\ UNCHANGED <<position, vm>>

\* Somebody funds an address, or opens a vesting account there.
CreateAccount(a, kind) ==
  /\ Len(stack) = 1 /\ ~Top.failed
  /\ Top.store.accounts[a] = "none"
  /\ stack' = [stack EXCEPT ![1].store.accounts[a] = kind]
  /\ UNCHANGED <<committed, position, vm>>

\* The node stops and starts again: the running transaction is lost, and
\* InitializePinnedCodes fills the empty cache of pinned codes.
Restart_CleanDisk ==
  /\ stack' = << >>
  /\ vmPinned' = Hashes(committed, committed.pinned)
  /\ vmCodes' = vmPinned'
  /\ UNCHANGED <<committed, position>>

Restart ==
  /\ stack' = << >>
  /\ vmPinned' = Hashes(committed, committed.pinned)
  /\ UNCHANGED <<committed, position, vmCodes>>

Message ==
  \E a \in Actor :
    \/ \E h \in Hash, cfg \in InputConfig \cup {With(Top.store.default, a)} :
         \/ StoreCode(a, h, cfg)
         \/ \E admin \in InputAdmin, l \in Label :
              StoreAndInstantiateContract(a, h, cfg, admin, l)
         \/ \E c \in Contract : StoreAndMigrateContract(a, h, cfg, c)
    \/ \E id \in CodeID, admin \in InputAdmin, l \in Label :
         \/ InstantiateContract(a, id, admin, l)
         \/ \E s \in Salt : InstantiateContract2(a, id, admin, l, s)
    \/ \E c \in Contract :
         \/ ExecuteContract(a, c)
         \/ SudoContract(a, c)
         \/ \E id \in CodeID : Migrate(a, c, id)
         \/ \E admin \in InputAdmin : SetContractAdmin(a, c, admin)
         \/ \E l \in Label : UpdateContractLabel(a, c, l)
    \/ \E id \in CodeID, cfg \in InputConfig : UpdateInstantiateConfig(a, id, cfg)
    \/ \E cfg \in InputConfig, t \in InputDefault : UpdateParams(a, cfg, t)
    \/ \E S \in {T \in SUBSET User : ValidAddresses(T)} :
         \/ AddCodeUploadParamsAddresses(a, S)
         \/ RemoveCodeUploadParamsAddresses(a, S)
    \/ \E ids \in InputPin : PinCodes(a, ids) \/ UnpinCodes(a, ids)

Next ==
  \/ stack # << >> /\ Message
  \/ BeginTx \/ BeginSubmessage \/ MessageFails
  \/ CommitSubmessage \/ DropSubmessage \/ EndTx \/ Restart
  \/ \E a \in Contract, k \in InputAccount : CreateAccount(a, k)

Spec == Init /\ [][Next]_vars

----------------------------------------------------------------------------
(* Properties.  A property of a store is asked of the committed store and  *)
(* of every branch, since a contract or a query in a branch relies on it.  *)

TypeOK ==
  /\ committed \in Store
  /\ stack \in Seq(Frame)
  /\ position \in Position
  /\ vmCodes \subseteq Hash
  /\ vmPinned \subseteq Hash

Stores == {committed} \cup {stack[i].store : i \in DOMAIN stack}

Live(store) == {a \in Contract : HasContract(store, a)}

CodeIndexExactIn(store) ==
  store.byCode =
    {<<store.contracts[a].code,
       mustGetLastContractHistoryEntry(store.history, a).updated, a>> : a \in Live(store)}

\* ContractsByCode reads the code index.  It lists every contract exactly
\* once, under the code it runs now, however often a contract is migrated
\* and even if it is migrated to and fro within one position, where the
\* entry removed and the entry added can be the same key.
CodeIndexExact == \A store \in Stores : CodeIndexExactIn(store)

CreatorIndexExactIn(store) ==
  store.byCreator =
    {<<store.contracts[a].creator, store.contracts[a].created, a>> : a \in Live(store)}

\* ContractsByCreator: the creator index lists every contract exactly once,
\* under its creator and creation position.
CreatorIndexExact == \A store \in Stores : CreatorIndexExactIn(store)

HistoryTellsContractIn(store) ==
  \A a \in Contract :
    LET h == store.history[a] IN
    IF HasContract(store, a)
    THEN /\ h # << >>
         /\ h[1].operation = "Init" /\ h[1].updated = store.contracts[a].created
         /\ h[Len(h)].code = store.contracts[a].code
         /\ \A i \in 1..(Len(h) - 1) : h[i].updated <= h[i + 1].updated
    ELSE h = << >>

\* "all contracts have a history" (mustGetLastContractHistoryEntry panics
\* otherwise): it begins with the instantiation, ends with the code the
\* contract runs, and its positions never go back.
HistoryTellsContract == \A store \in Stores : HistoryTellsContractIn(store)

PortIffCallbacksIn(store) ==
  \A a \in Live(store) :
    /\ store.contracts[a].port <=> HashOf(store, store.contracts[a].code) \in IBCHash
    /\ store.contracts[a].port => a \in store.ports

\* A contract owns an IBC port exactly if its current code has the IBC entry
\* points, and then the port is bound: no upgrade path leaves a channel end
\* without callbacks, or callbacks without a port.
PortIffCallbacks == \A store \in Stores : PortIffCallbacksIn(store)

\* The next classic address is unused whatever code is instantiated next:
\* instantiate says that ErrDuplicate "must only happen for instantiate2".
ClassicAddressUnused ==
  \A store \in Stores : \A c \in CodeID : store.seqInst \in InstanceID =>
    ~HasContract(store, ClassicAddress(c, store.seqInst))

\* Ids are dense and every reference resolves: codes are exactly those below
\* the sequence, contracts run existing codes, pinned codes exist, and
\* wasmvm still has on disk the code of every id, however many
\* transactions were dropped or restarts happened in between.
ReferencesResolve ==
  \A store \in Stores :
    /\ \A c \in CodeID : HasCode(store, c) <=> c < store.seqCode
    /\ \A a \in Live(store) : HasCode(store, store.contracts[a].code)
    /\ \A c \in store.pinned : HasCode(store, c)
    /\ \A c \in CodeID : HasCode(store, c) => HashOf(store, c) \in vmCodes
    /\ vmPinned \subseteq vmCodes

\* Nobody holds a key of a contract's account, and it is no vesting account.
ContractAccountPlain ==
  \A store \in Stores : \A a \in Live(store) : store.accounts[a] = "base"

\* A context carries more than the default policy only inside a message
\* signed by the authority, and never the authority's own policy.
PolicyFromAuthority ==
  \A i \in DOMAIN stack :
    /\ stack[i].policy # GovPolicy /\ stack[i].subPolicy # GovPolicy
    /\ (stack[i].policy # DefaultPolicy \/ stack[i].subPolicy # DefaultPolicy)
          => stack[1].sender = Authority

Extends(h, g) == Len(h) <= Len(g) /\ \A i \in DOMAIN h : g[i] = h[i]

Grows(old, new) ==
  /\ \A a \in Live(old) :
       /\ a \in Live(new)
       /\ new.contracts[a].creator = old.contracts[a].creator
       /\ new.contracts[a].created = old.contracts[a].created
       /\ old.contracts[a].port => new.contracts[a].port
       /\ Extends(old.history[a], new.history[a])
  /\ \A c \in CodeID : HasCode(old, c) =>
       /\ HasCode(new, c)
       /\ HashOf(new, c) = HashOf(old, c)
       /\ new.codes[c].creator = old.codes[c].creator
  /\ new.seqCode >= old.seqCode
  /\ new.seqInst >= old.seqInst

\* What a transaction leaves behind: contracts and codes are never removed
\* or taken over, histories and sequences only grow, a port is kept.
RegistryGrows == [][Grows(committed, committed')]_vars

\* A contract without an admin changes only below a message signed by the
\* authority: nobody else, directly or through any chain of contracts, can
\* migrate it or give it an admin.
AdminlessIsImmutable ==
  [][\A a \in Contract :
       (/\ stack # << >> /\ Len(stack') = Len(stack)
        /\ HasContract(Top.store, a)
        /\ Top.store.contracts[a].admin = NoActor
        /\ Top'.store.contracts[a] # Top.store.contracts[a])
       => stack'[1].sender = Authority]_vars
============================================================================
