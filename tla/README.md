# Formal models of x/wasm

TLA+ specifications of the CosmWasm module of this repository (`x/wasm`, with
the parts of `wasmvm` it relies on), the TLC models that check them on small
instances and TLAPS proofs that hold for every instance.

## The system

`x/wasm` lets a Cosmos chain store WebAssembly code, create contracts from it
and run them. A transaction reaches the message server
(`keeper/msg_server.go`), which selects an authorization policy and calls the
keeper (`keeper/keeper.go`). The keeper changes its registry and calls the
contract in `wasmvm`. The contract's response goes to the message dispatcher
(`keeper/msg_dispatcher.go`), which runs the submessages in it, one after the
other, each in a branch of the store, and tells the contract (`reply`) how
they ended. Submessages go through a chain of message handlers
(`keeper/handler_plugin.go`) back to the message server, to another module of
the chain, or out to IBC. `ibc-go` calls the module's IBC handler (`ibc.go`),
which calls the contract through the keeper (`keeper/relay.go`).

| Part | State | Operations | What makes it hard |
|---|---|---|---|
| Registry | codes, contracts, history, indexes by code and by creator, sequences, pins, parameters; byte code and pin cache in wasmvm | store, instantiate (classic and predictable address), migrate, admin, label, access configuration, pins, parameters, sudo | index keys without an operation number; branches that are dropped while wasmvm's cache is not; restarts; accounts that exist before the contract |
| Access control | access configurations, policies in the context | `Allowed`, `IsSubset`, `Can...`, `SubMessageAuthorizationPolicy` | policies handed down through nested calls |
| Dispatcher | contexts, gas meters, event managers, responses in progress | dispatch, gas limits, commit and drop, reply, out-of-gas recovery | failure after partial writes at any depth; replies to replies; gas at the limit; panics through several loops |
| IBC | channels, capabilities, receipts, acknowledgements, delayed packets, commitments | handshake, close, receive, acknowledge, time out, send, write acknowledgement, callbacks | callbacks that fail and are delivered again; acknowledgement now, later or never; error or panic keep different state |
| Gas register | none | costs, conversions | rounding and overflow |
| Authz grants | grants | accept and update | several limits that run out |
| Ante handlers | transaction counter, simulation gas limit | count, limit | later handlers fail; restarts in a block |
| Message handlers | none | encode, validate, check signers, route | a chain of handlers with errors that mean "next"; many encoders |
| Protobuf types | none | size, encode, decode | sizes and tags that must agree; unknown fields; messages cut short |
| Genesis, snapshots, migrations | all of the above | export and import, snapshot and restore, upgrade | order of restore; partial restore |
| Queries | query stack depth, gas | smart, raw and chain queries | recursion, gas of sub-queries |
| wasmvm bindings | iterator table, memory handed over | calls, callbacks | concurrent calls; errors inside callbacks |

`PROJECT.json` lists all components with their sources, the hazards at the
lines where they bite, and which definitions model which lines.

## Modules

| Module | Models |
|---|---|
| `AccessControl` | `AccessConfig` and the three authorization policies |
| `Registry` | the registry, with transactions, nested branches and restarts |
| `RegistryProofs` | proofs about `Registry`, `StateSync` and `Genesis` |
| `NestedTx` | abstract specification: nested transactions |
| `Dispatcher` | message dispatcher with gas, events and replies; implements `NestedTx` |
| `DispatcherProofs` | the proof that it does, and proofs about its gas limits |
| `DispatcherEffects` | proofs about replies, data, state and events in `Dispatcher` |
| `Ibc` | IBC handler, relay and raw packet handler |
| `IbcProofs` | proofs about `Ibc` |
| `Genesis` | export and import of the registry, on top of `Registry` |
| `StateSync` | snapshot and restore of byte code, on top of `Registry` |
| `Authz` | the authorizations the module adds to `x/authz` |
| `Queries` | gas and depth of calls with queries inside: gas register, meters, discounts |
| `QueriesProofs` | proofs about `Queries` |
| `VmCalls` | calls through the Go and Rust halves of wasmvm: iterator table, vectors, errors |
| `VmCallsProofs` | proofs about `VmCalls` |
| `WireForms`, `WireTypes`, `WireTx`, `WireQuery`, `WireProposal`, `WireLegacy` | the fields of every protobuf message, as `Size`, `MarshalToSizedBuffer` and `Unmarshal` treat them |
| `Wire` | the generated encoding and decoding of those messages |
| `Codec` | a message encoded, changed on its way and decoded |
| `Upgrade` | the store migrations to version 4, on the bytes earlier versions stored |
| `Ante` | the transaction counter over blocks |
| `AdmissionProofs` | proofs about `Authz` and `Ante` |
| `Validation` | `ValidateBasic` of the messages of the module |
| `Messages` | message handlers and encoders: how a message of a contract is performed |
| `Loops` | induction over the rounds of a loop, for the proofs |
| `MC...` | instances for TLC |

### Registry and AccessControl

`committed` is the multistore after the last transaction. `stack` holds the
branches of the transaction that runs, outermost first: the branch of the
transaction, and one for each nested submessage (`CacheContext`). Each message
of the Msg service is an action on the top branch that does all its handler
does: policy selection, permission checks, early returns, index and history
updates, port binding, and the call of the contract, whose result is a choice.
A contract that was called (`running`) can send submessages, with the policy
its handler hands down. `BeginSubmessage`, `CommitSubmessage`,
`DropSubmessage` and `MessageFails` follow the dispatcher; `BeginTx` and
`EndTx` are `baseapp`. `vmCodes` and `vmPinned` stand for what wasmvm keeps on
disk and in memory, which no branch undoes. `Restart` empties the memory and
runs `InitializePinnedCodes`. `CreateAccount` puts an account at an address,
possibly before a contract gets it.

Addresses are tuples of what is hashed, so they are equal exactly if the
inputs are. Positions are numbers: a transaction's height and index. Messages,
funds and labels are abstract.

Runs:

* `registry_state`: both secondary indexes and the history describe exactly
  the stored contracts, in the committed store and in every branch
  (`CodeIndexExact`, `CreatorIndexExact`, `HistoryTellsContract`); a
  contract owns a bound port exactly if its code has the IBC entry points
  (`PortIffCallbacks`), and every id resolves down to the byte code on disk
  (`ReferencesResolve`). Two codes with two checksums, one of them with entry
  points, one contract, three history entries and two positions allow
  migrating back and forth within a position and across positions, where keys
  collide if they can; with pins, dropped branches and restarts. The contract
  has no admin, so that the authority migrates it; changes of admin are in
  `genesis_round_trip` and in the theorems.
* `registry_policy`: nested calls of three levels from messages of users and
  of the authority. Elevated policies exist only below a message of the
  authority (`PolicyFromAuthority`), a contract without admin changes only
  there (`AdminlessIsImmutable`), and the next classic address is free
  (`ClassicAddressUnused`).

### Dispatcher and NestedTx

`Dispatcher` follows one transaction through the recursion
execute, `handleContractResponse`, `DispatchSubmessages`, `DispatchMsg`,
execute, and `DispatchSubmessages`, `reply`. The Go stack becomes `frames`
(the responses whose submessages are being dispatched) and a register `step`
(the call, result or panic in progress). `contexts` is the stack of cached
contexts, each with what was written and emitted in it and the call depth;
`meters` the stack of gas meters. `DispatchSubmessages` is split where it calls
something: `DispatchSubmessage` up to `DispatchMsg`, `ChargeLimited` and
`RecoverOutOfGas` for `dispatchMsgWithGasLimit`, `SubmessageSucceeds` and
`SubmessageFails` after it, `Reply`, and `ResponseReturns` or `ResponseFails`
at the end of the loop. Each run of a contract writes its number to the store,
also if it fails half-way, and emits it if it succeeds.

`NestedTx` says what this is for: a tree of calls whose branches are written
back as a whole or not at all, and never after a failure inside. The
refinement maps contexts to branches; a branch is doomed while an error or a
panic is on its way out of it.

Runs:

* `dispatch`: two contracts, a submessage with every kind of reply, or two of
  which the first asks to hear of success or of an error, gas limits of zero,
  below and above what is left, runs of two costs, failure anywhere. Dropped submessages leave neither state nor events
  (`RevertedLeavesNoTrace`), state and events come from the same runs in the
  same order (`EventsMatchState`), contracts are told as they asked
  (`RepliesAsRequested`) and data is the contract's own (`DataIsOwn`). Limits
  fit into what is left and the subtraction that finds it never goes below
  zero (`LimitFits`), all work is paid (`WorkIsPaid`), `NestedTx` is implemented
  (`ImplementsNestedTx`) and every transaction ends (`TxEnds`).

`TxGas` bounds the length of a transaction, as in the code; `MaxRun` is large
enough never to be reached. The fairness of `TxEnds` is weak fairness of the
whole next-state relation: a transaction runs in one thread that does not stop
by itself. Gas is what ends it, since replies to replies are not bounded by
the call depth.

### Ibc

`chain` is what one chain stores: channel ends, the capabilities the module
has claimed, receipts, acknowledgements, packets with a delayed
acknowledgement, commitments of packets sent, and three fields for what
contracts wrote about them (`view`, `handled`, `told`). A handler of
`IBCHandler` is an operator that gives the possible results of the call, with
the chain as far as it was written; the messages of `ibc-go`'s core, which are
the actions, keep or drop it. The core is external: it is modelled from what
the handler's comments and calls assume, for unordered channels. Contracts
answer with an error, a response that sends packets, writes acknowledgements
or fails at some point, or make the VM fail.

Runs:

* `ibc`: two contracts, two channels, a packet in each direction on each. What
  the contract keeps agrees with what the sender is told (`AckTellsState`), and
  the contract is told of the end of each packet once (`ToldOnce`). Core,
  module and contracts agree on each channel (`ChannelsAgree`), and a packet
  waits in the store of the right contract exactly until it is acknowledged
  (`AsyncUntilAcked`). Channels are interchangeable, so they are symmetric.
* `ibc_rejected` finds a violation, see Findings.

### Genesis

`Genesis` adds to `Registry` the export to a file (a record of sets) and the
start of a new chain from it, with the checks of `InitGenesis` as `CanInit`
and what it writes as `InitGenesis`. The new chain goes on where the old one
stopped or with heights that start again. Run `genesis_round_trip`: whatever
led to the committed store, the export is accepted and gives the same registry,
with both indexes, the pins and the sequences (`ExportReimports`). One export,
then further transactions and another test of the export: the new chain may be
at a lower position than the history it imported. The same run covers both
kinds of address, with accounts created before the contract: contracts are not
replaced, also not across the import (`RegistryGrows`), and live on accounts
nobody holds a key of (`ContractAccountPlain`).

### StateSync

`StateSync` adds the snapshotter, which walks through the codes of a past
height while transactions and restarts go on, and a replica that restores what
was written, item by item, and then pins what is marked, code by code
(`PinCode`). A restore may fail between items or between pins and be tried again
on the directory it left, by the same process, which keeps its pins, or by a new
one. Run `state_sync`: a snapshot never lacks a byte code
(`SnapshotNeverFails`) and a restored node has all byte code and has pinned all
that is marked at its height (`RestoredCanRun`). Three codes with two checksums,
so that a checksum is seen twice, one snapshot, two attempts.

### Authz

One granter and one grantee. `stored` holds the authorization for each type of
message with what was done under it; `tx` is the branch of a running
transaction. `Execute` is `ContractExecutionAuthorization.Accept` and its
migration twin, with the loop over the grants in `AcceptGrantedMessage`;
`StoreCode` the upload. `x/authz`, which stores the answer, is external. Run
`authz`: grants are not used beyond their limits over several transactions,
some of which fail, and the list holds in order exactly the grants that have
something left, each with the difference (`WithinBudget`); a message is
accepted if some grant permits it and refused otherwise, never answered with an
error of a limit (`AcceptsPermitted`); uploads get no wider permission than
granted (`UploadWithinGrant`). Lists with
two grants for the same contract around one for another, limits that run out
by calls, by one denomination or by both; two transactions of two messages.

### Queries

`calls` is the stack of contract calls, the first a transaction or a client's
query, the others smart queries of the call before. Each has a meter (`limit`,
`consumed`, in SDK gas) and the VM's account (`vmLimit`, `internal`,
`external`, in VM gas). `Enter` is `execute` or `QuerySmart` up to the VM,
`Access`, `ChainQuery` and `SmartQuery` are callbacks, `VmReturns` is
`DeserializeResponse`, `ChargeRuntime` is `consumeRuntimeGas`, `QueryReturns`
the deferred charge of `QueryHandler.Query` and `ChargeEvents` the start of
`handleContractResponse`. The engine's metering is external. Run `queries`:
what a contract uses can be paid by its meter, including the limit of the
query inside (`PayableWork`); at the end everything done is charged, up to the
gas limit and rounding (`AllIsCharged`); queries nest as deep as allowed
(`NestingBounded`). `AllIsCharged` includes the events at their price, with the
free tier for attributes, and the first load of each contract in full: `ran` is
what the VM has really run for the call from outside, while `loaded` is the set
`TxContracts` that gives discounts. Submessages are not modelled here; what
their gas limits do to discounts is under Findings. `Word` stands
for 2^64 and is 40; gas limits lie below the overflow, at it, and where the
test for overflow in `ToWasmVMGas` does not notice it (`x < source` misses
products that wrap around to a larger number). `PayableWork` holds there too:
the VM gets less gas than it could. Two calls from outside, so that a
transaction could inherit the discounts of another one, which `AllIsCharged`
would notice.

### VmCalls

`stacks` holds, per thread, the calls it is in; `iteratorFrames` and
`latestCallID` are the table of `iterator.go`; `opened` is every iterator with
its state. A callback is one action from Rust to Go and back as far as no
other thread can see it happen in parts; the removal of a frame and the
closing of its iterators are separate because the mutex is released between
them. Run `vm_calls`: references lead to the right, open iterator
(`IteratorsResolve`), the table holds those of running calls
(`FramesOfRunningCalls`), and every vector is destroyed once on every path
(`VectorsDestroyed`). Three calls in two symmetric threads, nested twice, with
two iterators allowed and three callbacks. `vm_limit` finds a violation. The
calls are bounded by `MaxCall`, so both runs may come to a stop. `queries` is
bounded by `MaxTx` in the same way.

### Wire and Codec

The generated protobuf code is the largest part of the module and has one
shape, so its model separates the two things that can be wrong with it. The
shape (varints, tags, lengths, pointers, repeated fields, the loop over fields,
`skip` for unknown ones) is in `Wire`. What differs from message to message is
data: each message has three sequences of fields, one for each of its generated
functions, transcribed from that function: the tag byte `MarshalToSizedBuffer`
writes, the bytes `Size` counts for it, and the number `Unmarshal` recognises,
each with the form of the field (`WireForms`). The three are transcribed
separately because the code repeats them separately: what one writes and the
other reads need not agree, and the properties say that they do. As in the code,
the buffer has the length `Size` computes and is filled from its end.

`Codec` takes a message through `Write`, possibly one of `AddField` (a field of
a newer version), `SwapFields` (another implementation's order) and `Cut`, and
`Read`. `RoundTrips`: encoding does not panic and decoding gives back what was
sent. `CutNoticed`: a message that lost its end is refused, or ends between two
fields and no value is cut short. Every message of the module is taken, with
each field empty, short, and at the lengths where varints grow. Numbers are
below 2^31 (2^64 in the code), which leaves out the last five bytes of varints.

### Upgrade

`kv` holds the bytes of codes and parameters and the index by creator;
`Migrate1to2`, `Migrate2to3` and `Migrate3to4` of `keeper/migrations.go` are the
actions, each on what the version before stored, encoded and decoded with
`Wire`. The block of the upgrade runs on a branch, and a node that stops starts
it again. `UpgradeKeeps`: from every version no migration panics, the same
accounts may upload and instantiate as before, and the index is complete. Two
codes, three contracts, all kinds of access configuration.

### Ante

The decorator reads height and counter from the store, where they are kept as
digits (`encodeHeightCounter` with its fixed widths), and writes the next one.
Blocks run on a branch; transactions may be refused by a later decorator, whose
writes are dropped; `CheckTx` works on a branch of its own; `Restart` repeats
the block. `CounterIsPosition`: the counter a transaction runs with is its place
among those of its block that passed. Digits have base 2 and there are two of
each, so that three blocks of three transactions use all of them.

### Validation and Messages

`Messages` takes what a contract asks for through `MessageHandlerChain`:
`EncodeMsg` is `MessageEncoders.Encode` with each default encoder,
`SDKMessageHandler` the check (`ValidateBasic`, modelled in `Validation` for all
messages of the module), the signers and the router for one message after the
other, then `IBCRawPacketHandler` and `BurnCoinMessageHandler`. The modules
behind the router are external: they perform a message or fail, also with the
error that means "unknown" to the chain, which a contract further down may have
caused. A request is what the contract wrote: its variants (kind, name, coins,
or the bytes of a message of the module, encoded with `Wire`), each with whether
its values are fit. There should be one variant, but `UnmarshalJSON` accepts
several, and each handler takes the first that it knows. `DoneAsAsked`: a request
takes effect if and only if its values are fit and nobody failed, then exactly
what it asks for was done, in the contract's name and with the sums of its
coins; else nothing was. Of several variants exactly one is done, with the
exception under Findings. Texts are the cases that the checks tell apart, limits
on lengths and counts are 2, and at most one field is unusual at a time; every
variant is sent alone, and pairs are those of which different handlers know one.

Run `messages` checks `Codec`, `Upgrade`, `Ante` and `Messages`: a behaviour is
one of the four. They end, so deadlock is not checked.

## Findings

Two runs find what the code does against what is written about it:

* `ibc_rejected`: an error a contract returns when a channel is opened is
  dropped, and the channel opens with the proposed version.
* `vm_limit`: `cScan` may open an iterator which is then in no frame, so nothing
  closes it: when the store's charge for the first seek runs out of gas, and when
  the call has as many iterators as it may have.

Noted while modelling, without a run:

* `IsPinnedCode` reads a mark in the store, while its comment says that the
  code is pinned in wasmvm's cache. The cache is keyed by checksum and is not
  rolled back: an unpin that is dropped, or the unpinning of another code with
  the same checksum, leaves a marked code that is not cached. Only gas
  discounts depend on the mark.
* Adding and removing upload addresses stores parameters without validating
  them. Removing all of them leaves a list the validation rejects, and so does
  adding too many one by one.
* A comment in `wasmvm/types/ibc.go` says that an error result for a received
  packet does not inform the sender. The code writes an error acknowledgement.
* `MessageEncoders.Encode` calls the default encoder for governance messages
  also when another one is configured. The application configures none.
* A handler's "unknown message" error sends the message on to the next handler,
  also if it comes from a contract further down. If the message has one variant,
  as it should, the next ones do not know it either, so that only the error
  changes. With several, one of them may know another variant: an IBC message
  that closes a channel and sends a packet may leave what the contract wrote when
  told of the closing, and send the packet. `DoneAsAsked` allows for that.
* `checkDiscountEligibility` puts a contract into the set of the transaction
  before its cost is charged, and the set is not reverted with a submessage. A
  submessage whose gas limit is below that cost is charged its limit, and after a
  reply on error the next call of the contract gets the discount. The comment on
  `TxContracts` says that it holds contracts which "have already been executed".
* `AccessConfig.Allowed` compares the texts of addresses, while validation also
  accepts them in upper case: an address listed that way admits nobody.
* `InitGenesis` checks that the next classic address is unused by asking for
  the address with the instance sequence in the place of the code id, so a
  file whose sequence was edited to be too low is mostly accepted.

## Proofs

### Registry

The theorems in `RegistryProofs` hold for all sets of users, checksums, salts
and labels, all bounds and all inputs that satisfy `RegistryAssumption` and
`PropagateAssumption`.

`Invariance` proves the inductive invariant `IInv`: `StoreInv` holds of the
committed store and of every branch of the stack; the committed store is
contained in every branch (`Grows`); the byte code of every code is on disk
(`OnDisk`); and the policies on the stack are those its senders justify
(`PolicyInv`). `StoreInv` strengthens the checked properties with what they
depend on: positions in the history do not lie in the future, code ids are dense, pins and contracts refer to codes,
contracts at classic addresses have smaller instance numbers than the next, and
the account of a contract is a plain one.
Every branch must satisfy it because any branch may become the committed
store. The parameter `ordered` of the invariant says whether the positions in a
history are in order. They are on a chain that was never exported, and only
`HistoryIsFaithful` needs it: the indexes are exact without it, because the old
key is removed before the new one is written.

`RegistryProofs` shows first that the operations on indexes, history, codes and
pins, and instantiation and migration as a whole, preserve `StoreInv`, and then
for each message that its handler has an `Effect`: it
takes the top branch to one that satisfies `StoreInv`, has only grown, and
carries an admissible policy. Transactions, submessages, restarts and any
`Effect` preserve `IInv`, from which follow the theorems: `TypeCorrect`,
`CodeIndexIsExact`, `CreatorIndexIsExact`, `HistoryIsFaithful`,
`PortsMatchCallbacks`, `ContractAccountsArePlain`, `ClassicAddressesAreFresh`,
`ReferencesAlwaysResolve`, `PolicyOnlyFromAuthority`, `RegistryOnlyGrows` and
`AdminlessNeverChanges`.

### VmCalls

The theorems in `VmCallsProofs` hold for any set of threads, any limits on
calls, nesting and iterators and any gas (`VmCallsAssumption`). The checked
properties speak of running calls and are not inductive: that a reference leads
to the right iterator depends on the frame of the call, which other threads
change the table around. `IInv` says of every call, by its place on a stack:
which vectors exist at its stage (`VecInv`); until it takes its frame out of the
table, its references are the entries of its frame, in order (`RefsInv`);
afterwards it has none and what is open of its iterators is still to be closed
(`ClosingInv`). No two calls share an id (`IdsInv`), and a frame belongs to a
call and holds different open iterators of it (`FramesInv`).

Steps which leave references and table alone keep `IInv` (`QuietStep`), and each
callback and return is such a step. `OwnStep` is the same for steps that change
one's own frame (with `OthersAlone` for what all other calls see): `cScan`,
`cNext`, `removeFrame` and the closing of iterators. With calls that start and
return, this gives `IteratorsResolveAlways`,
`FramesOfRunningCallsAlways` and `VectorsDestroyedAlways`. A new id is fresh
because it exceeds all ids in use, which is what fails if ids were depths.

### Dispatcher

`DispatcherImplementsNestedTx` says that every behaviour of `Dispatcher` is one
of `NestedTx`, for any contracts, responses, gas and depth
(`DispatcherAssumption`). A step of the dispatcher maps to a step of the
abstract specification only in states that can be reached, so the proof carries
an invariant on the shape of the stacks: there is one context for each response
whose submessage runs, and one more; the store of the chain is empty while the
transaction runs; a context holds only writes of runs that came earlier, so that
a new run is new to every branch. One lemma per abstract step (a run that
writes, a branch that opens, is written back, or is dropped, and the end of the
transaction) says which change of contexts and step it needs, and one lemma per
action shows that it is one of them or a stutter.

Three invariants are added to that one (`GInv` in `DispatcherProofs`, the others
in `DispatcherEffects`), each kept by every action (`MetersStep`, `FramesStep`,
`TracesStep`) and none of them implied by the properties it is needed for:

- `FInv`, on responses: in all but the innermost response, every submessage dealt
  with was replied to as asked; of the innermost one the last submessage may
  still wait for its reply, or its failure is about to end the loop. Data is that
  of a run of the same contract, and every run has one owner. It gives
  `DispatcherReplies` and `DispatcherData`.
- `GInv`, on gas: the gas meters above the first belong, in order, to the
  responses whose submessage has a limit, and have that limit; each limit is
  below what is left on the meter underneath, so charging it never throws. `Paid`
  sums the meters up by recursion, so the invariant carries the partial sums:
  taking gas, pushing a meter and charging it to the one below change them at
  the end only, and never to less than the work done. It gives `DispatcherLimits`
  and `DispatcherPays`.
- `TInv`, on state and events: the events of a context are those of its writes,
  sorted by run; every write has an event that `filterEvents` passes on, in all
  contexts but one that is failing; what was written in an inner context is later
  than all that was written further out; nothing reverted is left anywhere. The
  order between contexts is what keeps events sorted when a context is committed,
  and what tells reverted writes from those below. That `filterEvents` keeps order
  and runs is an induction over its loop (`FilterEvents`). It gives
  `DispatcherReverts` and `DispatcherEvents`.

### Ibc

The theorems in `IbcProofs` hold for any number of contracts, channels, packets
and responses (`IbcAssumption`). A callback runs all messages of a response in
a loop, in the middle of a handler, so the invariant is stated for a chain with
a packet whose handler has not finished (`pending`): channels, capabilities and
what contracts heard agree (`ChannelsIn`), waiting packets are received and not
acknowledged (`AsyncIn`), acknowledgements match what was kept (`AcksIn`), every
packet sent is either committed or told of (`ToldIn`), and nothing is received
on a channel yet to be opened (`ReceivedLater`). Messages leave channels,
receipts and what contracts heard alone (`Alike`) and keep the rest of it
(`Kept`); so does the loop over them, by induction (`RoundInduction` of
`Loops`). One lemma per message of the core then follows the handler to each of
its results. This gives `ChannelsAgreed`, `AcksCanBeWritten`, `AcksAreTrue` and
`SendersAreTold`.

### StateSync

The last part of `RegistryProofs` builds on the invariant of `Registry`: byte
code is never removed from disk, so a snapshot that walks through the codes of
an old height finds all of it (`SnapshotsSucceed`). The payload holds the byte
code of all codes the walk has passed, and what a replica has on disk after an
attempt that failed is part of the payload. Since code ids are dense, a complete
payload has all of them; what is left to pin shrinks code by code, so that in the
end all that is marked at its height is pinned (`RestoredNodesRun`).

### Genesis

A chain started from an export may have lower heights than the history it
imported, so what is kept through exports is the invariant of the registry
without the order of positions (`GenesisInvariance`). It suffices:
`ExportAlwaysReimports` says that every committed store can be exported, that
`InitGenesis` accepts the file, and that it writes the store that was exported.
The argument goes field by field (`CodesReimport`, `ContractsReimport`,
`IndexesReimport`, `SequencesReimport`). Codes come back because their byte code
is on disk; the indexes, which are not in the file, because `importContract`
writes one entry per contract in each, from the last and from the first entry
of its history, and the invariant says that they were just that; the sequences
because code ids are dense and the next classic address is unused. Started from
the export, the new chain therefore satisfies the invariant again, and the
results on the registry hold through any number of exports
(`RegistryGrowsThroughExport`, `RegistrySoundThroughExport`,
`AccountsPlainThroughExport`).

### Authz

The theorems on `Authz` in `AdmissionProofs` hold for any contracts, coins,
messages and lists of grants (`AuthzAssumption`; grants are of type
`ContractGrant`, and the chain's default permission is an access type). The list
of grants changes with every use and forgets what it was, so the state keeps the
list it began as, and for each grant in use its place in that list. `BudgetInv`
relates the two: each grant left is the one granted at its place, less what was
done with it; places are in order; a place is missing exactly if nothing is left
there. Every list reached is therefore empty or valid, and no limit in it is
used up: this is why neither a limit nor the check of the updated list answers
with an error. Taking one message keeps it (`UsedInv`): `LimitAccepts` says
which of the three limits takes which funds and what remains, `Removed` and
`UpdatedShrinks` what that does to the list, `EndsAtIs` that the loop ends at
the first grant that takes the message or fails. `AuthzInv` demands `BudgetInv`
of every authorization that is stored and of the branch of the running
transaction, because a transaction that ends replaces one by the other, and says
of each code uploaded in it which grant admits it. From it follow
`GrantsStayWithinBudget`, `PermittedIsAccepted` and `UploadsStayWithinGrants`;
the last needs that a permission filled in by the chain is not wider than the
grant's, that is, that a grant with a permission refuses a message without one.

### Ante

`CountersArePositions` holds for every base and every number of digits, given
that heights and counters fit (`AnteAssumption`; in the code 256, eight and
four). Reading back what was encoded is an induction over the digits
(`NumberReadBack`: the first k digits are the number shifted). With it the
stored counter is that of the height it was stored at, or none, and never of a
later height (`IsStored`), so the first transaction of a block finds another
height and starts at 0. `BlockInv` says of the block that runs that the counter
on its branch is the number of transactions that passed. A restart drops the
branch and leaves the committed counter, which is of an earlier height; checks
write to a branch that no block reads.

### Queries

The theorems in `QueriesProofs` hold for every gas multiplier, word size, cost,
limit and response (`QueriesAssumption`). For a running call the meter and the VM
count in different units and the VM modulo `Word`: what is left on the meter, in
VM gas, equals what is left to the VM up to a multiple of the word (`Sound`).
That gives `WorkIsPayable`: the VM never has more than the meter can pay, also
where the conversion overflows unnoticed, and a query gets no more than that.

`WorkIsCharged` is about the sum of all work, which no single call knows. The
invariant `Shares` distributes the work and the ended VMs among the calls on the
stack: the share of each is charged to its meter or still counted by its VM, or
its limit is reached. When a query returns, its share goes to its caller with
its charge. A contract in `TxContracts` that the VM has not run yet (`Backlog`)
will be loaded at the reduced price, so what is distributed is more than the work:
it includes the full load of each of them (`Credit`), which the call that put it
there was charged for or has reached its limit over. If the query had reached its limit, so does the caller, because the
limit of a query is all that its caller's VM had left, rounded down by less
than the one SDK gas that each ended VM accounts for. `NestingIsBounded` follows
because the stack size in the context is the depth of the call.
`EventsChargedAtWorth` shows by induction over the events that
handing on the rest of the free tier charges the same as pricing all of them at
once.

### Loops

Recursive functions over data (the total of a list, the charge for events, the
messages of a response) are `LET` definitions of a function on `0..N`.
`LoopRuns` gives, for such a loop, the sequence of its values, and
`RoundInduction` shows that a set which holds 0 and with each round the next is
all of `0..N`; it rests on `LeastNumber`. They are about sets instead of
predicates because the provers do not instantiate operators.

### Only model-checked

`RoundTrips`, `CutNoticed`, `UpgradeKeeps` and `DoneAsAsked`, of the run
`messages`: they are about what the `RECURSIVE` operators of `Wire` compute,
which encode and decode nested messages and which the proof system cannot reason
about. `TxEnds` is a liveness property, also outside its reach. All other
properties of the passing runs are theorems.

## Not modelled

* Of the generated code: getters, `Equal`, descriptors, client and server stubs
  and the gateway. They hold no decisions. `Equal` is called by tests only.
* Of the wasmvm bindings: functions of the module cache (initialisation,
  metrics, analysis) beyond the byte code and pins in `Registry`, and the
  contents of responses. The engine is not in this repository.
* Query plugins and gRPC queries read the store and translate; only their gas
  and nesting is modelled. The accept list of stargate queries is a lookup.
* The gas limit of simulations and the gas register in the context: each
  replaces one value in the context.
* Gas of replies, of compilation and of decompression, and infinite meters.
* The stateless validation of genesis files, and the state of contracts in them.
* Legacy proposal handlers, which the application does not route; their
  encoding is in `WireProposal`.
* Command line, simulation and application wiring.

Four hazards in `PROJECT.json` have no property, because the code lets them
happen: pins that a dropped branch leaves in the cache, codes that share a
checksum and pins, parameters changed without validation, and discounts after a
failed submessage (all under Findings).

## Running

    tlc -config RegistryState.cfg MCRegistry
    tlapm RegistryProofs.tla

The name of a run in `PROJECT.json` gives its module and configuration.
