------------------------------ MODULE Genesis ------------------------------
(***************************************************************************)
(* Export of the registry to a genesis file and the start of a new chain   *)
(* from such a file, which the new chain then goes on using.  A file is a  *)
(* record; its lists of codes and contracts are sets, because InitGenesis  *)
(* fails or succeeds, and writes the same, in whatever order they come.    *)
(* The state of a contract is left out.  Accounts and port capabilities    *)
(* are exported and imported by the modules that own them.                 *)
(***************************************************************************)
EXTENDS Registry

CONSTANT MaxExport     \* bound: exports

ASSUME GenesisAssumption == MaxExport \in Nat

VARIABLE exports   \* how often the chain was exported

genesisVars == <<vars, exports>>

\* GetByteCode panics the export if wasmvm does not have the code.
ExportGenesis(store) ==
  [codes |->
     {[id |-> c, info |-> store.codes[c], bytes |-> HashOf(store, c),
       pinned |-> c \in store.pinned] : c \in {d \in CodeID : HasCode(store, d)}},
   contracts |->
     {[address |-> a, info |-> store.contracts[a], history |-> store.history[a]] :
        a \in {b \in Contract : HasContract(store, b)}},
   seqCode |-> store.seqCode,
   seqInst |-> store.seqInst,
   upload  |-> store.upload,
   default |-> store.default]

CanExport(store) ==
  \A c \in CodeID : HasCode(store, c) => HashOf(store, c) \in vmCodes

----------------------------------------------------------------------------
(* InitGenesis.  The operators are its checks, and what it writes.         *)

\* importCode: the bytes have the checksum, and the id is new.
CodesImport(g) ==
  \A x, y \in g.codes : x.bytes = x.info.hash /\ (x.id = y.id => x = y)

\* importContract
ContractsImport(g) ==
  \A x, y \in g.contracts :
    /\ \E code \in g.codes : code.id = x.info.code
    /\ x.history # << >>
    /\ x.address = y.address => x = y

\* The sanity checks at the end.  The second one asks the address generator
\* for the address of a contract with code id seqInst.
SequencesImport(g) ==
  /\ \A x \in g.codes : x.id < g.seqCode
  /\ \A x \in g.contracts : x.address # ClassicAddress(g.seqInst, g.seqInst)

CanInit(g) == CodesImport(g) /\ ContractsImport(g) /\ SequencesImport(g)

\* The creator index of importContract goes by the first history entry.
IndexedAt_Last(contract) == contract.history[Len(contract.history)].updated
IndexedAt(contract) == contract.history[1].updated

\* importContract for all contracts of the file: the code index goes by the
\* last history entry.
importContracts(store, g) ==
  LET at(a) == CHOOSE x \in g.contracts : x.address = a
      addresses == {x.address : x \in g.contracts}
  IN
  [store EXCEPT
     !.contracts = [a \in Contract |-> IF a \in addresses THEN at(a).info ELSE NoContract],
     !.history = [a \in Contract |-> IF a \in addresses THEN at(a).history ELSE << >>],
     !.byCode = UNION {addToContractCodeSecondaryIndex(
                         {}, x.address, x.history[Len(x.history)]) : x \in g.contracts},
     !.byCreator = UNION {addToContractCreatorSecondaryIndex(
                            {}, x.info.creator, IndexedAt(x), x.address) :
                            x \in g.contracts}]

importCodes(store, g) ==
  LET at(c) == CHOOSE x \in g.codes : x.id = c
      ids == {x.id : x \in g.codes}
  IN
  [store EXCEPT
     !.codes = [c \in CodeID |-> IF c \in ids THEN at(c).info ELSE NoCode],
     !.pinned = {x.id : x \in {y \in g.codes : y.pinned}}]

\* importAutoIncrementID and SetParams
importSequences(store, g) ==
  [store EXCEPT !.seqCode = g.seqCode, !.seqInst = g.seqInst,
                !.upload = g.upload, !.default = g.default]

InitGenesis(g, accounts, ports) ==
  LET store == [EmptyStore EXCEPT !.accounts = accounts, !.ports = ports]
  IN  importSequences(importContracts(importCodes(store, g), g), g)

----------------------------------------------------------------------------
\* The chain is exported between two blocks and a new one started from the
\* file on a machine with an empty wasmvm directory.  Heights go on from
\* the exported one, or start again (forZeroHeight).
StartFromExport ==
  LET g == ExportGenesis(committed) IN
  /\ stack = << >>
  /\ exports < MaxExport
  /\ CanExport(committed)
  /\ CanInit(g)
  /\ committed' = InitGenesis(g, committed.accounts, committed.ports)
  /\ position' \in {0, position}
  /\ vmCodes' = {x.bytes : x \in g.codes}
  /\ vmPinned' = {x.info.hash : x \in {y \in g.codes : y.pinned}}
  /\ exports' = exports + 1
  /\ UNCHANGED stack

GenesisInit == Init /\ exports = 0

GenesisNext == (Next /\ UNCHANGED exports) \/ StartFromExport

GenesisSpec == GenesisInit /\ [][GenesisNext]_genesisVars

----------------------------------------------------------------------------
\* ExportGenesis followed by InitGenesis: whatever transactions, restarts
\* and earlier exports led to the committed store, it can be exported, the
\* file is accepted, and the new chain has the same registry, with both
\* indexes, the pins and the sequences.
ExportReimports ==
  LET g == ExportGenesis(committed) IN
  /\ CanExport(committed)
  /\ CanInit(g)
  /\ InitGenesis(g, committed.accounts, committed.ports) = committed
============================================================================
