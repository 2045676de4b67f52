-------------------------- MODULE RegistryProofs ---------------------------
(***************************************************************************)
(* The inductive invariants of Registry, StateSync and Genesis, for every  *)
(* value of the constants: what the store operators preserve and how they  *)
(* let a store grow, the effect of every message handler, the steps, and   *)
(* what follows.                                                           *)
(***************************************************************************)
EXTENDS StateSync, Genesis, TLAPS

----------------------------------------------------------------------------
(* Types.                                                                  *)

\* The fields of a store have their types.
LEMMA StoreFields ==
  ASSUME NEW s \in Store
  PROVE  /\ s.codes \in [CodeID -> CodeInfo \cup {NoCode}]
         /\ s.contracts \in [Contract -> ContractInfo \cup {NoContract}]
         /\ s.history \in [Contract -> Seq(HistoryEntry)]
         /\ s.byCode \subseteq CodeID \X Position \X Contract
         /\ s.byCreator \subseteq Actor \X Position \X Contract
         /\ s.accounts \in [Contract -> AccountKind]
         /\ s.ports \subseteq Contract
         /\ s.pinned \subseteq CodeID
         /\ s.seqCode \in Nat
         /\ s.seqInst \in Nat
         /\ s.upload \in AccessConfig(Actor)
         /\ s.default \in AccessType
  BY Zenon DEF Store

\* A history extends itself.
LEMMA HistoryKept ==
  ASSUME NEW h \in Seq(HistoryEntry)
  PROVE  Extends(h, h)
  <1>1. Len(h) <= Len(h)
    OBVIOUS
  <1> QED
    BY <1>1, Zenon DEF Extends

\* What each store operator leaves in each field.
LEMMA CreateFields ==
  ASSUME NEW s \in Store, NEW a \in Actor, NEW h \in Hash,
         NEW access \in AccessConfig(Actor), s.seqCode \in CodeID,
         NEW t, t = Create(s, a, h, access)
  PROVE  /\ t \in Store
         /\ t.codes = [s.codes EXCEPT ![s.seqCode] =
                         [hash |-> h, creator |-> a, access |-> access]]
         /\ t.seqCode = s.seqCode + 1
         /\ t.contracts = s.contracts /\ t.history = s.history
         /\ t.byCode = s.byCode /\ t.byCreator = s.byCreator
         /\ t.accounts = s.accounts /\ t.ports = s.ports
         /\ t.pinned = s.pinned /\ t.seqInst = s.seqInst
  <1> DEFINE info == [hash |-> h, creator |-> a, access |-> access]
  <1>1. info \in CodeInfo
    BY Zenon DEF CodeInfo
  <1>2. [s.codes EXCEPT ![s.seqCode] = info] \in [CodeID -> CodeInfo \cup {NoCode}]
    BY <1>1, StoreFields, Zenon
  <1>3. s.seqCode + 1 \in Nat
    BY StoreFields
  <1>4. t = [s EXCEPT !.codes[s.seqCode] = info, !.seqCode = @ + 1]
    BY Zenon DEF Create
  <1> HIDE DEF info
  <1>5. /\ t \in Store
        /\ t.codes = [s.codes EXCEPT ![s.seqCode] = info]
        /\ t.seqCode = s.seqCode + 1
        /\ t.contracts = s.contracts /\ t.history = s.history
        /\ t.byCode = s.byCode /\ t.byCreator = s.byCreator
        /\ t.accounts = s.accounts /\ t.ports = s.ports
        /\ t.pinned = s.pinned /\ t.seqInst = s.seqInst
    BY <1>2, <1>3, <1>4, Zenon DEF Store
  <1> QED
    BY <1>5, Zenon DEF info

\* mustAutoIncrementID moves the instance sequence on and nothing else.
LEMMA NextInstanceFields ==
  ASSUME NEW s \in Store, NEW t, t = NextInstance(s)
  PROVE  /\ t \in Store
         /\ t.seqInst = s.seqInst + 1
         /\ t.codes = s.codes /\ t.seqCode = s.seqCode
         /\ t.contracts = s.contracts /\ t.history = s.history
         /\ t.byCode = s.byCode /\ t.byCreator = s.byCreator
         /\ t.accounts = s.accounts /\ t.ports = s.ports
         /\ t.pinned = s.pinned
  <1>1. s.seqInst + 1 \in Nat
    BY StoreFields
  <1> QED
    BY <1>1, Zenon DEF NextInstance, Store

InstantiatedFieldsAre(t, s, a, id, creator, admin, label, isIBC) ==
  /\ t \in Store
  /\ t.contracts = [s.contracts EXCEPT ![a] =
       [code |-> id, creator |-> creator, admin |-> admin,
        created |-> position, label |-> label, port |-> isIBC]]
  /\ t.history = [s.history EXCEPT ![a] = Append(@,
       [operation |-> "Init", code |-> id, updated |-> position])]
  /\ t.byCode = s.byCode \cup {<<id, position, a>>}
  /\ t.byCreator = s.byCreator \cup {<<creator, position, a>>}
  /\ t.accounts = [s.accounts EXCEPT ![a] = TakenOver(@)]
  /\ t.ports = IF isIBC THEN s.ports \cup {a} ELSE s.ports
  /\ t.codes = s.codes /\ t.seqCode = s.seqCode
  /\ t.pinned = s.pinned /\ t.seqInst = s.seqInst

\* instantiate writes the fields InstantiatedFieldsAre lists.
LEMMA InstantiatedFields ==
  ASSUME NEW s \in Store, NEW a \in Contract, NEW id \in CodeID,
         NEW creator \in Actor, NEW admin \in Actor \cup {NoActor},
         NEW label \in Label, position \in Position,
         NEW isIBC \in BOOLEAN, isIBC = (HashOf(s, id) \in IBCHash)
  PROVE  InstantiatedFieldsAre(Instantiated(s, a, id, creator, admin, label),
                               s, a, id, creator, admin, label, isIBC)
  <1> DEFINE t == Instantiated(s, a, id, creator, admin, label)
             entry == [operation |-> "Init", code |-> id, updated |-> position]
             info == [code |-> id, creator |-> creator, admin |-> admin,
                      created |-> position, label |-> label, port |-> isIBC]
             accounts == [s.accounts EXCEPT ![a] = TakenOver(@)]
             ports == IF isIBC THEN s.ports \cup {a} ELSE s.ports
             byCode == s.byCode \cup {<<id, position, a>>}
             byCreator == s.byCreator \cup {<<creator, position, a>>}
             history == [s.history EXCEPT ![a] = Append(@, entry)]
             contracts == [s.contracts EXCEPT ![a] = info]
  <1>1. entry \in HistoryEntry /\ entry.code = id /\ entry.updated = position
    BY Zenon DEF HistoryEntry
  <1>2. info \in ContractInfo
    BY Zenon DEF ContractInfo
  <1>3. t = [s EXCEPT !.accounts = accounts, !.ports = ports, !.byCode = byCode,
               !.byCreator = byCreator, !.history = history, !.contracts = contracts]
    BY <1>1, Zenon DEF Instantiated, ensureIbcPort, addToContractCodeSecondaryIndex,
           addToContractCreatorSecondaryIndex, appendToContractHistory
  <1>4. accounts \in [Contract -> AccountKind]
    BY StoreFields, Zenon DEF TakenOver, AccountKind
  <1>5. ports \subseteq Contract
    BY StoreFields, Zenon
  <1>6. byCode \subseteq CodeID \X Position \X Contract
    BY StoreFields
  <1>7. byCreator \subseteq Actor \X Position \X Contract
    BY StoreFields
  <1>8. history \in [Contract -> Seq(HistoryEntry)]
    <2> HIDE DEF entry
    <2>1. Append(s.history[a], entry) \in Seq(HistoryEntry)
      BY <1>1, StoreFields
    <2> QED
      BY <2>1, StoreFields, Zenon
  <1>9. contracts \in [Contract -> ContractInfo \cup {NoContract}]
    <2> HIDE DEF info
    <2> QED
      BY <1>2, StoreFields, Zenon
  <1> HIDE DEF t, accounts, ports, byCode, byCreator, history, contracts
  <1>10. /\ t \in Store
         /\ t.contracts = contracts /\ t.history = history
         /\ t.byCode = byCode /\ t.byCreator = byCreator
         /\ t.accounts = accounts /\ t.ports = ports
         /\ t.codes = s.codes /\ t.seqCode = s.seqCode
         /\ t.pinned = s.pinned /\ t.seqInst = s.seqInst
    <2> HIDE DEF entry, info
    <2> USE DEF Store
    <2>1. DOMAIN t = DOMAIN s
      BY <1>3, Zenon
    <2>2. /\ t.contracts = contracts /\ t.history = history
         /\ t.byCode = byCode /\ t.byCreator = byCreator
         /\ t.accounts = accounts /\ t.ports = ports
         /\ t.codes = s.codes /\ t.seqCode = s.seqCode
         /\ t.pinned = s.pinned /\ t.seqInst = s.seqInst
      BY <1>3, Zenon
    <2> QED
      BY Zenon, <1>3, <1>4, <1>5, <1>6, <1>7, <1>8, <1>9, <2>1, <2>2
  <1> QED
    BY <1>10, Zenon DEF InstantiatedFieldsAre, t, accounts, ports, byCode, byCreator, history, contracts

MigratedFieldsAre(t, s, a, id, isIBC) ==
  /\ t \in Store
  /\ t.contracts = [s.contracts EXCEPT ![a] =
       [s.contracts[a] EXCEPT !.code = id, !.port = @ \/ isIBC]]
  /\ t.history = [s.history EXCEPT ![a] = Append(@,
       [operation |-> "Migrate", code |-> id, updated |-> position])]
  /\ t.byCode =
       (s.byCode \ {<<s.history[a][Len(s.history[a])].code,
                      s.history[a][Len(s.history[a])].updated, a>>})
       \cup {<<id, position, a>>}
  /\ t.ports = IF isIBC /\ ~s.contracts[a].port THEN s.ports \cup {a} ELSE s.ports
  /\ t.byCreator = s.byCreator /\ t.accounts = s.accounts
  /\ t.codes = s.codes /\ t.seqCode = s.seqCode
  /\ t.pinned = s.pinned /\ t.seqInst = s.seqInst

\* migrate writes the fields MigratedFieldsAre lists.
LEMMA MigratedFields ==
  ASSUME NEW s \in Store, NEW a \in Contract, NEW id \in CodeID,
         HasContract(s, a), position \in Position
  PROVE  MigratedFieldsAre(Migrated(s, a, id), s, a, id, HashOf(s, id) \in IBCHash)
  <1> DEFINE t == Migrated(s, a, id)
             isIBC == HashOf(s, id) \in IBCHash
             entry == [operation |-> "Migrate", code |-> id, updated |-> position]
             last == s.history[a][Len(s.history[a])]
             info == [s.contracts[a] EXCEPT !.code = id, !.port = @ \/ isIBC]
             ports == IF isIBC /\ ~s.contracts[a].port
                      THEN s.ports \cup {a} ELSE s.ports
             byCode == (s.byCode \ {<<last.code, last.updated, a>>})
                       \cup {<<id, position, a>>}
             history == [s.history EXCEPT ![a] = Append(@, entry)]
             contracts == [s.contracts EXCEPT ![a] = info]
  <1>1. entry \in HistoryEntry /\ entry.code = id /\ entry.updated = position
    BY Zenon DEF HistoryEntry
  <1>2. info \in ContractInfo
    <2>1. s.contracts[a] \in ContractInfo
      BY StoreFields, Zenon DEF HasContract
    <2>2. (s.contracts[a].port \/ isIBC) \in BOOLEAN
      BY Zenon
    <2> HIDE DEF isIBC
    <2> QED
      BY <2>1, <2>2, Zenon DEF ContractInfo
  <1>3. t = [s EXCEPT !.ports = ports, !.byCode = byCode,
               !.history = history, !.contracts = contracts]
    BY <1>1, Zenon DEF Migrated, ensureIbcPort, addToContractCodeSecondaryIndex,
           removeFromContractCodeSecondaryIndex, appendToContractHistory,
           mustGetLastContractHistoryEntry
  <1>5. ports \subseteq Contract
    BY StoreFields, Zenon
  <1>6. byCode \subseteq CodeID \X Position \X Contract
    BY StoreFields
  <1>8. history \in [Contract -> Seq(HistoryEntry)]
    <2> HIDE DEF entry
    <2>1. Append(s.history[a], entry) \in Seq(HistoryEntry)
      BY <1>1, StoreFields
    <2> QED
      BY <2>1, StoreFields, Zenon
  <1>9. contracts \in [Contract -> ContractInfo \cup {NoContract}]
    <2> HIDE DEF info
    <2> QED
      BY <1>2, StoreFields, Zenon
  <1> HIDE DEF t, ports, byCode, history, contracts
  <1>10. /\ t \in Store
         /\ t.contracts = contracts /\ t.history = history
         /\ t.byCode = byCode /\ t.byCreator = s.byCreator
         /\ t.accounts = s.accounts /\ t.ports = ports
         /\ t.codes = s.codes /\ t.seqCode = s.seqCode
         /\ t.pinned = s.pinned /\ t.seqInst = s.seqInst
    <2> HIDE DEF entry, info, isIBC, last
    <2> USE DEF Store
    <2>1. DOMAIN t = DOMAIN s
      BY <1>3, Zenon
    <2>2. /\ t.contracts = contracts /\ t.history = history
         /\ t.byCode = byCode /\ t.byCreator = s.byCreator
         /\ t.accounts = s.accounts /\ t.ports = ports
         /\ t.codes = s.codes /\ t.seqCode = s.seqCode
         /\ t.pinned = s.pinned /\ t.seqInst = s.seqInst
      BY <1>3, Zenon
    <2> QED
      BY Zenon, <1>3, <1>5, <1>6, <1>8, <1>9, <2>1, <2>2
  <1> QED
    BY <1>10, Zenon DEF MigratedFieldsAre, t, ports, byCode, history, contracts

----------------------------------------------------------------------------
(* The invariant of a store.                                               *)

Key(s, a) ==
  <<s.contracts[a].code, s.history[a][Len(s.history[a])].updated, a>>

CreatorKey(s, a) == <<s.contracts[a].creator, s.contracts[a].created, a>>

(* A chain that starts from an export at height zero counts its positions  *)
(* from zero again: the entries of a history then need not be in order.    *)
(* ordered says whether they are; nothing else of the invariant needs it.  *)

\* HistoryTellsContractIn, with the order of the entries only if ordered.
HistoryKnown(s, ordered) ==
  \A a \in Contract :
    LET h == s.history[a] IN
    IF HasContract(s, a)
    THEN /\ h # << >>
         /\ h[1].operation = "Init" /\ h[1].updated = s.contracts[a].created
         /\ h[Len(h)].code = s.contracts[a].code
         /\ ordered => \A i \in 1..(Len(h) - 1) : h[i].updated <= h[i + 1].updated
    ELSE h = << >>

\* Positions in the histories are at most pos.
HistoryBefore(s, pos, ordered) ==
  ordered =>
    \A a \in Contract : \A i \in DOMAIN s.history[a] : s.history[a][i].updated <= pos

CodesDense(s) == \A c \in CodeID : HasCode(s, c) <=> c < s.seqCode

PinnedExist(s) == \A c \in s.pinned : HasCode(s, c)

ContractCodeExists(s) ==
  \A a \in Contract : HasContract(s, a) => HasCode(s, s.contracts[a].code)

\* BuildContractAddressClassic gives addresses of contracts.
LEMMA ClassicIsContract ==
  ASSUME NEW c \in CodeID, NEW i \in InstanceID
  PROVE  ClassicAddress(c, i) \in Contract
  <1>1. ClassicAddress(c, i) \in Classic
    BY SMTT(60) DEF Classic
  <1> QED
    BY <1>1, Zenon DEF Contract

ClassicBelow(s) ==
  \A c \in CodeID, i \in InstanceID :
    HasContract(s, ClassicAddress(c, i)) => i < s.seqInst

\* instantiate checks the account it takes over, and nothing changes it later.
AccountsPlain(s) ==
  \A a \in Contract : HasContract(s, a) => s.accounts[a] = "base"

StoreInv(s, pos, ordered) ==
  /\ s \in Store
  /\ HistoryKnown(s, ordered)
  /\ HistoryBefore(s, pos, ordered)
  /\ CodeIndexExactIn(s)
  /\ CreatorIndexExactIn(s)
  /\ CodesDense(s)
  /\ PinnedExist(s)
  /\ ContractCodeExists(s)
  /\ ClassicBelow(s)
  /\ PortIffCallbacksIn(s)
  /\ AccountsPlain(s)

\* The code index is exact iff its members are the keys of the contracts.
LEMMA CodeIndexMembers ==
  ASSUME NEW s \in Store
  PROVE  CodeIndexExactIn(s) <=>
           \A x : x \in s.byCode <=>
             \E a \in Contract : HasContract(s, a) /\ x = Key(s, a)
  BY Zenon DEF CodeIndexExactIn, Live, Key, mustGetLastContractHistoryEntry

\* The creator index is exact iff its members are the contracts' creator keys.
LEMMA CreatorIndexMembers ==
  ASSUME NEW s \in Store
  PROVE  CreatorIndexExactIn(s) <=>
           \A x : x \in s.byCreator <=>
             \E a \in Contract : HasContract(s, a) /\ x = CreatorKey(s, a)
  BY Zenon DEF CreatorIndexExactIn, Live, CreatorKey

\* What create makes of a store s: a store t that keeps the invariant, extends s
\* and has its contracts and its instance sequence.
CreatedFrom(s, t, pos, ordered) ==
  /\ StoreInv(t, pos, ordered)
  /\ Grows(s, t)
  /\ t \in Store
  /\ t.contracts = s.contracts
  /\ t.seqInst = s.seqInst

\* create keeps the invariant of a store.
LEMMA CreateInv ==
  ASSUME NEW ordered, NEW s, NEW a \in Actor, NEW h \in Hash, NEW pos \in Position,
         NEW access \in AccessConfig(Actor), s.seqCode \in CodeID,
         StoreInv(s, pos, ordered)
  PROVE  CreatedFrom(s, Create(s, a, h, access), pos, ordered)
  <1> DEFINE t == Create(s, a, h, access)
             info == [hash |-> h, creator |-> a, access |-> access]
  <1>0. s \in Store /\ HistoryKnown(s, ordered) /\ HistoryBefore(s, pos, ordered)
        /\ CodeIndexExactIn(s) /\ CreatorIndexExactIn(s) /\ CodesDense(s) /\ PinnedExist(s)
        /\ ContractCodeExists(s) /\ ClassicBelow(s) /\ PortIffCallbacksIn(s)
        /\ AccountsPlain(s)
    BY Zenon DEF StoreInv
  <1>1. /\ t \in Store
        /\ t.codes = [s.codes EXCEPT ![s.seqCode] = info]
        /\ t.seqCode = s.seqCode + 1
        /\ t.contracts = s.contracts /\ t.history = s.history
        /\ t.byCode = s.byCode /\ t.byCreator = s.byCreator
        /\ t.accounts = s.accounts
        /\ t.pinned = s.pinned /\ t.seqInst = s.seqInst
        /\ t.ports = s.ports
    BY <1>0, CreateFields
  <1>2. info \in CodeInfo /\ info # NoCode
    BY RegistryAssumption DEF CodeInfo
  <1> HIDE DEF t, info
  <1>3. \A c \in CodeID : HasCode(t, c) <=> HasCode(s, c) \/ c = s.seqCode
    BY <1>0, <1>1, <1>2, StoreFields, Zenon DEF HasCode
  <1>4. \A b : HasContract(t, b) <=> HasContract(s, b)
    BY <1>1, Zenon DEF HasContract
  <1>5. HistoryKnown(t, ordered) /\ HistoryBefore(t, pos, ordered)
    BY <1>0, <1>1, <1>4, Zenon DEF HistoryKnown, HistoryBefore
  <1>6. CodeIndexExactIn(t) /\ CreatorIndexExactIn(t)
    BY <1>0, <1>1, <1>4, CodeIndexMembers, CreatorIndexMembers
    DEF Key, CreatorKey
  <1>7. CodesDense(t)
    <2>1. \A c \in CodeID : c < s.seqCode + 1 <=> c < s.seqCode \/ c = s.seqCode
      BY DEF CodeID
    <2> QED
      BY <1>0, <1>1, <1>3, <2>1, Zenon DEF CodesDense
  <1>8. PinnedExist(t) /\ ContractCodeExists(t)
    <2>1. \A b \in Contract : HasContract(s, b) => s.contracts[b].code \in CodeID
      BY <1>0, StoreFields, Zenon DEF HasContract, ContractInfo
    <2> QED
      BY <1>0, <1>1, <1>3, <1>4, <2>1, StoreFields, Zenon
      DEF PinnedExist, ContractCodeExists
  <1>9. ClassicBelow(t)
    BY <1>0, <1>1, <1>4, Zenon DEF ClassicBelow
  <1>10. PortIffCallbacksIn(t)
    <2>1. \A b \in Contract : HasContract(s, b) =>
            s.contracts[b].code \in CodeID /\ HasCode(s, s.contracts[b].code)
      BY <1>0, StoreFields, Zenon DEF HasContract, ContractInfo, ContractCodeExists
    <2>2. ~HasCode(s, s.seqCode)
      BY <1>0, StoreFields DEF CodesDense
    <2>3. \A b \in Contract : HasContract(s, b) =>
            HashOf(t, s.contracts[b].code) = HashOf(s, s.contracts[b].code)
      BY <1>0, <1>1, <2>1, <2>2, StoreFields, Zenon DEF HashOf
    <2> QED
      BY <1>0, <1>1, <1>4, <2>3 DEF PortIffCallbacksIn, Live
  <1>11. AccountsPlain(t)
    BY <1>0, <1>1, <1>4, Zenon DEF AccountsPlain
  <1>20. Grows(s, t)
    <2>1. \A b \in Contract : Extends(s.history[b], t.history[b])
      BY <1>0, <1>1, StoreFields DEF Extends
    <2>2. \A c \in CodeID : HasCode(s, c) => t.codes[c] = s.codes[c]
      BY <1>0, <1>1, StoreFields DEF CodesDense
    <2> QED
      BY <1>0, <1>1, <1>3, <1>4, <2>1, <2>2, StoreFields DEF Grows, Live, HashOf
  <1> QED
    BY <1>20, <1>1, <1>5, <1>6, <1>7, <1>8, <1>9, <1>10, <1>11, Zenon DEF StoreInv, CreatedFrom, t

\* Taking an instance id keeps the invariant of a store.
LEMMA NextInstanceInv ==
  ASSUME NEW ordered, NEW s, NEW pos \in Position, StoreInv(s, pos, ordered)
  PROVE  StoreInv(NextInstance(s), pos, ordered) /\ Grows(s, NextInstance(s))
  <1> DEFINE t == NextInstance(s)
  <1>0. s \in Store /\ HistoryKnown(s, ordered) /\ HistoryBefore(s, pos, ordered)
        /\ CodeIndexExactIn(s) /\ CreatorIndexExactIn(s) /\ CodesDense(s) /\ PinnedExist(s)
        /\ ContractCodeExists(s) /\ ClassicBelow(s) /\ PortIffCallbacksIn(s)
        /\ AccountsPlain(s)
    BY Zenon DEF StoreInv
  <1>1. /\ t \in Store
        /\ t.codes = s.codes /\ t.seqCode = s.seqCode
        /\ t.seqInst = s.seqInst + 1
        /\ t.contracts = s.contracts /\ t.history = s.history
        /\ t.byCode = s.byCode /\ t.byCreator = s.byCreator
        /\ t.accounts = s.accounts
        /\ t.pinned = s.pinned /\ t.ports = s.ports
    BY <1>0, NextInstanceFields, Zenon
  <1> HIDE DEF t
  <1>2. \A c : HasCode(t, c) <=> HasCode(s, c)
    BY <1>1, Zenon DEF HasCode
  <1>4. \A b : HasContract(t, b) <=> HasContract(s, b)
    BY <1>1, Zenon DEF HasContract
  <1>5. HistoryKnown(t, ordered) /\ HistoryBefore(t, pos, ordered)
    BY <1>0, <1>1, <1>4, Zenon DEF HistoryKnown, HistoryBefore
  <1>6. CodeIndexExactIn(t) /\ CreatorIndexExactIn(t)
    BY <1>0, <1>1, <1>4, CodeIndexMembers, CreatorIndexMembers
    DEF Key, CreatorKey
  <1>7. CodesDense(t) /\ PinnedExist(t) /\ ContractCodeExists(t)
    BY <1>0, <1>1, <1>2, <1>4, Zenon
    DEF CodesDense, PinnedExist, ContractCodeExists
  <1>9. ClassicBelow(t)
    BY <1>0, <1>1, <1>4, StoreFields DEF ClassicBelow, InstanceID
  <1>10. PortIffCallbacksIn(t)
    BY <1>0, <1>1, <1>4, Zenon DEF PortIffCallbacksIn, Live, HashOf
  <1>11. AccountsPlain(t)
    BY <1>0, <1>1, <1>4, Zenon DEF AccountsPlain
  <1>20. Grows(s, t)
    <2>1. \A b \in Contract : Extends(s.history[b], t.history[b])
      BY <1>0, <1>1, StoreFields DEF Extends
    <2> QED
      BY <1>0, <1>1, <1>2, <1>4, <2>1, StoreFields DEF Grows, Live, HashOf
  <1> QED
    BY <1>20, <1>1, <1>5, <1>6, <1>7, <1>9, <1>10, <1>11, Zenon DEF StoreInv, t

\* A change of what no other part of the store refers to.
LEMMA OtherFieldsInv ==
  ASSUME NEW ordered, NEW s, NEW pos \in Position, StoreInv(s, pos, ordered), NEW t \in Store,
         t.codes = s.codes, t.contracts = s.contracts, t.history = s.history,
         t.byCode = s.byCode, t.byCreator = s.byCreator, t.ports = s.ports,
         t.seqCode = s.seqCode, t.seqInst = s.seqInst, PinnedExist(t), AccountsPlain(t)
  PROVE  StoreInv(t, pos, ordered) /\ Grows(s, t)
  <1>0. s \in Store /\ HistoryKnown(s, ordered) /\ HistoryBefore(s, pos, ordered)
        /\ CodeIndexExactIn(s) /\ CreatorIndexExactIn(s) /\ CodesDense(s) /\ PinnedExist(s)
        /\ ContractCodeExists(s) /\ ClassicBelow(s) /\ PortIffCallbacksIn(s)
    BY Zenon DEF StoreInv
  <1>1. \A c : HasCode(t, c) <=> HasCode(s, c)
    BY Zenon DEF HasCode
  <1>2. \A b : HasContract(t, b) <=> HasContract(s, b)
    BY Zenon DEF HasContract
  <1>3. HistoryKnown(t, ordered) /\ HistoryBefore(t, pos, ordered)
    BY <1>0, <1>2, Zenon DEF HistoryKnown, HistoryBefore
  <1>4. CodeIndexExactIn(t) /\ CreatorIndexExactIn(t)
    BY <1>0, <1>2, CodeIndexMembers, CreatorIndexMembers DEF Key, CreatorKey
  <1>5. CodesDense(t) /\ ContractCodeExists(t) /\ ClassicBelow(t)
    BY <1>0, <1>1, <1>2, Zenon DEF CodesDense, ContractCodeExists, ClassicBelow
  <1>6. PortIffCallbacksIn(t)
    BY <1>0, <1>2, Zenon DEF PortIffCallbacksIn, Live, HashOf
  <1>7. \A b \in Contract : Extends(s.history[b], t.history[b])
    BY <1>0, StoreFields DEF Extends
  <1>8. Grows(s, t)
    BY <1>0, <1>1, <1>2, <1>7, StoreFields DEF Grows, Live, HashOf
  <1> QED
    BY <1>3, <1>4, <1>5, <1>6, <1>8, Zenon DEF StoreInv

\* setContractAdmin and setContractLabel.
LEMMA ContractChangeInv ==
  ASSUME NEW ordered, NEW s, NEW pos \in Position, StoreInv(s, pos, ordered),
         NEW a \in Contract,
         HasContract(s, a), NEW info \in ContractInfo,
         info.code = s.contracts[a].code, info.creator = s.contracts[a].creator,
         info.created = s.contracts[a].created, info.port = s.contracts[a].port
  PROVE  /\ StoreInv([s EXCEPT !.contracts[a] = info], pos, ordered)
         /\ Grows(s, [s EXCEPT !.contracts[a] = info])
  <1> DEFINE t == [s EXCEPT !.contracts[a] = info]
  <1>0. s \in Store /\ HistoryKnown(s, ordered) /\ HistoryBefore(s, pos, ordered)
        /\ CodeIndexExactIn(s) /\ CreatorIndexExactIn(s) /\ CodesDense(s) /\ PinnedExist(s)
        /\ ContractCodeExists(s) /\ ClassicBelow(s) /\ PortIffCallbacksIn(s)
        /\ AccountsPlain(s)
    BY Zenon DEF StoreInv
  <1>1. /\ t \in Store
        /\ t.contracts = [s.contracts EXCEPT ![a] = info]
        /\ t.history = s.history /\ t.byCode = s.byCode
        /\ t.byCreator = s.byCreator /\ t.ports = s.ports
        /\ t.accounts = s.accounts
        /\ t.codes = s.codes /\ t.seqCode = s.seqCode
        /\ t.pinned = s.pinned /\ t.seqInst = s.seqInst
    <2>1. [s.contracts EXCEPT ![a] = info] \in [Contract -> ContractInfo \cup {NoContract}]
      BY <1>0, StoreFields, Zenon
    <2> QED
      BY <1>0, <2>1, Zenon DEF Store
  <1> HIDE DEF t
  <1>2. info # NoContract
    BY RegistryAssumption, Zenon
  <1>3. \A c : (HasCode(t, c) <=> HasCode(s, c)) /\ HashOf(t, c) = HashOf(s, c)
    BY <1>1, Zenon DEF HasCode, HashOf
  <1>4. \A b \in Contract : HasContract(t, b) <=> HasContract(s, b)
    BY <1>0, <1>1, <1>2, StoreFields, Zenon DEF HasContract
  <1>5. \A b \in Contract :
          /\ t.contracts[b].code = s.contracts[b].code
          /\ t.contracts[b].creator = s.contracts[b].creator
          /\ t.contracts[b].created = s.contracts[b].created
          /\ t.contracts[b].port = s.contracts[b].port
    BY <1>0, <1>1, StoreFields, Zenon
  <1>6. HistoryKnown(t, ordered) /\ HistoryBefore(t, pos, ordered)
    <2>1. HistoryKnown(t, ordered)
      <3>1. ASSUME NEW b \in Contract
            PROVE  /\ t.history[b] = s.history[b] /\ (HasContract(t, b) <=> HasContract(s, b))
                   /\ t.contracts[b].created = s.contracts[b].created
                   /\ t.contracts[b].code = s.contracts[b].code
        BY <1>1, <1>4, <1>5, Zenon
      <3> QED
        BY <1>0, <3>1, ZenonT(30) DEF HistoryKnown
    <2> QED
      BY <1>0, <1>1, <2>1, Zenon DEF HistoryBefore
  <1>7. \A b \in Contract : Key(t, b) = Key(s, b) /\ CreatorKey(t, b) = CreatorKey(s, b)
    BY <1>1, <1>5, Zenon DEF Key, CreatorKey
  <1>8. CodeIndexExactIn(t) /\ CreatorIndexExactIn(t)
    <2>1. CodeIndexExactIn(t)
      BY <1>0, <1>1, <1>4, <1>7, CodeIndexMembers, SMTT(60)
    <2>2. CreatorIndexExactIn(t)
      BY <1>0, <1>1, <1>4, <1>7, CreatorIndexMembers, SMTT(60)
    <2> QED
      BY <2>1, <2>2, Zenon
  <1>9. CodesDense(t) /\ PinnedExist(t) /\ ContractCodeExists(t)
    BY <1>0, <1>1, <1>3, <1>4, <1>5, Zenon DEF CodesDense, PinnedExist, ContractCodeExists
  <1>10. ClassicBelow(t)
    <2>1. \A c \in CodeID, i \in InstanceID : ClassicAddress(c, i) \in Contract
      BY ClassicIsContract, Zenon
    <2> QED
      BY <1>0, <1>1, <1>4, <2>1, Zenon DEF ClassicBelow
  <1>11. PortIffCallbacksIn(t)
    <2> SUFFICES ASSUME NEW b \in Contract, HasContract(t, b)
                 PROVE  /\ t.contracts[b].port <=> HashOf(t, t.contracts[b].code) \in IBCHash
                        /\ t.contracts[b].port => b \in t.ports
      BY Zenon DEF PortIffCallbacksIn, Live
    <2>1. /\ s.contracts[b].port <=> HashOf(s, s.contracts[b].code) \in IBCHash
          /\ s.contracts[b].port => b \in s.ports
      BY <1>0, <1>4, Zenon DEF PortIffCallbacksIn, Live
    <2> QED
      BY <1>1, <1>3, <1>5, <2>1, Zenon
  <1>12. \A b \in Contract : Extends(s.history[b], t.history[b])
    <2>1. \A b \in Contract : s.history[b] \in Seq(HistoryEntry)
      BY <1>0, StoreFields, Zenon
    <2> QED
      BY <1>1, <2>1, HistoryKept, Zenon
  <1>13. AccountsPlain(t)
    BY <1>0, <1>1, <1>4, Zenon DEF AccountsPlain
  <1>14. Grows(s, t)
    <2>1. t.seqCode >= s.seqCode /\ t.seqInst >= s.seqInst
      BY <1>0, <1>1, StoreFields
    <2> QED
      BY <1>1, <1>3, <1>4, <1>5, <1>12, <2>1, Zenon DEF Grows, Live
  <1> QED
    BY <1>1, <1>6, <1>8, <1>9, <1>10, <1>11, <1>13, <1>14, Zenon DEF StoreInv, t

\* setAccessConfig.
LEMMA CodeChangeInv ==
  ASSUME NEW ordered, NEW s, NEW pos \in Position, StoreInv(s, pos, ordered), NEW c \in CodeID,
         HasCode(s, c), NEW info \in CodeInfo, info.hash = s.codes[c].hash,
         info.creator = s.codes[c].creator
  PROVE  /\ StoreInv([s EXCEPT !.codes[c] = info], pos, ordered)
         /\ Grows(s, [s EXCEPT !.codes[c] = info])
  <1> DEFINE t == [s EXCEPT !.codes[c] = info]
  <1>0. s \in Store /\ HistoryKnown(s, ordered) /\ HistoryBefore(s, pos, ordered)
        /\ CodeIndexExactIn(s) /\ CreatorIndexExactIn(s) /\ CodesDense(s) /\ PinnedExist(s)
        /\ ContractCodeExists(s) /\ ClassicBelow(s) /\ PortIffCallbacksIn(s)
        /\ AccountsPlain(s)
    BY Zenon DEF StoreInv
  <1>1. /\ t \in Store
        /\ t.codes = [s.codes EXCEPT ![c] = info]
        /\ t.contracts = s.contracts
        /\ t.history = s.history /\ t.byCode = s.byCode
        /\ t.byCreator = s.byCreator /\ t.ports = s.ports
        /\ t.accounts = s.accounts
        /\ t.seqCode = s.seqCode
        /\ t.pinned = s.pinned /\ t.seqInst = s.seqInst
    <2>1. [s.codes EXCEPT ![c] = info] \in [CodeID -> CodeInfo \cup {NoCode}]
      BY <1>0, StoreFields, Zenon
    <2> QED
      BY <1>0, <2>1, Zenon DEF Store
  <1> HIDE DEF t
  <1>2. info # NoCode
    BY RegistryAssumption, Zenon
  <1>3. \A d \in CodeID : /\ HasCode(t, d) <=> HasCode(s, d)
                          /\ HashOf(t, d) = HashOf(s, d)
                          /\ t.codes[d].creator = s.codes[d].creator
    BY <1>0, <1>1, <1>2, StoreFields DEF HasCode, HashOf
  <1>4. \A b : HasContract(t, b) <=> HasContract(s, b)
    BY <1>1, Zenon DEF HasContract
  <1>5. \A b \in Contract : HasContract(s, b) => s.contracts[b].code \in CodeID
    BY <1>0, StoreFields, Zenon DEF HasContract, ContractInfo
  <1>6. HistoryKnown(t, ordered) /\ HistoryBefore(t, pos, ordered)
    BY <1>0, <1>1, <1>4, ZenonT(60) DEF HistoryKnown, HistoryBefore
  <1>8. CodeIndexExactIn(t) /\ CreatorIndexExactIn(t)
    <2>1. CodeIndexExactIn(t)
      BY <1>0, <1>1, <1>4, CodeIndexMembers DEF Key
    <2>2. CreatorIndexExactIn(t)
      BY <1>0, <1>1, <1>4, CreatorIndexMembers DEF CreatorKey
    <2> QED
      BY <2>1, <2>2, Zenon
  <1>9. CodesDense(t) /\ PinnedExist(t) /\ ContractCodeExists(t)
    BY <1>0, <1>1, <1>3, <1>4, <1>5, StoreFields, Zenon
    DEF CodesDense, PinnedExist, ContractCodeExists
  <1>10. ClassicBelow(t)
    BY <1>0, <1>1, <1>4, Zenon DEF ClassicBelow
  <1>11. PortIffCallbacksIn(t)
    <2> SUFFICES ASSUME NEW b \in Contract, HasContract(t, b)
                 PROVE  /\ t.contracts[b].port <=> HashOf(t, t.contracts[b].code) \in IBCHash
                        /\ t.contracts[b].port => b \in t.ports
      BY Zenon DEF PortIffCallbacksIn, Live
    <2>1. /\ s.contracts[b].port <=> HashOf(s, s.contracts[b].code) \in IBCHash
          /\ s.contracts[b].port => b \in s.ports
      BY <1>0, <1>4, Zenon DEF PortIffCallbacksIn, Live
    <2> QED
      <3>1. HashOf(t, s.contracts[b].code) = HashOf(s, s.contracts[b].code)
        BY <1>3, <1>4, <1>5, Zenon
      <3> QED
        BY <1>1, <2>1, <3>1, Zenon
  <1>12. \A b \in Contract : Extends(s.history[b], t.history[b])
    <2>1. \A b \in Contract : s.history[b] \in Seq(HistoryEntry)
      BY <1>0, StoreFields, Zenon
    <2> QED
      BY <1>1, <2>1, HistoryKept, Zenon
  <1>13. AccountsPlain(t)
    BY <1>0, <1>1, <1>4, Zenon DEF AccountsPlain
  <1>14. Grows(s, t)
    <2>1. t.seqCode >= s.seqCode /\ t.seqInst >= s.seqInst
      BY <1>0, <1>1, StoreFields
    <2> QED
      BY <1>1, <1>3, <1>4, <1>12, <2>1, Zenon DEF Grows, Live
  <1> QED
    BY <1>1, <1>6, <1>8, <1>9, <1>10, <1>11, <1>13, <1>14, Zenon DEF StoreInv, t

\* A store grows from itself.
LEMMA GrowsReflexive ==
  ASSUME NEW s \in Store
  PROVE  Grows(s, s)
  BY StoreFields DEF Grows, Extends, Live

\* Growth composes over the branches of a transaction.
LEMMA GrowsTransitive ==
  ASSUME NEW s \in Store, NEW t \in Store, NEW u \in Store, Grows(s, t), Grows(t, u)
  PROVE  Grows(s, u)
  <1>1. \A b \in Contract : HasContract(s, b) => HasContract(t, b) /\ HasContract(u, b)
    BY Zenon DEF Grows, Live
  <1>2. \A b \in Contract : HasContract(s, b) => Extends(s.history[b], u.history[b])
    <2> SUFFICES ASSUME NEW b \in Contract, HasContract(s, b)
                 PROVE  Extends(s.history[b], u.history[b])
      BY Zenon
    <2>1. /\ s.history[b] \in Seq(HistoryEntry) /\ t.history[b] \in Seq(HistoryEntry)
          /\ u.history[b] \in Seq(HistoryEntry)
      BY StoreFields, Zenon
    <2>2. Extends(s.history[b], t.history[b]) /\ Extends(t.history[b], u.history[b])
      BY <1>1, Zenon DEF Grows, Live
    <2> QED
      BY <2>1, <2>2, SMTT(30) DEF Extends
  <1>3. u.seqCode >= s.seqCode /\ u.seqInst >= s.seqInst
    <2>1. /\ s.seqCode \in Nat /\ t.seqCode \in Nat /\ u.seqCode \in Nat
          /\ s.seqInst \in Nat /\ t.seqInst \in Nat /\ u.seqInst \in Nat
      BY StoreFields, Zenon
    <2>2. /\ t.seqCode >= s.seqCode /\ u.seqCode >= t.seqCode
          /\ t.seqInst >= s.seqInst /\ u.seqInst >= t.seqInst
      BY Zenon DEF Grows
    <2> QED
      BY <2>1, <2>2
  <1> QED
    BY <1>1, <1>2, <1>3, Zenon DEF Grows, Live

\* The invariant of a store still holds at a later position.
LEMMA StoreInvLater ==
  ASSUME NEW ordered, NEW s, NEW p \in Position, NEW q \in Position,
         p <= q, StoreInv(s, p, ordered)
  PROVE  StoreInv(s, q, ordered)
  <1>1. \A a \in Contract : \A i \in DOMAIN s.history[a] : s.history[a][i].updated \in Nat
    <2> SUFFICES ASSUME NEW a \in Contract, NEW i \in DOMAIN s.history[a]
                 PROVE  s.history[a][i].updated \in Nat
      BY Zenon
    <2>1. s.history[a] \in Seq(HistoryEntry)
      BY StoreFields, Zenon DEF StoreInv
    <2>2. s.history[a][i] \in HistoryEntry
      BY <2>1
    <2> QED
      BY <2>2, RegistryAssumption DEF HistoryEntry, Position
  <1>2. HistoryBefore(s, q, ordered)
    BY <1>1 DEF StoreInv, HistoryBefore, Position
  <1> QED
    BY <1>2, Zenon DEF StoreInv

----------------------------------------------------------------------------
(* Operators that write a contract or a code as a whole.                   *)

\* instantiate keeps the invariant of a store.
LEMMA InstantiatedInv ==
  ASSUME NEW ordered, NEW s, NEW a \in Contract, NEW id \in CodeID,
         NEW creator \in Actor, NEW admin \in Actor \cup {NoActor},
         NEW label \in Label, position \in Position,
         StoreInv(s, position, ordered), HasCode(s, id), ~HasContract(s, a),
         AccountAcceptable(s.accounts[a]),
         \A c \in CodeID, i \in InstanceID : a = ClassicAddress(c, i) => i < s.seqInst
  PROVE  /\ StoreInv(Instantiated(s, a, id, creator, admin, label), position, ordered)
         /\ Grows(s, Instantiated(s, a, id, creator, admin, label))
  <1> DEFINE t == Instantiated(s, a, id, creator, admin, label)
             isIBC == HashOf(s, id) \in IBCHash
             info == [code |-> id, creator |-> creator, admin |-> admin,
                      created |-> position, label |-> label, port |-> isIBC]
             entry == [operation |-> "Init", code |-> id, updated |-> position]
  <1>0. s \in Store /\ HistoryKnown(s, ordered) /\ HistoryBefore(s, position, ordered)
        /\ CodeIndexExactIn(s) /\ CreatorIndexExactIn(s) /\ CodesDense(s) /\ PinnedExist(s)
        /\ ContractCodeExists(s) /\ ClassicBelow(s) /\ PortIffCallbacksIn(s)
        /\ AccountsPlain(s)
    BY Zenon DEF StoreInv
  <1>1. /\ t \in Store
        /\ t.contracts = [s.contracts EXCEPT ![a] = info]
        /\ t.history = [s.history EXCEPT ![a] = Append(@, entry)]
        /\ t.byCode = s.byCode \cup {<<id, position, a>>}
        /\ t.byCreator = s.byCreator \cup {<<creator, position, a>>}
        /\ t.accounts = [s.accounts EXCEPT ![a] = TakenOver(@)]
        /\ t.ports = IF isIBC THEN s.ports \cup {a} ELSE s.ports
        /\ t.codes = s.codes /\ t.seqCode = s.seqCode
        /\ t.pinned = s.pinned /\ t.seqInst = s.seqInst
    <2>1. isIBC \in BOOLEAN /\ isIBC = (HashOf(s, id) \in IBCHash)
      OBVIOUS
    <2> HIDE DEF isIBC
    <2>2. InstantiatedFieldsAre(Instantiated(s, a, id, creator, admin, label),
                                s, a, id, creator, admin, label, isIBC)
      BY <1>0, <2>1, InstantiatedFields, Zenon
    <2> QED
      BY <2>2, Zenon DEF InstantiatedFieldsAre
  <1>2. /\ info # NoContract
        /\ info.code = id /\ info.creator = creator
        /\ info.created = position /\ (info.port <=> isIBC)
    <2>1. isIBC \in BOOLEAN
      OBVIOUS
    <2> HIDE DEF isIBC
    <2>2. info \in ContractInfo
      BY <2>1, Zenon DEF ContractInfo
    <2> QED
      BY <2>2, RegistryAssumption, Zenon
  <1>3. /\ entry.operation = "Init" /\ entry.code = id /\ entry.updated = position
        /\ entry \in HistoryEntry
    BY Zenon DEF HistoryEntry
  <1> HIDE DEF t, info, entry, isIBC
  <1>4. s.history[a] = << >>
    BY <1>0, Zenon DEF HistoryKnown
  <1>5. /\ t.history[a] \in Seq(HistoryEntry)
        /\ Len(t.history[a]) = 1 /\ t.history[a][1] = entry
        /\ t.contracts[a] = info
    <2>1. DOMAIN s.history = Contract /\ DOMAIN s.contracts = Contract
      BY <1>0, StoreFields, Zenon
    <2>2. t.history[a] = Append(<< >>, entry) /\ t.contracts[a] = info
      BY <1>1, <1>4, <2>1, Zenon
    <2> QED
      BY <1>3, <2>2
  <1>6. \A b \in Contract : b # a =>
          t.history[b] = s.history[b] /\ t.contracts[b] = s.contracts[b]
    BY <1>0, <1>1, StoreFields, ZenonT(60)
  <1>7. \A b \in Contract : HasContract(t, b) <=> HasContract(s, b) \/ b = a
    BY <1>2, <1>5, <1>6, Zenon DEF HasContract
  <1>8. \A c : (HasCode(t, c) <=> HasCode(s, c)) /\ HashOf(t, c) = HashOf(s, c)
    BY <1>1, Zenon DEF HasCode, HashOf
  <1>9. HistoryKnown(t, ordered)
    <2> SUFFICES ASSUME NEW b \in Contract
                 PROVE  LET h == t.history[b] IN
                        IF HasContract(t, b)
                        THEN /\ h # << >>
                             /\ h[1].operation = "Init"
                             /\ h[1].updated = t.contracts[b].created
                             /\ h[Len(h)].code = t.contracts[b].code
                             /\ ordered => \A i \in 1..(Len(h) - 1) :
                                             h[i].updated <= h[i + 1].updated
                        ELSE h = << >>
      BY Zenon DEF HistoryKnown
    <2>1. CASE b = a
      BY <1>2, <1>3, <1>5, <1>7, <2>1
    <2>2. CASE b # a
      BY <1>0, <1>6, <1>7, <2>2, Zenon DEF HistoryKnown
    <2> QED
      BY <2>1, <2>2, Zenon
  <1>10. HistoryBefore(t, position, ordered)
    <2> SUFFICES ASSUME ordered, NEW b \in Contract, NEW i \in DOMAIN t.history[b]
                 PROVE  t.history[b][i].updated <= position
      BY Zenon DEF HistoryBefore
    <2>1. CASE b = a
      BY <1>3, <1>5, <2>1 DEF Position
    <2>2. CASE b # a
      BY <1>0, <1>6, <2>2, Zenon DEF HistoryBefore
    <2> QED
      BY <2>1, <2>2, Zenon
  <1>11. CodeIndexExactIn(t)
    <2>1. Key(t, a) = <<id, position, a>>
      BY <1>2, <1>3, <1>5, Zenon DEF Key
    <2>2. \A b \in Contract : b # a => Key(t, b) = Key(s, b)
      BY <1>6, Zenon DEF Key
    <2>3. \A x : x \in s.byCode <=>
            \E b \in Contract : HasContract(s, b) /\ x = Key(s, b)
      BY <1>0, CodeIndexMembers, Zenon
    <2>4. \A x : x \in t.byCode <=>
            \E b \in Contract : HasContract(t, b) /\ x = Key(t, b)
      BY <1>1, <1>7, <2>1, <2>2, <2>3, Zenon
    <2> QED
      BY <1>1, <2>4, CodeIndexMembers, Zenon
  <1>12. CreatorIndexExactIn(t)
    <2>1. CreatorKey(t, a) = <<creator, position, a>>
      BY <1>2, <1>5, Zenon DEF CreatorKey
    <2>2. \A b \in Contract : b # a => CreatorKey(t, b) = CreatorKey(s, b)
      BY <1>6, Zenon DEF CreatorKey
    <2>3. \A x : x \in s.byCreator <=>
            \E b \in Contract : HasContract(s, b) /\ x = CreatorKey(s, b)
      BY <1>0, CreatorIndexMembers, Zenon
    <2>4. \A x : x \in t.byCreator <=>
            \E b \in Contract : HasContract(t, b) /\ x = CreatorKey(t, b)
      BY <1>1, <1>7, <2>1, <2>2, <2>3
    <2> QED
      BY <1>1, <2>4, CreatorIndexMembers, Zenon
  <1>13. CodesDense(t) /\ PinnedExist(t)
    BY <1>0, <1>1, <1>8, Zenon DEF CodesDense, PinnedExist
  <1>14. ContractCodeExists(t)
    BY <1>2, <1>5, <1>6, <1>7, <1>8, Zenon DEF StoreInv, ContractCodeExists
  <1>15. ClassicBelow(t)
    <2>1. \A c \in CodeID, i \in InstanceID : ClassicAddress(c, i) \in Contract
      BY ClassicIsContract, Zenon
    <2> QED
      BY <1>0, <1>1, <1>7, <2>1, Zenon DEF ClassicBelow
  <1>16. PortIffCallbacksIn(t)
    <2> SUFFICES ASSUME NEW b \in Contract, HasContract(t, b)
                 PROVE  /\ t.contracts[b].port <=> HashOf(t, t.contracts[b].code) \in IBCHash
                        /\ t.contracts[b].port => b \in t.ports
      BY Zenon DEF PortIffCallbacksIn, Live
    <2>1. CASE b = a
      BY <1>1, <1>2, <1>5, <1>8, <2>1, ZenonT(30) DEF isIBC
    <2>2. CASE b # a
      <3>1. /\ s.contracts[b].port <=> HashOf(s, s.contracts[b].code) \in IBCHash
            /\ s.contracts[b].port => b \in s.ports
        BY <1>0, <1>7, <2>2, Zenon DEF PortIffCallbacksIn, Live
      <3> QED
        BY <1>1, <1>6, <1>8, <2>2, <3>1, Zenon
    <2> QED
      BY <2>1, <2>2, Zenon
  <1>17. AccountsPlain(t)
    <2>1. DOMAIN s.accounts = Contract
      BY <1>0, StoreFields, Zenon
    <2>2. t.accounts[a] = "base"
      BY <1>1, <2>1, Zenon DEF TakenOver, AccountAcceptable
    <2>3. \A b \in Contract : b # a => t.accounts[b] = s.accounts[b]
      BY <1>1, <2>1, Zenon
    <2> QED
      BY <1>0, <1>7, <2>2, <2>3, Zenon DEF AccountsPlain
  <1>20. Grows(s, t)
    <2>1. \A b \in Contract : HasContract(s, b) => b # a
      BY Zenon
    <2>2. \A b \in Contract : HasContract(s, b) => Extends(s.history[b], t.history[b])
      <3>1. \A b \in Contract : s.history[b] \in Seq(HistoryEntry)
        BY <1>0, StoreFields, Zenon
      <3> QED
        BY <1>6, <2>1, <3>1, HistoryKept, Zenon
    <2>3. t.seqCode >= s.seqCode /\ t.seqInst >= s.seqInst
      <3>1. s.seqCode \in Nat /\ s.seqInst \in Nat
        BY <1>0, StoreFields, Zenon
      <3> QED
        BY <1>1, <3>1, SMTT(30)
    <2> QED
      BY <1>1, <1>6, <1>7, <1>8, <2>1, <2>2, <2>3, Zenon DEF Grows, Live
  <1> QED
    BY <1>20, <1>1, <1>9, <1>10, <1>11, <1>12, <1>13, <1>14, <1>15, <1>16, <1>17, Zenon DEF StoreInv, t

\* t is a store that differs from s in no code and in no contract other than a.
InstantiatedIn(s, t, a) ==
  /\ t \in Store
  /\ t.codes = s.codes
  /\ \A b \in Contract : b # a => t.contracts[b] = s.contracts[b]

\* instantiate touches no other contract and no code.
LEMMA InstantiatedContracts ==
  ASSUME NEW s \in Store, NEW a \in Contract, NEW id \in CodeID,
         NEW creator \in Actor, NEW admin \in Actor \cup {NoActor},
         NEW label \in Label, position \in Position
  PROVE  InstantiatedIn(s, Instantiated(s, a, id, creator, admin, label), a)
  <1> DEFINE t == Instantiated(s, a, id, creator, admin, label)
             isIBC == HashOf(s, id) \in IBCHash
  <1>1. isIBC \in BOOLEAN /\ isIBC = (HashOf(s, id) \in IBCHash)
    OBVIOUS
  <1> HIDE DEF isIBC
  <1>2. InstantiatedFieldsAre(t, s, a, id, creator, admin, label, isIBC)
    BY Zenon, <1>1, InstantiatedFields
  <1> HIDE DEF t
  <1>3. InstantiatedIn(s, t, a)
    <2>1. DOMAIN s.contracts = Contract
      BY StoreFields, Zenon
    <2> QED
      BY <1>2, <2>1, Zenon DEF InstantiatedFieldsAre, InstantiatedIn
  <1> QED
    BY <1>3, Zenon DEF t

\* What migrating the contract a of s leaves: t is sound, and differs from s in
\* that contract only.
MigratedFrom(s, t, a, pos, ordered) ==
  /\ StoreInv(t, pos, ordered)
  /\ Grows(s, t)
  /\ t \in Store
  /\ t.codes = s.codes
  /\ \A b \in Contract : b # a => t.contracts[b] = s.contracts[b]

\* migrate keeps the invariant of a store.
LEMMA MigratedInv ==
  ASSUME NEW ordered, NEW s, NEW a \in Contract, NEW id \in CodeID, position \in Position,
         StoreInv(s, position, ordered), HasContract(s, a), HasCode(s, id),
         KeepsCallbacks(s, a, id)
  PROVE  MigratedFrom(s, Migrated(s, a, id), a, position, ordered)
  <1> DEFINE t == Migrated(s, a, id)
             isIBC == HashOf(s, id) \in IBCHash
             info == [s.contracts[a] EXCEPT !.code = id, !.port = @ \/ isIBC]
             entry == [operation |-> "Migrate", code |-> id, updated |-> position]
             h == s.history[a]
  <1>0. s \in Store /\ HistoryKnown(s, ordered) /\ HistoryBefore(s, position, ordered)
        /\ CodeIndexExactIn(s) /\ CreatorIndexExactIn(s) /\ CodesDense(s) /\ PinnedExist(s)
        /\ ContractCodeExists(s) /\ ClassicBelow(s) /\ PortIffCallbacksIn(s)
        /\ AccountsPlain(s)
    BY Zenon DEF StoreInv
  <1>1. /\ t \in Store
        /\ t.contracts = [s.contracts EXCEPT ![a] = info]
        /\ t.history = [s.history EXCEPT ![a] = Append(@, entry)]
        /\ t.byCode = (s.byCode \ {<<h[Len(h)].code, h[Len(h)].updated, a>>})
                      \cup {<<id, position, a>>}
        /\ t.ports = IF isIBC /\ ~s.contracts[a].port THEN s.ports \cup {a} ELSE s.ports
        /\ t.byCreator = s.byCreator /\ t.accounts = s.accounts
        /\ t.codes = s.codes /\ t.seqCode = s.seqCode
        /\ t.pinned = s.pinned /\ t.seqInst = s.seqInst
    <2>1. MigratedFieldsAre(Migrated(s, a, id), s, a, id, HashOf(s, id) \in IBCHash)
      BY <1>0, MigratedFields, Zenon
    <2> QED
      BY <2>1, Zenon DEF MigratedFieldsAre
  <1>2. /\ info # NoContract /\ info.code = id
        /\ info.creator = s.contracts[a].creator
        /\ info.created = s.contracts[a].created
        /\ info.port <=> (s.contracts[a].port \/ isIBC)
    <2>1. s.contracts[a] \in ContractInfo
      BY <1>0, StoreFields, Zenon DEF HasContract
    <2>2. (s.contracts[a].port \/ isIBC) \in BOOLEAN
      BY Zenon
    <2> HIDE DEF isIBC
    <2>3. info \in ContractInfo
      BY <2>1, <2>2, Zenon DEF ContractInfo
    <2>4. info # NoContract
      BY <2>3, RegistryAssumption, Zenon
    <2> QED
      BY <2>1, <2>4, Zenon DEF ContractInfo
  <1>3. entry.code = id /\ entry.updated = position /\ entry \in HistoryEntry
    BY Zenon DEF HistoryEntry
  <1> HIDE DEF t, info, entry, isIBC
  <1>4. /\ h \in Seq(HistoryEntry) /\ h # << >> /\ Len(h) \in Nat \ {0}
        /\ h[1].operation = "Init" /\ h[1].updated = s.contracts[a].created
        /\ h[Len(h)].code = s.contracts[a].code
        /\ ordered => \A i \in 1..(Len(h) - 1) : h[i].updated <= h[i + 1].updated
        /\ ordered => h[Len(h)].updated <= position
    <2>1. h \in Seq(HistoryEntry) /\ h # << >>
      BY <1>0, StoreFields, Zenon DEF HistoryKnown
    <2>2. Len(h) \in Nat \ {0} /\ Len(h) \in DOMAIN h
      BY <2>1
    <2> QED
      BY <1>0, <2>1, <2>2, Zenon DEF HistoryKnown, HistoryBefore
  <1>5. /\ t.history[a] = Append(h, entry)
        /\ t.contracts[a] = info
    <2>1. DOMAIN s.history = Contract /\ DOMAIN s.contracts = Contract
      BY <1>0, StoreFields, Zenon
    <2> QED
      BY <1>1, <2>1, Zenon
  <1>6. \A b \in Contract : b # a =>
          t.history[b] = s.history[b] /\ t.contracts[b] = s.contracts[b]
    <2>1. DOMAIN s.history = Contract /\ DOMAIN s.contracts = Contract
      BY <1>0, StoreFields, Zenon
    <2> QED
      BY <1>1, <2>1, Zenon
  <1>7. \A b \in Contract : HasContract(t, b) <=> HasContract(s, b)
    BY <1>2, <1>5, <1>6, Zenon DEF HasContract
  <1>8. \A c : (HasCode(t, c) <=> HasCode(s, c)) /\ HashOf(t, c) = HashOf(s, c)
    BY <1>1, Zenon DEF HasCode, HashOf
  <1> HIDE DEF h
  <1>9. /\ Len(t.history[a]) = Len(h) + 1
        /\ t.history[a][Len(h) + 1] = entry
        /\ \A i \in 1..Len(h) : t.history[a][i] = h[i]
        /\ t.history[a] # << >>
        /\ DOMAIN t.history[a] = 1..(Len(h) + 1)
    BY <1>3, <1>4, <1>5
  <1>10. HistoryKnown(t, ordered)
    <2> SUFFICES ASSUME NEW b \in Contract
                 PROVE  LET g == t.history[b] IN
                        IF HasContract(t, b)
                        THEN /\ g # << >>
                             /\ g[1].operation = "Init"
                             /\ g[1].updated = t.contracts[b].created
                             /\ g[Len(g)].code = t.contracts[b].code
                             /\ ordered => \A i \in 1..(Len(g) - 1) :
                                             g[i].updated <= g[i + 1].updated
                        ELSE g = << >>
      BY Zenon DEF HistoryKnown
    <2>1. CASE b = a
      <3>1. ordered => \A i \in 1..Len(h) :
                         t.history[a][i].updated <= t.history[a][i + 1].updated
        <4> SUFFICES ASSUME ordered, NEW i \in 1..Len(h)
                     PROVE  t.history[a][i].updated <= t.history[a][i + 1].updated
          BY Zenon
        <4>1. CASE i = Len(h)
          BY <1>3, <1>4, <1>9, <4>1, Zenon
        <4>2. CASE i # Len(h)
          BY <1>4, <1>9, <4>2, SMTT(30)
        <4> QED
          BY <4>1, <4>2, Zenon
      <3>2. HasContract(t, a)
        BY <1>7, Zenon
      <3>3. Len(t.history[a]) - 1 = Len(h)
        BY <1>4, <1>9
      <3>4. /\ t.history[a][1].operation = "Init"
            /\ t.history[a][1].updated = t.contracts[a].created
            /\ t.history[a][Len(t.history[a])].code = t.contracts[a].code
        BY <1>2, <1>3, <1>4, <1>5, <1>9, SMTT(60)
      <3> QED
        BY <1>9, <2>1, <3>1, <3>2, <3>3, <3>4, Zenon
    <2>2. CASE b # a
      BY <1>0, <1>6, <1>7, <2>2, Zenon DEF HistoryKnown
    <2> QED
      BY <2>1, <2>2, Zenon
  <1>11. HistoryBefore(t, position, ordered)
    <2> SUFFICES ASSUME ordered, NEW b \in Contract, NEW i \in DOMAIN t.history[b]
                 PROVE  t.history[b][i].updated <= position
      BY Zenon DEF HistoryBefore
    <2>1. CASE b = a /\ i = Len(h) + 1
      BY <1>3, <1>9, <2>1 DEF Position
    <2>2. CASE b = a /\ i # Len(h) + 1
      <3>1. i \in 1..Len(h)
        BY <1>4, <1>9, <2>2
      <3>2. i \in DOMAIN h
        BY <1>4, <3>1
      <3> QED
        BY <1>0, <1>9, <2>2, <3>1, <3>2, Zenon DEF HistoryBefore, h
    <2>3. CASE b # a
      BY <1>0, <1>6, <2>3, Zenon DEF HistoryBefore
    <2> QED
      BY <2>1, <2>2, <2>3, Zenon
  <1>12. CodeIndexExactIn(t)
    <2>1. Key(t, a) = <<id, position, a>>
      BY <1>2, <1>3, <1>5, <1>9, Zenon DEF Key
    <2>2. Key(s, a) = <<h[Len(h)].code, h[Len(h)].updated, a>>
      BY <1>4, Zenon DEF Key, h
    <2>3. \A b \in Contract : b # a =>
            Key(t, b) = Key(s, b) /\ Key(s, b) # Key(s, a) /\ Key(t, b) # Key(t, a)
      BY <1>6, Zenon DEF Key
    <2>4. \A x : x \in s.byCode <=>
            \E b \in Contract : HasContract(s, b) /\ x = Key(s, b)
      BY <1>0, CodeIndexMembers, Zenon
    <2>5. t.byCode = (s.byCode \ {Key(s, a)}) \cup {Key(t, a)}
      BY <1>1, <2>1, <2>2, Zenon
    <2>6. \A x : x \in t.byCode <=>
            \E b \in Contract : HasContract(t, b) /\ x = Key(t, b)
      BY <1>7, <2>3, <2>4, <2>5
    <2> QED
      BY <1>1, <2>6, CodeIndexMembers, Zenon
  <1>13. CreatorIndexExactIn(t)
    <2>1. \A b \in Contract : CreatorKey(t, b) = CreatorKey(s, b)
      BY <1>2, <1>5, <1>6, Zenon DEF CreatorKey
    <2>2. \A x : x \in s.byCreator <=>
            \E b \in Contract : HasContract(s, b) /\ x = CreatorKey(s, b)
      BY <1>0, CreatorIndexMembers, Zenon
    <2>3. \A x : x \in t.byCreator <=>
            \E b \in Contract : HasContract(t, b) /\ x = CreatorKey(t, b)
      BY <1>1, <1>7, <2>1, <2>2, ZenonT(60)
    <2> QED
      BY <1>1, <2>3, CreatorIndexMembers, Zenon
  <1>14. CodesDense(t) /\ PinnedExist(t)
    BY <1>0, <1>1, <1>8, Zenon DEF CodesDense, PinnedExist
  <1>15. ContractCodeExists(t)
    BY <1>2, <1>5, <1>6, <1>7, <1>8, Zenon DEF StoreInv, ContractCodeExists
  <1>16. ClassicBelow(t)
    <2>1. \A c \in CodeID, i \in InstanceID : ClassicAddress(c, i) \in Contract
      BY ClassicIsContract, Zenon
    <2> QED
      BY <1>0, <1>1, <1>7, <2>1, Zenon DEF ClassicBelow
  <1>17. PortIffCallbacksIn(t)
    <2> SUFFICES ASSUME NEW b \in Contract, HasContract(t, b)
                 PROVE  /\ t.contracts[b].port <=> HashOf(t, t.contracts[b].code) \in IBCHash
                        /\ t.contracts[b].port => b \in t.ports
      BY Zenon DEF PortIffCallbacksIn, Live
    <2>1. CASE b = a
      BY <1>0, <1>1, <1>2, <1>5, <1>8, <2>1, Zenon
      DEF isIBC, KeepsCallbacks, PortIffCallbacksIn, Live
    <2>2. CASE b # a
      <3>1. /\ s.contracts[b].port <=> HashOf(s, s.contracts[b].code) \in IBCHash
            /\ s.contracts[b].port => b \in s.ports
        BY <1>0, <1>7, <2>2, Zenon DEF PortIffCallbacksIn, Live
      <3> QED
        BY <1>1, <1>6, <1>8, <2>2, <3>1, ZenonT(30)
    <2> QED
      BY <2>1, <2>2, Zenon
  <1>18. AccountsPlain(t)
    BY <1>0, <1>1, <1>7, Zenon DEF AccountsPlain
  <1>20. Grows(s, t)
    <2>1. \A b \in Contract : b # a => Extends(s.history[b], t.history[b])
      <3>1. \A b \in Contract : s.history[b] \in Seq(HistoryEntry)
        BY <1>0, StoreFields, Zenon
      <3> QED
        BY <1>6, <3>1, HistoryKept, Zenon
    <2>2. Extends(h, t.history[a])
      <3>1. DOMAIN h = 1..Len(h) /\ Len(h) <= Len(h) + 1
        BY <1>4
      <3> QED
        BY <1>9, <3>1, Zenon DEF Extends
    <2>3. \A b \in Contract : Extends(s.history[b], t.history[b])
      BY <2>1, <2>2, Zenon DEF h
    <2> QED
      <3>1. t.seqCode >= s.seqCode /\ t.seqInst >= s.seqInst
        <4>1. s.seqCode \in Nat /\ s.seqInst \in Nat
          BY <1>0, StoreFields, Zenon
        <4> QED
          BY <1>1, <4>1
      <3>2. \A b \in Contract :
              /\ t.contracts[b].creator = s.contracts[b].creator
              /\ t.contracts[b].created = s.contracts[b].created
              /\ s.contracts[b].port => t.contracts[b].port
        BY <1>2, <1>5, <1>6, Zenon
      <3> QED
        BY <1>1, <1>7, <1>8, <2>3, <3>1, <3>2, Zenon DEF Grows, Live
  <1> QED
    <2>1. StoreInv(t, position, ordered) /\ Grows(s, t) /\ t \in Store /\ t.codes = s.codes
          /\ \A b \in Contract : b # a => t.contracts[b] = s.contracts[b]
      BY <1>20, <1>1, <1>6, <1>10, <1>11, <1>12, <1>13, <1>14, <1>15, <1>16, <1>17, <1>18, Zenon
      DEF StoreInv
    <2> QED
      BY <2>1, Zenon DEF MigratedFrom, t

----------------------------------------------------------------------------
(* The inductive invariant.                                                *)

OnDisk(s, disk) == \A c \in CodeID : HasCode(s, c) => HashOf(s, c) \in disk

\* Only the authority's message gives its submessages more than the default
\* policy, and the contracts that send submessages are not the authority.
PolicyInv ==
  /\ PolicyFromAuthority
  /\ stack # << >> => stack[1].policy = DefaultPolicy
  /\ \A i \in DOMAIN stack : i > 1 => stack[i].sender \in Contract

IInv(ordered) ==
  /\ StoreInv(committed, position, ordered) /\ OnDisk(committed, vmCodes)
  /\ stack \in Seq(Frame)
  /\ \A i \in DOMAIN stack :
       /\ StoreInv(stack[i].store, position, ordered)
       /\ OnDisk(stack[i].store, vmCodes)
       /\ Grows(committed, stack[i].store)
  /\ position \in Position
  /\ vmCodes \subseteq Hash /\ vmPinned \subseteq vmCodes
  /\ PolicyInv

\* What every message handler does, in terms of the invariant.
Effect(a, ordered) ==
  /\ Sends(a)
  /\ \E t \in Store, c \in Contract \cup {NoActor}, p \in Policy :
       /\ Handled(a, t, c, p)
       /\ StoreInv(t, position, ordered) /\ Grows(Top.store, t) /\ OnDisk(t, vmCodes')
       /\ p # DefaultPolicy =>
            p = Top.policy \/ \E act \in Action :
                                p = SubMessagePolicy(selectAuthorizationPolicy(a), act)
       /\ \A b \in Contract :
            (/\ HasContract(Top.store, b) /\ Top.store.contracts[b].admin = NoActor
             /\ t.contracts[b] # Top.store.contracts[b])
            => a = Authority \/ Top.policy # DefaultPolicy
  /\ committed' = committed /\ position' = position
  /\ vmCodes \subseteq vmCodes' /\ vmCodes' \subseteq Hash
  /\ vmPinned' \subseteq vmCodes'

\* What the invariant says of the innermost branch.
LEMMA TopFacts ==
  ASSUME NEW ordered, IInv(ordered), stack # << >>
  PROVE  /\ Len(stack) \in Nat \ {0} /\ Len(stack) \in DOMAIN stack
         /\ DOMAIN stack = 1..Len(stack)
         /\ Top \in Frame
         /\ Top.store \in Store
         /\ StoreInv(Top.store, position, ordered) /\ OnDisk(Top.store, vmCodes)
         /\ Grows(committed, Top.store)
         /\ Top.policy \in Policy
  <1>1. Len(stack) \in Nat \ {0} /\ Len(stack) \in DOMAIN stack /\ Top \in Frame
        /\ DOMAIN stack = 1..Len(stack)
    BY DEF IInv, Top
  <1> QED
    BY <1>1, Zenon DEF IInv, Top, StoreInv, Frame

\* SubMessageAuthorizationPolicy never hands on the authority's own policy.
LEMMA PolicyFacts ==
  /\ DefaultPolicy \in Policy /\ GovPolicy \in Policy
  /\ GovPolicy # DefaultPolicy
  /\ \A act \in Action : PartialPolicy(act) \in Policy
                         /\ PartialPolicy(act) # GovPolicy
                         /\ PartialPolicy(act) # DefaultPolicy
  /\ \A p \in Policy, act \in Action :
       /\ SubMessagePolicy(p, act) \in Policy
       /\ SubMessagePolicy(p, act) # GovPolicy
       /\ p # GovPolicy => SubMessagePolicy(p, act) = p
  BY DEF DefaultPolicy, GovPolicy, PartialPolicy, Policy, SubMessagePolicy, Action,
         Instantiate, MigrateContract

\* AccessType.With yields an access configuration.
LEMMA WithType ==
  ASSUME NEW type \in AccessType, NEW a \in Actor
  PROVE  With(type, a) \in AccessConfig(Actor)
  BY Zenon DEF With, AccessType, AccessConfig, AllowNobody, AllowEverybody, AllowAnyOf

\* The access configuration of a message is an access configuration.
LEMMA ConfigType ==
  ASSUME NEW s \in Store, NEW a \in Actor,
         NEW cfg \in InputConfig \cup {With(s.default, a)}
  PROVE  cfg \in AccessConfig(Actor)
  BY RegistryAssumption, StoreFields, WithType

\* create stores the byte code in wasmvm before the code info refers to it.
LEMMA CreateOnDisk ==
  ASSUME NEW ordered, NEW s, NEW a \in Actor, NEW h \in Hash, NEW pos \in Position,
         NEW access \in AccessConfig(Actor), s.seqCode \in CodeID,
         StoreInv(s, pos, ordered), NEW disk, OnDisk(s, disk)
  PROVE  OnDisk(Create(s, a, h, access), disk \cup {h})
  <1> DEFINE info == [hash |-> h, creator |-> a, access |-> access]
  <1>1. s \in Store /\ DOMAIN s.codes = CodeID
    BY StoreFields, Zenon DEF StoreInv
  <1>2. PICK t : t = Create(s, a, h, access)
    BY Zenon
  <1>3. t.codes = [s.codes EXCEPT ![s.seqCode] = info]
    BY <1>1, <1>2, CreateFields
  <1>4. \A c \in CodeID : c # s.seqCode => t.codes[c] = s.codes[c]
    BY <1>1, <1>3, Zenon
  <1>5. t.codes[s.seqCode] = info
    BY <1>1, <1>3, Zenon
  <1>6. t.codes[s.seqCode].hash = h
    BY <1>5
  <1>7. OnDisk(t, disk \cup {h})
    BY <1>4, <1>6, Zenon DEF OnDisk, HasCode, HashOf
  <1> QED
    BY <1>2, <1>7, Zenon

----------------------------------------------------------------------------
(* The message handlers.                                                   *)

\* The handler StoreCode does what Effect says.
LEMMA StoreCodeEffect ==
  ASSUME NEW ordered, IInv(ordered), NEW a \in Actor, NEW h \in Hash,
         NEW cfg \in InputConfig \cup {With(Top.store.default, a)},
         StoreCode(a, h, cfg)
  PROVE  Effect(a, ordered)
  <1> DEFINE s == Top.store
             t == Create(s, a, h, cfg)
  <1>1. stack # << >> /\ s.seqCode \in CodeID
    BY Zenon DEF StoreCode, Sends, MayCreate
  <1>2. s \in Store /\ StoreInv(s, position, ordered) /\ OnDisk(s, vmCodes)
    BY <1>1, TopFacts, Zenon
  <1>3. cfg \in AccessConfig(Actor)
    BY <1>2, ConfigType, Zenon
  <1>4. position \in Position /\ vmCodes' = vmCodes \cup {h}
    BY Zenon DEF IInv, StoreCode
  <1>5. /\ StoreInv(t, position, ordered) /\ Grows(s, t)
        /\ t \in Store /\ t.contracts = s.contracts
    <2>1. CreatedFrom(s, t, position, ordered)
      BY <1>1, <1>2, <1>3, <1>4, CreateInv, Zenon
    <2> HIDE DEF t
    <2> QED
      BY <2>1, Zenon DEF CreatedFrom
  <1>6. OnDisk(t, vmCodes')
    BY <1>1, <1>2, <1>3, <1>4, CreateOnDisk, Zenon
  <1>8. Handled(a, t, NoActor, DefaultPolicy) /\ Sends(a)
        /\ UNCHANGED <<committed, position, vmPinned>>
    BY Zenon DEF StoreCode
  <1> HIDE DEF t
  <1>9. vmPinned' \subseteq vmCodes' /\ vmCodes' \subseteq Hash
    BY <1>4, <1>8, Zenon DEF IInv
  <1> QED
    BY <1>4, <1>5, <1>6, <1>8, <1>9, PolicyFacts, Zenon DEF Effect

\* An instantiation from a store s1 whose code and sequence are settled.
LEMMA ClassicIsBelow ==
  ASSUME NEW s \in Store, NEW c \in CodeID, s.seqInst \in InstanceID
  PROVE  /\ ClassicAddress(c, s.seqInst) \in Contract
         /\ \A d \in CodeID, i \in InstanceID :
              ClassicAddress(c, s.seqInst) = ClassicAddress(d, i) => i < s.seqInst + 1
  BY DEF ClassicAddress, Contract, Classic, InstanceID

\* The handler InstantiateContract does what Effect says.
LEMMA InstantiateContractEffect ==
  ASSUME NEW ordered, IInv(ordered), NEW a \in Actor, NEW id \in CodeID,
         NEW admin \in InputAdmin,
         NEW label \in Label, InstantiateContract(a, id, admin, label)
  PROVE  Effect(a, ordered)
  <1> DEFINE s == Top.store
             n == NextInstance(s)
             address == ClassicAddress(id, s.seqInst)
             t == Instantiated(n, address, id, a, admin, label)
             p == SubMessagePolicy(selectAuthorizationPolicy(a), Instantiate)
  <1>1. stack # << >> /\ s.seqInst \in InstanceID /\ HasCode(n, id)
        /\ ~HasContract(n, address)
        /\ AccountAcceptable(n.accounts[address])
    BY Zenon DEF InstantiateContract, Sends, MayInstantiate
  <1>2. /\ s \in Store /\ StoreInv(s, position, ordered) /\ OnDisk(s, vmCodes)
        /\ Top.policy \in Policy
    BY <1>1, TopFacts, Zenon
  <1>3. position \in Position /\ admin \in Actor \cup {NoActor}
    BY RegistryAssumption, Zenon DEF IInv
  <1>4. /\ n \in Store /\ n.seqInst = s.seqInst + 1 /\ n.codes = s.codes
        /\ n.contracts = s.contracts
    BY <1>2, NextInstanceFields, Zenon
  <1>5. StoreInv(n, position, ordered) /\ Grows(s, n)
    BY <1>2, <1>3, NextInstanceInv, Zenon
  <1> HIDE DEF n
  <1>6. address \in Contract
        /\ \A d \in CodeID, i \in InstanceID : address = ClassicAddress(d, i) => i < n.seqInst
    BY <1>1, <1>2, <1>4, ClassicIsBelow, Zenon
  <1> HIDE DEF address
  <1>7. StoreInv(t, position, ordered) /\ Grows(n, t)
    BY <1>1, <1>3, <1>5, <1>6, InstantiatedInv, Zenon
  <1>8. t \in Store /\ t.codes = n.codes
        /\ \A b \in Contract : b # address => t.contracts[b] = n.contracts[b]
    <2>1. InstantiatedIn(n, t, address)
      BY <1>1, <1>3, <1>4, <1>6, InstantiatedContracts, Zenon
    <2> HIDE DEF t
    <2> QED
      BY <2>1, Zenon DEF InstantiatedIn
  <1>9. /\ Handled(a, t, address, p) /\ Sends(a)
        /\ UNCHANGED <<committed, position, vmCodes, vmPinned>>
    BY Zenon DEF InstantiateContract, vm, n, address
  <1> HIDE DEF t
  <1>10. Grows(s, t)
    BY <1>2, <1>4, <1>5, <1>7, <1>8, GrowsTransitive, Zenon
  <1>11. OnDisk(t, vmCodes')
    BY <1>2, <1>4, <1>8, <1>9, Zenon DEF OnDisk, HasCode, HashOf
  <1>12. p \in Policy
    BY <1>2, PolicyFacts, Zenon DEF selectAuthorizationPolicy, Action
  <1>13. \A b \in Contract : HasContract(s, b) => t.contracts[b] = s.contracts[b]
    BY <1>1, <1>4, <1>8, Zenon DEF HasContract
  <1>14. vmPinned' \subseteq vmCodes' /\ vmCodes' \subseteq Hash /\ vmCodes \subseteq vmCodes'
    BY <1>9, Zenon DEF IInv
  <1> QED
    BY <1>6, <1>7, <1>8, <1>9, <1>10, <1>11, <1>12, <1>13, <1>14, Zenon DEF Effect, Action

\* The handler InstantiateContract2 does what Effect says.
LEMMA InstantiateContract2Effect ==
  ASSUME NEW ordered, IInv(ordered), NEW a \in Actor, NEW id \in CodeID,
         NEW admin \in InputAdmin,
         NEW label \in Label, NEW salt \in Salt,
         InstantiateContract2(a, id, admin, label, salt)
  PROVE  Effect(a, ordered)
  <1> DEFINE s == Top.store
             address == PredictableAddress(HashOf(s, id), a, salt)
             t == Instantiated(s, address, id, a, admin, label)
             p == SubMessagePolicy(selectAuthorizationPolicy(a), Instantiate)
  <1>1. stack # << >> /\ HasCode(s, id) /\ ~HasContract(s, address)
        /\ AccountAcceptable(s.accounts[address])
        /\ a \in Signer \cup Classic
    BY Zenon DEF InstantiateContract2, Sends, MayInstantiate
  <1>2. /\ s \in Store /\ StoreInv(s, position, ordered) /\ OnDisk(s, vmCodes)
        /\ Top.policy \in Policy
    BY <1>1, TopFacts, Zenon
  <1>3. position \in Position /\ admin \in Actor \cup {NoActor}
    BY RegistryAssumption, Zenon DEF IInv
  <1>4. HashOf(s, id) \in Hash
    BY <1>1, <1>2, StoreFields, Zenon DEF HashOf, HasCode, CodeInfo
  <1>5. address \in Contract
    BY <1>1, <1>4 DEF Contract, Predictable
  <1>6. \A d \in CodeID, i \in InstanceID : address # ClassicAddress(d, i)
    BY Zenon DEF ClassicAddress, PredictableAddress
  <1>9. /\ Handled(a, t, address, p) /\ Sends(a)
        /\ UNCHANGED <<committed, position, vmCodes, vmPinned>>
    BY Zenon DEF InstantiateContract2, vm
  <1> HIDE DEF address
  <1>7. StoreInv(t, position, ordered) /\ Grows(s, t)
    BY <1>1, <1>2, <1>3, <1>5, <1>6, InstantiatedInv, Zenon
  <1>8. t \in Store /\ t.codes = s.codes
        /\ \A b \in Contract : b # address => t.contracts[b] = s.contracts[b]
    <2>1. InstantiatedIn(s, t, address)
      BY <1>1, <1>2, <1>3, <1>5, InstantiatedContracts, Zenon
    <2> HIDE DEF t
    <2> QED
      BY <2>1, Zenon DEF InstantiatedIn
  <1> HIDE DEF t
  <1>11. OnDisk(t, vmCodes')
    BY <1>2, <1>8, <1>9, Zenon DEF OnDisk, HasCode, HashOf
  <1>12. p \in Policy
    BY <1>2, PolicyFacts, Zenon DEF selectAuthorizationPolicy, Action
  <1>13. \A b \in Contract : HasContract(s, b) => t.contracts[b] = s.contracts[b]
    BY <1>1, <1>8, Zenon DEF HasContract
  <1>14. vmPinned' \subseteq vmCodes' /\ vmCodes' \subseteq Hash /\ vmCodes \subseteq vmCodes'
    BY <1>9, Zenon DEF IInv
  <1> QED
    BY <1>5, <1>7, <1>8, <1>9, <1>11, <1>12, <1>13, <1>14, Zenon DEF Effect, Action

\* The handler ExecuteContract does what Effect says.
LEMMA ExecuteContractEffect ==
  ASSUME NEW ordered, IInv(ordered), NEW a \in Actor, NEW c \in Contract, ExecuteContract(a, c)
  PROVE  Effect(a, ordered)
  <1>1. stack # << >> /\ Sends(a) /\ Handled(a, Top.store, c, Top.policy)
        /\ UNCHANGED <<committed, position, vmCodes, vmPinned>>
    BY Zenon DEF ExecuteContract, Sends, vm
  <1>2. /\ Top.store \in Store /\ StoreInv(Top.store, position, ordered)
        /\ OnDisk(Top.store, vmCodes) /\ Top.policy \in Policy
    BY <1>1, TopFacts, Zenon
  <1>3. Grows(Top.store, Top.store)
    BY <1>2, GrowsReflexive, Zenon
  <1>4. vmPinned' \subseteq vmCodes' /\ vmCodes' \subseteq Hash /\ vmCodes \subseteq vmCodes'
    BY <1>1, Zenon DEF IInv
  <1> QED
    BY <1>1, <1>2, <1>3, <1>4, Zenon DEF Effect

\* Who may modify a contract without an admin.
LEMMA ModifyAdminless ==
  ASSUME NEW a, Top.policy \in Policy,
         CanModifyContract(selectAuthorizationPolicy(a), NoActor, a)
  PROVE  a = Authority \/ Top.policy # DefaultPolicy
  BY DEF CanModifyContract, selectAuthorizationPolicy, DefaultPolicy, PartialPolicy

\* The handler Migrate does what Effect says.
LEMMA MigrateEffect ==
  ASSUME NEW ordered, IInv(ordered), NEW a \in Actor, NEW c \in Contract, NEW id \in CodeID,
         Migrate(a, c, id)
  PROVE  Effect(a, ordered)
  <1> DEFINE s == Top.store
             t == Migrated(s, c, id)
             r == MigrateRuns(s, c, id)
             p == SubMessagePolicy(selectAuthorizationPolicy(a), MigrateContract)
  <1>1. /\ stack # << >> /\ HasContract(s, c) /\ HasCode(s, id)
        /\ KeepsCallbacks(s, c, id)
        /\ CanModifyContract(selectAuthorizationPolicy(a), s.contracts[c].admin, a)
    BY Zenon DEF Migrate, Sends, MayMigrate
  <1>2. /\ s \in Store /\ StoreInv(s, position, ordered) /\ OnDisk(s, vmCodes)
        /\ Top.policy \in Policy
    BY <1>1, TopFacts, Zenon
  <1>3. position \in Position
    BY Zenon DEF IInv
  <1>4. /\ StoreInv(t, position, ordered) /\ Grows(s, t) /\ t \in Store /\ t.codes = s.codes
        /\ \A b \in Contract : b # c => t.contracts[b] = s.contracts[b]
    <2>1. MigratedFrom(s, Migrated(s, c, id), c, position, ordered)
      BY <1>1, <1>2, <1>3, MigratedInv, Zenon
    <2> HIDE DEF t
    <2> QED
      BY <2>1, Zenon DEF MigratedFrom, t
  <1>5. /\ Handled(a, t, r, p) /\ Sends(a)
        /\ UNCHANGED <<committed, position, vmCodes, vmPinned>>
    BY Zenon DEF Migrate, vm
  <1>6. r \in Contract \cup {NoActor}
    BY Zenon DEF MigrateRuns
  <1> HIDE DEF t, r
  <1>7. OnDisk(t, vmCodes')
    BY <1>2, <1>4, <1>5, Zenon DEF OnDisk, HasCode, HashOf
  <1>8. p \in Policy
    BY <1>2, PolicyFacts, Zenon DEF selectAuthorizationPolicy, Action
  <1>9. vmPinned' \subseteq vmCodes' /\ vmCodes' \subseteq Hash /\ vmCodes \subseteq vmCodes'
    BY <1>5, Zenon DEF IInv
  <1>10. \A b \in Contract :
           (s.contracts[b].admin = NoActor /\ t.contracts[b] # s.contracts[b])
           => a = Authority \/ Top.policy # DefaultPolicy
    BY <1>1, <1>2, <1>4, ModifyAdminless, Zenon
  <1> QED
    BY <1>4, <1>5, <1>6, <1>7, <1>8, <1>9, <1>10, Zenon DEF Effect, Action

\* The handler StoreAndMigrateContract does what Effect says.
LEMMA StoreAndMigrateContractEffect ==
  ASSUME NEW ordered, IInv(ordered), NEW a \in Actor, NEW h \in Hash,
         NEW cfg \in InputConfig \cup {With(Top.store.default, a)},
         NEW c \in Contract, StoreAndMigrateContract(a, h, cfg, c)
  PROVE  Effect(a, ordered)
  <1> DEFINE s == Top.store
             n == Create(s, a, h, cfg)
             id == s.seqCode
             t == Migrated(n, c, id)
             r == MigrateRuns(n, c, id)
             p == SubMessagePolicy(selectAuthorizationPolicy(a), MigrateContract)
  <1>1. /\ stack # << >> /\ id \in CodeID /\ HasContract(n, c) /\ HasCode(n, id)
        /\ KeepsCallbacks(n, c, id)
        /\ CanModifyContract(selectAuthorizationPolicy(a), n.contracts[c].admin, a)
    BY Zenon DEF StoreAndMigrateContract, Sends, MayMigrate, MayCreate
  <1>2. /\ s \in Store /\ StoreInv(s, position, ordered) /\ OnDisk(s, vmCodes)
        /\ Top.policy \in Policy
    BY <1>1, TopFacts, Zenon
  <1>3. position \in Position /\ cfg \in AccessConfig(Actor)
    BY <1>2, ConfigType, Zenon DEF IInv
  <1>4. /\ StoreInv(n, position, ordered) /\ Grows(s, n)
        /\ n \in Store /\ n.contracts = s.contracts
    <2>1. CreatedFrom(s, n, position, ordered)
      BY <1>1, <1>2, <1>3, CreateInv, Zenon
    <2> HIDE DEF n
    <2> QED
      BY <2>1, Zenon DEF CreatedFrom
  <1>5. vmCodes' = vmCodes \cup {h}
    BY Zenon DEF StoreAndMigrateContract
  <1>6. OnDisk(n, vmCodes')
    BY <1>1, <1>2, <1>3, <1>5, CreateOnDisk, Zenon
  <1>7. /\ Handled(a, t, r, p) /\ Sends(a)
        /\ UNCHANGED <<committed, position, vmPinned>>
    BY Zenon DEF StoreAndMigrateContract
  <1> HIDE DEF n
  <1>8. /\ StoreInv(t, position, ordered) /\ Grows(n, t) /\ t \in Store /\ t.codes = n.codes
        /\ \A b \in Contract : b # c => t.contracts[b] = n.contracts[b]
    <2>1. MigratedFrom(n, Migrated(n, c, id), c, position, ordered)
      BY <1>1, <1>3, <1>4, MigratedInv, Zenon
    <2> HIDE DEF t
    <2> QED
      BY <2>1, Zenon DEF MigratedFrom, t
  <1>9. r \in Contract \cup {NoActor}
    BY Zenon DEF MigrateRuns
  <1> HIDE DEF t, r
  <1>10. Grows(s, t)
    BY <1>2, <1>4, <1>8, GrowsTransitive, Zenon
  <1>11. OnDisk(t, vmCodes')
    BY <1>6, <1>8, Zenon DEF OnDisk, HasCode, HashOf
  <1>12. p \in Policy
    BY <1>2, PolicyFacts, Zenon DEF selectAuthorizationPolicy, Action
  <1>13. vmPinned' \subseteq vmCodes' /\ vmCodes' \subseteq Hash /\ vmCodes \subseteq vmCodes'
    BY <1>5, <1>7, Zenon DEF IInv
  <1>14. \A b \in Contract :
           (s.contracts[b].admin = NoActor /\ t.contracts[b] # s.contracts[b])
           => a = Authority \/ Top.policy # DefaultPolicy
    BY <1>1, <1>2, <1>4, <1>8, ModifyAdminless, Zenon
  <1> QED
    BY <1>7, <1>8, <1>9, <1>10, <1>11, <1>12, <1>13, <1>14, Zenon DEF Effect, Action

\* The handler StoreAndInstantiateContract does what Effect says.
LEMMA StoreAndInstantiateContractEffect ==
  ASSUME NEW ordered, IInv(ordered), NEW a \in Actor, NEW h \in Hash,
         NEW cfg \in InputConfig \cup {With(Top.store.default, a)},
         NEW admin \in InputAdmin, NEW label \in Label,
         StoreAndInstantiateContract(a, h, cfg, admin, label)
  PROVE  Effect(a, ordered)
  <1> DEFINE s == Top.store
             id == s.seqCode
             k == Create(s, a, h, cfg)
             n == NextInstance(k)
             address == ClassicAddress(id, s.seqInst)
             t == Instantiated(n, address, id, a, admin, label)
             p == SubMessagePolicy(selectAuthorizationPolicy(a), Instantiate)
  <1>1. /\ stack # << >> /\ id \in CodeID /\ s.seqInst \in InstanceID
        /\ HasCode(n, id) /\ ~HasContract(n, address)
        /\ AccountAcceptable(n.accounts[address])
    BY Zenon DEF StoreAndInstantiateContract, Sends, MayInstantiate, MayCreate
  <1>2. /\ s \in Store /\ StoreInv(s, position, ordered) /\ OnDisk(s, vmCodes)
        /\ Top.policy \in Policy
    BY <1>1, TopFacts, Zenon
  <1>3. /\ position \in Position /\ admin \in Actor \cup {NoActor}
        /\ cfg \in AccessConfig(Actor)
    BY <1>2, ConfigType, RegistryAssumption, Zenon DEF IInv
  <1>4. /\ StoreInv(k, position, ordered) /\ Grows(s, k) /\ k \in Store
        /\ k.contracts = s.contracts /\ k.seqInst = s.seqInst
    <2>1. CreatedFrom(s, k, position, ordered)
      BY <1>1, <1>2, <1>3, CreateInv, Zenon
    <2> HIDE DEF k
    <2> QED
      BY <2>1, Zenon DEF CreatedFrom
  <1>5. vmCodes' = vmCodes \cup {h}
    BY Zenon DEF StoreAndInstantiateContract
  <1>6. OnDisk(k, vmCodes')
    BY <1>1, <1>2, <1>3, <1>5, CreateOnDisk, Zenon
  <1>7. /\ Handled(a, t, address, p) /\ Sends(a)
        /\ UNCHANGED <<committed, position, vmPinned>>
    BY Zenon DEF StoreAndInstantiateContract
  <1> HIDE DEF k
  <1>8. /\ n \in Store /\ n.seqInst = k.seqInst + 1 /\ n.codes = k.codes
        /\ n.contracts = k.contracts
    BY <1>4, NextInstanceFields, Zenon
  <1>9. StoreInv(n, position, ordered) /\ Grows(k, n)
    BY <1>3, <1>4, NextInstanceInv, Zenon
  <1> HIDE DEF n
  <1>10. address \in Contract
         /\ \A d \in CodeID, i \in InstanceID : address = ClassicAddress(d, i) => i < n.seqInst
    BY <1>1, <1>2, <1>4, <1>8, ClassicIsBelow, Zenon
  <1> HIDE DEF address
  <1>11. StoreInv(t, position, ordered) /\ Grows(n, t)
    BY <1>1, <1>3, <1>9, <1>10, InstantiatedInv, Zenon
  <1>12. t \in Store /\ t.codes = n.codes
         /\ \A b \in Contract : b # address => t.contracts[b] = n.contracts[b]
    <2>1. id \in CodeID
      BY <1>1, Zenon
    <2>2. n \in Store /\ address \in Contract
      BY <1>8, <1>10, Zenon
    <2>3. position \in Position /\ admin \in Actor \cup {NoActor}
      BY <1>3, Zenon
    <2>4. InstantiatedIn(n, t, address)
      BY <2>1, <2>2, <2>3, InstantiatedContracts, Zenon
    <2> HIDE DEF t
    <2> QED
      BY <2>4, Zenon DEF InstantiatedIn
  <1> HIDE DEF t
  <1>13. Grows(s, t)
    <2>1. Grows(s, n)
      BY <1>2, <1>4, <1>8, <1>9, GrowsTransitive, Zenon
    <2> QED
      BY <1>2, <1>8, <1>11, <1>12, <2>1, GrowsTransitive, Zenon
  <1>14. OnDisk(t, vmCodes')
    BY <1>6, <1>8, <1>12, Zenon DEF OnDisk, HasCode, HashOf
  <1>15. p \in Policy
    BY <1>2, PolicyFacts, Zenon DEF selectAuthorizationPolicy, Action
  <1>16. \A b \in Contract : HasContract(s, b) => t.contracts[b] = s.contracts[b]
    BY <1>1, <1>4, <1>8, <1>12, Zenon DEF HasContract
  <1>17. vmPinned' \subseteq vmCodes' /\ vmCodes' \subseteq Hash /\ vmCodes \subseteq vmCodes'
    BY <1>5, <1>7, Zenon DEF IInv
  <1> QED
    BY <1>7, <1>10, <1>11, <1>12, <1>13, <1>14, <1>15, <1>16, <1>17, Zenon DEF Effect, Action

\* The handlers that run no contract and leave wasmvm's codes alone.
LEMMA QuietEffect ==
  ASSUME NEW ordered, IInv(ordered), NEW a \in Actor, NEW t, Sends(a),
         Handled(a, t, NoActor, DefaultPolicy),
         StoreInv(t, position, ordered), Grows(Top.store, t), OnDisk(t, vmCodes),
         \A b \in Contract :
            (/\ HasContract(Top.store, b) /\ Top.store.contracts[b].admin = NoActor
             /\ t.contracts[b] # Top.store.contracts[b])
            => a = Authority \/ Top.policy # DefaultPolicy,
         UNCHANGED <<committed, position, vmCodes>>, vmPinned' \subseteq vmCodes
  PROVE  Effect(a, ordered)
  <1>1. t \in Store
    BY Zenon DEF StoreInv
  <1>2. vmPinned' \subseteq vmCodes' /\ vmCodes' \subseteq Hash /\ vmCodes \subseteq vmCodes'
    BY Zenon DEF IInv
  <1> QED
    BY <1>1, <1>2, PolicyFacts, Zenon DEF Effect

\* A change of one contract's record by somebody who may modify it.
LEMMA ContractChangeEffect ==
  ASSUME NEW ordered, IInv(ordered), NEW a \in Actor, NEW c \in Contract,
         NEW info \in ContractInfo,
         HasContract(Top.store, c),
         CanModifyContract(selectAuthorizationPolicy(a), Top.store.contracts[c].admin, a),
         info.code = Top.store.contracts[c].code,
         info.creator = Top.store.contracts[c].creator,
         info.created = Top.store.contracts[c].created,
         info.port = Top.store.contracts[c].port,
         Sends(a),
         Handled(a, [Top.store EXCEPT !.contracts[c] = info], NoActor, DefaultPolicy),
         UNCHANGED <<committed, position, vmCodes, vmPinned>>
  PROVE  Effect(a, ordered)
  <1> DEFINE s == Top.store
             t == [s EXCEPT !.contracts[c] = info]
  <1>1. /\ s \in Store /\ StoreInv(s, position, ordered) /\ OnDisk(s, vmCodes)
        /\ Top.policy \in Policy /\ position \in Position
    BY TopFacts, Zenon DEF Sends, IInv
  <1>2. StoreInv(t, position, ordered) /\ Grows(s, t)
    BY <1>1, ContractChangeInv, Zenon
  <1>3. t.codes = s.codes /\ \A b \in Contract : b # c => t.contracts[b] = s.contracts[b]
    <2> HIDE DEF s
    <2> QED
      BY <1>1, StoreFields, Zenon DEF Store
  <1> HIDE DEF t
  <1>4. OnDisk(t, vmCodes)
    BY <1>1, <1>3, Zenon DEF OnDisk, HasCode, HashOf
  <1>5. \A b \in Contract :
          (s.contracts[b].admin = NoActor /\ t.contracts[b] # s.contracts[b])
          => a = Authority \/ Top.policy # DefaultPolicy
    BY <1>1, <1>3, ModifyAdminless, Zenon
  <1>6. vmPinned' \subseteq vmCodes
    BY Zenon DEF IInv
  <1>7. Handled(a, t, NoActor, DefaultPolicy)
    BY Zenon DEF t
  <1> QED
    BY <1>2, <1>4, <1>5, <1>6, <1>7, QuietEffect, Zenon

\* The handler SetContractAdmin does what Effect says.
LEMMA SetContractAdminEffect ==
  ASSUME NEW ordered, IInv(ordered), NEW a \in Actor, NEW c \in Contract,
         NEW admin \in InputAdmin,
         SetContractAdmin(a, c, admin)
  PROVE  Effect(a, ordered)
  <1> DEFINE old == Top.store.contracts[c]
             info == [old EXCEPT !.admin = admin]
  <1>1. /\ Sends(a) /\ HasContract(Top.store, c)
        /\ CanModifyContract(selectAuthorizationPolicy(a), old.admin, a)
        /\ Handled(a, [Top.store EXCEPT !.contracts[c] = info], NoActor, DefaultPolicy)
        /\ UNCHANGED <<committed, position, vmCodes, vmPinned>>
    BY Zenon DEF SetContractAdmin, vm
  <1>2. old \in ContractInfo
    BY <1>1, TopFacts, StoreFields, Zenon DEF Sends, HasContract
  <1>3. admin \in Actor \cup {NoActor}
    BY RegistryAssumption, Zenon
  <1>4. /\ info \in ContractInfo /\ info.code = old.code /\ info.creator = old.creator
        /\ info.created = old.created /\ info.port = old.port
    <2> HIDE DEF old
    <2> QED
      BY <1>2, <1>3, Zenon DEF ContractInfo
  <1> HIDE DEF info
  <1> QED
    BY <1>1, <1>4, ContractChangeEffect, Zenon

\* The handler UpdateContractLabel does what Effect says.
LEMMA UpdateContractLabelEffect ==
  ASSUME NEW ordered, IInv(ordered), NEW a \in Actor, NEW c \in Contract, NEW label \in Label,
         UpdateContractLabel(a, c, label)
  PROVE  Effect(a, ordered)
  <1> DEFINE old == Top.store.contracts[c]
             info == [old EXCEPT !.label = label]
  <1>1. /\ Sends(a) /\ HasContract(Top.store, c)
        /\ CanModifyContract(selectAuthorizationPolicy(a), old.admin, a)
        /\ Handled(a, [Top.store EXCEPT !.contracts[c] = info], NoActor, DefaultPolicy)
        /\ UNCHANGED <<committed, position, vmCodes, vmPinned>>
    BY Zenon DEF UpdateContractLabel, vm
  <1>2. old \in ContractInfo
    BY <1>1, TopFacts, StoreFields, Zenon DEF Sends, HasContract
  <1>4. /\ info \in ContractInfo /\ info.code = old.code /\ info.creator = old.creator
        /\ info.created = old.created /\ info.port = old.port
    <2> HIDE DEF old
    <2> QED
      BY <1>2, Zenon DEF ContractInfo
  <1> HIDE DEF info
  <1> QED
    BY <1>1, <1>4, ContractChangeEffect, Zenon

\* The handler UpdateInstantiateConfig does what Effect says.
LEMMA UpdateInstantiateConfigEffect ==
  ASSUME NEW ordered, IInv(ordered), NEW a \in Actor, NEW c \in CodeID, NEW cfg \in InputConfig,
         UpdateInstantiateConfig(a, c, cfg)
  PROVE  Effect(a, ordered)
  <1> DEFINE s == Top.store
             old == s.codes[c]
             info == [old EXCEPT !.access = cfg]
             t == [s EXCEPT !.codes[c] = info]
  <1>1. /\ Sends(a) /\ HasCode(s, c)
        /\ Handled(a, t, NoActor, DefaultPolicy)
        /\ UNCHANGED <<committed, position, vmCodes, vmPinned>>
    BY Zenon DEF UpdateInstantiateConfig, vm
  <1>2. /\ s \in Store /\ StoreInv(s, position, ordered) /\ OnDisk(s, vmCodes)
        /\ position \in Position
    BY <1>1, TopFacts, Zenon DEF Sends, IInv
  <1>3. old \in CodeInfo
    BY <1>1, <1>2, StoreFields, Zenon DEF HasCode
  <1>4. cfg \in AccessConfig(Actor)
    BY RegistryAssumption, Zenon
  <1>5. info \in CodeInfo /\ info.hash = old.hash /\ info.creator = old.creator
    <2> HIDE DEF old
    <2> QED
      BY <1>3, <1>4, Zenon DEF CodeInfo
  <1> HIDE DEF info
  <1>6. StoreInv(t, position, ordered) /\ Grows(s, t)
    BY <1>1, <1>2, <1>5, CodeChangeInv, Zenon
  <1>7. t.codes = [s.codes EXCEPT ![c] = info] /\ t.contracts = s.contracts
    <2> HIDE DEF s
    <2> QED
      BY <1>2, StoreFields, Zenon DEF Store
  <1> HIDE DEF t
  <1>8. OnDisk(t, vmCodes)
    <2>1. \A d \in CodeID : d # c => t.codes[d] = s.codes[d]
      BY <1>1, <1>2, <1>7, StoreFields, Zenon
    <2>2. t.codes[c] = info
      BY <1>1, <1>2, <1>7, StoreFields, Zenon
    <2>3. HasCode(s, c) /\ info.hash = s.codes[c].hash
      BY <1>1, <1>2, <1>5, Zenon
    <2> QED
      BY <1>2, <2>1, <2>2, <2>3, Zenon DEF OnDisk, HasCode, HashOf
  <1>9. vmPinned' \subseteq vmCodes
    BY <1>1, Zenon DEF IInv
  <1> QED
    BY <1>1, <1>6, <1>7, <1>8, <1>9, QuietEffect, Zenon

\* The handlers of the authority that change parameters and pins.
LEMMA AuthorityChangeEffect ==
  ASSUME NEW ordered, IInv(ordered), NEW a \in Actor, Sends(a), NEW t \in Store,
         Handled(a, t, NoActor, DefaultPolicy),
         t.codes = Top.store.codes, t.contracts = Top.store.contracts,
         t.history = Top.store.history, t.byCode = Top.store.byCode,
         t.byCreator = Top.store.byCreator, t.ports = Top.store.ports,
         t.seqCode = Top.store.seqCode, t.seqInst = Top.store.seqInst,
         t.accounts = Top.store.accounts, PinnedExist(t),
         UNCHANGED <<committed, position, vmCodes>>, vmPinned' \subseteq vmCodes
  PROVE  Effect(a, ordered)
  <1>1. /\ Top.store \in Store /\ StoreInv(Top.store, position, ordered)
        /\ OnDisk(Top.store, vmCodes) /\ position \in Position
    BY TopFacts, Zenon DEF Sends, IInv
  <1>2. AccountsPlain(t)
    BY <1>1, Zenon DEF StoreInv, AccountsPlain, HasContract
  <1>3. StoreInv(t, position, ordered) /\ Grows(Top.store, t)
    BY <1>1, <1>2, OtherFieldsInv, Zenon
  <1>4. OnDisk(t, vmCodes)
    BY <1>1, Zenon DEF OnDisk, HasCode, HashOf
  <1> QED
    BY <1>3, <1>4, QuietEffect, Zenon

\* A handler that changes the parameters.
LEMMA UploadChangeEffect ==
  ASSUME NEW ordered, IInv(ordered), NEW a \in Actor, Sends(a),
         NEW upload \in AccessConfig(Actor),
         NEW default \in AccessType,
         Handled(a, [Top.store EXCEPT !.upload = upload, !.default = default],
                 NoActor, DefaultPolicy),
         UNCHANGED <<committed, position, vmCodes, vmPinned>>
  PROVE  Effect(a, ordered)
  <1> DEFINE s == Top.store
             t == [s EXCEPT !.upload = upload, !.default = default]
  <1>1. s \in Store /\ StoreInv(s, position, ordered)
    BY TopFacts, Zenon DEF Sends
  <1>2. /\ t \in Store /\ t.codes = s.codes /\ t.contracts = s.contracts
        /\ t.history = s.history /\ t.byCode = s.byCode
        /\ t.byCreator = s.byCreator /\ t.ports = s.ports /\ t.accounts = s.accounts
        /\ t.seqCode = s.seqCode /\ t.seqInst = s.seqInst /\ t.pinned = s.pinned
    <2> HIDE DEF s
    <2> QED
      BY <1>1, Zenon DEF Store
  <1>3. Handled(a, t, NoActor, DefaultPolicy)
    BY Zenon
  <1> HIDE DEF t
  <1>4. PinnedExist(t)
    BY <1>1, <1>2, Zenon DEF StoreInv, PinnedExist, HasCode
  <1>5. vmPinned' \subseteq vmCodes
    BY Zenon DEF IInv
  <1> QED
    BY <1>2, <1>3, <1>4, <1>5, AuthorityChangeEffect, Zenon

\* The handler UpdateParams does what Effect says.
LEMMA UpdateParamsEffect ==
  ASSUME NEW ordered, IInv(ordered), NEW a \in Actor, NEW cfg \in InputConfig,
         NEW type \in InputDefault,
         UpdateParams(a, cfg, type)
  PROVE  Effect(a, ordered)
  BY UploadChangeEffect, RegistryAssumption, Zenon DEF UpdateParams, vm

\* Only the address list of the upload configuration changes.
LEMMA AddressesChangeEffect ==
  ASSUME NEW ordered, IInv(ordered), NEW a \in Actor, Sends(a), NEW S \in SUBSET Actor,
         Handled(a, [Top.store EXCEPT !.upload = [Top.store.upload EXCEPT !.addresses = S]],
                 NoActor, DefaultPolicy),
         UNCHANGED <<committed, position, vmCodes, vmPinned>>
  PROVE  Effect(a, ordered)
  <1> DEFINE s == Top.store
             u == [s.upload EXCEPT !.addresses = S]
             t == [s EXCEPT !.upload = u]
  <1>1. s \in Store /\ StoreInv(s, position, ordered)
    BY TopFacts, Zenon DEF Sends
  <1>2. u \in AccessConfig(Actor)
    BY <1>1, StoreFields, Zenon DEF AccessConfig
  <1> HIDE DEF u
  <1>3. /\ t \in Store /\ t.codes = s.codes /\ t.contracts = s.contracts
        /\ t.history = s.history /\ t.byCode = s.byCode
        /\ t.byCreator = s.byCreator /\ t.ports = s.ports /\ t.accounts = s.accounts
        /\ t.seqCode = s.seqCode /\ t.seqInst = s.seqInst /\ t.pinned = s.pinned
    <2> HIDE DEF s
    <2> QED
      BY <1>1, <1>2, Zenon DEF Store
  <1>4. Handled(a, t, NoActor, DefaultPolicy)
    BY Zenon DEF u
  <1> HIDE DEF t
  <1>5. PinnedExist(t)
    BY <1>1, <1>3, Zenon DEF StoreInv, PinnedExist, HasCode
  <1>6. vmPinned' \subseteq vmCodes
    BY Zenon DEF IInv
  <1> QED
    BY <1>3, <1>4, <1>5, <1>6, AuthorityChangeEffect, Zenon

\* A list of addresses is an access configuration.
LEMMA AddressListType ==
  ASSUME NEW ordered, IInv(ordered), NEW a, Sends(a)
  PROVE  Top.store.upload.addresses \in SUBSET Actor
  BY TopFacts, StoreFields, Zenon DEF Sends, AccessConfig

\* The handler AddCodeUploadParamsAddresses does what Effect says.
LEMMA AddCodeUploadParamsAddressesEffect ==
  ASSUME NEW ordered, IInv(ordered), NEW a \in Actor, NEW S \in SUBSET User,
         AddCodeUploadParamsAddresses(a, S)
  PROVE  Effect(a, ordered)
  <1>1. /\ Sends(a)
        /\ Handled(a, [Top.store EXCEPT !.upload = [Top.store.upload EXCEPT
                        !.addresses = Top.store.upload.addresses \cup S]],
                   NoActor, DefaultPolicy)
        /\ UNCHANGED <<committed, position, vmCodes, vmPinned>>
    BY Zenon DEF AddCodeUploadParamsAddresses, vm
  <1>2. Top.store.upload.addresses \cup S \in SUBSET Actor
    BY <1>1, AddressListType, Zenon DEF Actor, Signer
  <1> QED
    BY <1>1, <1>2, AddressesChangeEffect, Zenon

\* The handler RemoveCodeUploadParamsAddresses does what Effect says.
LEMMA RemoveCodeUploadParamsAddressesEffect ==
  ASSUME NEW ordered, IInv(ordered), NEW a \in Actor, NEW S \in SUBSET User,
         RemoveCodeUploadParamsAddresses(a, S)
  PROVE  Effect(a, ordered)
  <1>1. /\ Sends(a)
        /\ Handled(a, [Top.store EXCEPT !.upload = [Top.store.upload EXCEPT
                        !.addresses = Top.store.upload.addresses \ S]],
                   NoActor, DefaultPolicy)
        /\ UNCHANGED <<committed, position, vmCodes, vmPinned>>
    BY Zenon DEF RemoveCodeUploadParamsAddresses, vm
  <1>2. Top.store.upload.addresses \ S \in SUBSET Actor
    BY <1>1, AddressListType, Zenon
  <1> QED
    BY <1>1, <1>2, AddressesChangeEffect, Zenon

\* A handler that changes the pinned codes.
LEMMA PinsChangeEffect ==
  ASSUME NEW ordered, IInv(ordered), NEW a \in Actor, Sends(a), NEW P \in SUBSET CodeID,
         \A c \in P : HasCode(Top.store, c),
         Handled(a, [Top.store EXCEPT !.pinned = P], NoActor, DefaultPolicy),
         UNCHANGED <<committed, position, vmCodes>>, vmPinned' \subseteq vmCodes
  PROVE  Effect(a, ordered)
  <1> DEFINE s == Top.store
             t == [s EXCEPT !.pinned = P]
  <1>1. s \in Store /\ StoreInv(s, position, ordered)
    BY TopFacts, Zenon DEF Sends
  <1>2. /\ t \in Store /\ t.codes = s.codes /\ t.contracts = s.contracts
        /\ t.history = s.history /\ t.byCode = s.byCode
        /\ t.byCreator = s.byCreator /\ t.ports = s.ports /\ t.accounts = s.accounts
        /\ t.seqCode = s.seqCode /\ t.seqInst = s.seqInst /\ t.pinned = P
    <2> HIDE DEF s
    <2> QED
      BY <1>1, Zenon DEF Store
  <1>3. Handled(a, t, NoActor, DefaultPolicy)
    BY Zenon
  <1> HIDE DEF t
  <1>4. PinnedExist(t)
    BY <1>2, Zenon DEF PinnedExist, HasCode
  <1> QED
    BY <1>2, <1>3, <1>4, AuthorityChangeEffect, Zenon

\* The handler PinCodes does what Effect says.
LEMMA PinCodesEffect ==
  ASSUME NEW ordered, IInv(ordered), NEW a \in Actor, NEW ids \in InputPin, PinCodes(a, ids)
  PROVE  Effect(a, ordered)
  <1>1. /\ Sends(a) /\ \A c \in ids : HasCode(Top.store, c)
        /\ Handled(a, [Top.store EXCEPT !.pinned = Top.store.pinned \cup ids],
                   NoActor, DefaultPolicy)
        /\ UNCHANGED <<committed, position, vmCodes>>
        /\ vmPinned' = vmPinned \cup Hashes(Top.store, ids)
    BY Zenon DEF PinCodes
  <1>2. /\ Top.store \in Store /\ StoreInv(Top.store, position, ordered)
        /\ OnDisk(Top.store, vmCodes)
    BY <1>1, TopFacts, Zenon DEF Sends
  <1>3. ids \subseteq CodeID
    BY RegistryAssumption, Zenon
  <1>4. /\ Top.store.pinned \cup ids \in SUBSET CodeID
        /\ \A c \in Top.store.pinned \cup ids : HasCode(Top.store, c)
    BY <1>1, <1>2, <1>3, StoreFields, Zenon DEF StoreInv, PinnedExist
  <1>5. vmPinned' \subseteq vmCodes
    BY <1>1, <1>2, <1>3, Zenon DEF IInv, Hashes, OnDisk
  <1> QED
    BY <1>1, <1>4, <1>5, PinsChangeEffect, Zenon

\* The handler UnpinCodes does what Effect says.
LEMMA UnpinCodesEffect ==
  ASSUME NEW ordered, IInv(ordered), NEW a \in Actor, NEW ids \in InputPin, UnpinCodes(a, ids)
  PROVE  Effect(a, ordered)
  <1>1. /\ Sends(a)
        /\ Handled(a, [Top.store EXCEPT !.pinned = Top.store.pinned \ ids],
                   NoActor, DefaultPolicy)
        /\ UNCHANGED <<committed, position, vmCodes>>
        /\ vmPinned' = vmPinned \ Hashes(Top.store, ids)
    BY Zenon DEF UnpinCodes
  <1>2. Top.store \in Store /\ StoreInv(Top.store, position, ordered)
    BY <1>1, TopFacts, Zenon DEF Sends
  <1>4. /\ Top.store.pinned \ ids \in SUBSET CodeID
        /\ \A c \in Top.store.pinned \ ids : HasCode(Top.store, c)
    BY <1>2, StoreFields, Zenon DEF StoreInv, PinnedExist
  <1>5. vmPinned' \subseteq vmCodes
    BY <1>1, Zenon DEF IInv
  <1> QED
    BY <1>1, <1>4, <1>5, PinsChangeEffect, Zenon

----------------------------------------------------------------------------
(* Steps.                                                                  *)

\* Every message handler is one of the above.
LEMMA MessageEffect ==
  ASSUME NEW ordered, IInv(ordered), Message
  PROVE  \E a \in Actor : Effect(a, ordered)
  <1>1. PICK a \in Actor :
          \/ \E h \in Hash, cfg \in InputConfig \cup {With(Top.store.default, a)} :
               \/ StoreCode(a, h, cfg)
               \/ \E admin \in InputAdmin, l \in Label :
                    StoreAndInstantiateContract(a, h, cfg, admin, l)
               \/ \E c \in Contract : StoreAndMigrateContract(a, h, cfg, c)
          \/ \E id \in CodeID, admin \in InputAdmin, l \in Label :
               \/ InstantiateContract(a, id, admin, l)
               \/ \E s \in Salt : InstantiateContract2(a, id, admin, l, s)
          \/ \E c \in Contract :
               \/ ExecuteContract(a, c)
               \/ SudoContract(a, c)
               \/ \E id \in CodeID : Migrate(a, c, id)
               \/ \E admin \in InputAdmin : SetContractAdmin(a, c, admin)
               \/ \E l \in Label : UpdateContractLabel(a, c, l)
          \/ \E id \in CodeID, cfg \in InputConfig : UpdateInstantiateConfig(a, id, cfg)
          \/ \E cfg \in InputConfig, t \in InputDefault : UpdateParams(a, cfg, t)
          \/ \E S \in {T \in SUBSET User : ValidAddresses(T)} :
               \/ AddCodeUploadParamsAddresses(a, S)
               \/ RemoveCodeUploadParamsAddresses(a, S)
          \/ \E ids \in InputPin : PinCodes(a, ids) \/ UnpinCodes(a, ids)
    BY Zenon DEF Message
  <1>2. CASE \E h \in Hash, cfg \in InputConfig \cup {With(Top.store.default, a)} :
               \/ StoreCode(a, h, cfg)
               \/ \E admin \in InputAdmin, l \in Label :
                    StoreAndInstantiateContract(a, h, cfg, admin, l)
               \/ \E c \in Contract : StoreAndMigrateContract(a, h, cfg, c)
    BY Zenon, <1>2, StoreCodeEffect, StoreAndInstantiateContractEffect,
       StoreAndMigrateContractEffect, Zenon
  <1>3. CASE \E id \in CodeID, admin \in InputAdmin, l \in Label :
               \/ InstantiateContract(a, id, admin, l)
               \/ \E s \in Salt : InstantiateContract2(a, id, admin, l, s)
    BY <1>3, InstantiateContractEffect, InstantiateContract2Effect, Zenon
  <1>4. CASE \E c \in Contract :
               \/ ExecuteContract(a, c)
               \/ SudoContract(a, c)
               \/ \E id \in CodeID : Migrate(a, c, id)
               \/ \E admin \in InputAdmin : SetContractAdmin(a, c, admin)
               \/ \E l \in Label : UpdateContractLabel(a, c, l)
    BY <1>4, ExecuteContractEffect, MigrateEffect, SetContractAdminEffect,
       UpdateContractLabelEffect, Zenon DEF SudoContract
  <1>5. CASE \E id \in CodeID, cfg \in InputConfig : UpdateInstantiateConfig(a, id, cfg)
    BY <1>5, UpdateInstantiateConfigEffect, Zenon
  <1>6. CASE \E cfg \in InputConfig, t \in InputDefault : UpdateParams(a, cfg, t)
    BY <1>6, UpdateParamsEffect, Zenon
  <1>7. CASE \E S \in {T \in SUBSET User : ValidAddresses(T)} :
               \/ AddCodeUploadParamsAddresses(a, S)
               \/ RemoveCodeUploadParamsAddresses(a, S)
    BY Zenon, <1>7, AddCodeUploadParamsAddressesEffect,
       RemoveCodeUploadParamsAddressesEffect, Zenon
  <1>8. CASE \E ids \in InputPin : PinCodes(a, ids) \/ UnpinCodes(a, ids)
    BY <1>8, PinCodesEffect, UnpinCodesEffect, Zenon
  <1> QED
    BY <1>1, <1>2, <1>3, <1>4, <1>5, <1>6, <1>7, <1>8, Zenon

----------------------------------------------------------------------------
(* The steps, and the stack.                                               *)

\* The sequence with its last element replaced.
LEMMA ReplaceLast ==
  ASSUME NEW S, NEW q \in Seq(S), NEW n \in Nat \ {0}, DOMAIN q = 1..n, NEW f \in S
  PROVE  /\ [q EXCEPT ![n] = f] \in Seq(S)
         /\ DOMAIN [q EXCEPT ![n] = f] = 1..n /\ Len([q EXCEPT ![n] = f]) = n
         /\ [q EXCEPT ![n] = f][n] = f
         /\ \A i \in 1..n : i # n => [q EXCEPT ![n] = f][i] = q[i]
         /\ [q EXCEPT ![n] = f] # << >>
  <1>1. Len(q) = n /\ q \in [1..n -> S]
    OBVIOUS
  <1> DEFINE r == [q EXCEPT ![n] = f]
  <1>2. r \in [1..n -> S] /\ r[n] = f /\ \A i \in 1..n : i # n => r[i] = q[i]
    BY <1>1
  <1> HIDE DEF r
  <1>3. r \in Seq(S) /\ DOMAIN r = 1..n /\ Len(r) = n /\ r # << >>
    BY <1>2
  <1> QED
    BY <1>2, <1>3, Zenon DEF r

\* A step that replaces the innermost branch keeps the invariant.
LEMMA EffectStep ==
  ASSUME NEW ordered, IInv(ordered), NEW a \in Actor, Effect(a, ordered)
  PROVE  IInv(ordered)'
  <1> DEFINE n == Len(stack)
  <1>1. PICK t \in Store, c \in Contract \cup {NoActor}, p \in Policy :
          /\ Handled(a, t, c, p)
          /\ StoreInv(t, position, ordered) /\ Grows(Top.store, t) /\ OnDisk(t, vmCodes')
          /\ p # DefaultPolicy =>
               p = Top.policy \/ \E act \in Action :
                                   p = SubMessagePolicy(selectAuthorizationPolicy(a), act)
    BY Zenon DEF Effect
  <1>2. /\ stack # << >> /\ Sends(a) /\ committed' = committed /\ position' = position
        /\ vmCodes \subseteq vmCodes' /\ vmCodes' \subseteq Hash
        /\ vmPinned' \subseteq vmCodes'
    BY Zenon DEF Effect, Sends
  <1>3. /\ n \in Nat \ {0} /\ n \in DOMAIN stack /\ DOMAIN stack = 1..n
        /\ Top \in Frame /\ Top.store \in Store /\ Grows(committed, Top.store)
        /\ committed \in Store /\ stack \in Seq(Frame)
    BY <1>2, TopFacts, Zenon DEF IInv, StoreInv
  <1> DEFINE f == [Top EXCEPT !.store = t, !.sender = a, !.handled = TRUE,
                              !.running = c, !.subPolicy = p]
  <1>4. stack' = [stack EXCEPT ![n] = f]
    BY <1>1 DEF Handled, Top
  <1>5. /\ f \in Frame /\ f.store = t /\ f.sender = a /\ f.subPolicy = p
        /\ f.policy = Top.policy
    BY <1>3, Zenon DEF Frame
  <1> HIDE DEF f, n
  <1>6. /\ stack' \in Seq(Frame) /\ DOMAIN stack' = 1..n /\ Len(stack') = n
        /\ stack'[n] = f
        /\ \A i \in 1..n : i # n => stack'[i] = stack[i]
        /\ stack' # << >>
    BY <1>3, <1>4, <1>5, ReplaceLast
  <1>7. \A i \in DOMAIN stack' :
          /\ StoreInv(stack'[i].store, position', ordered)
          /\ OnDisk(stack'[i].store, vmCodes')
          /\ Grows(committed', stack'[i].store)
    <2> SUFFICES ASSUME NEW i \in 1..n
                 PROVE  /\ StoreInv(stack'[i].store, position, ordered)
                        /\ OnDisk(stack'[i].store, vmCodes')
                        /\ Grows(committed, stack'[i].store)
      BY <1>2, <1>6
    <2>1. CASE i = n
      <3>1. Grows(committed, t)
        BY <1>1, <1>3, GrowsTransitive
      <3> QED
        BY <1>1, <1>5, <1>6, <2>1, <3>1
    <2>2. CASE i # n
      BY <1>2, <1>3, <1>6, <2>2 DEF IInv, OnDisk
    <2> QED
      BY <2>1, <2>2
  <1>8. OnDisk(committed', vmCodes') /\ StoreInv(committed', position', ordered)
        /\ position' \in Position
    BY <1>2 DEF IInv, OnDisk
  <1>9. PolicyInv'
    <2>1. /\ \A i \in 1..n : stack[i].policy # GovPolicy /\ stack[i].subPolicy # GovPolicy
          /\ \A i \in 1..n :
               (stack[i].policy # DefaultPolicy \/ stack[i].subPolicy # DefaultPolicy)
               => stack[1].sender = Authority
          /\ stack[1].policy = DefaultPolicy
          /\ \A i \in 1..n : i > 1 => stack[i].sender \in Contract
      BY <1>2, <1>3 DEF IInv, PolicyInv, PolicyFromAuthority
    <2>2. Top = stack[n] /\ Top.policy \in Policy /\ Top.policy # GovPolicy
      <3>1. Top = stack[n]
        BY Zenon DEF Top, n
      <3>2. n \in 1..n
        BY <1>3
      <3> QED
        BY <1>3, <2>1, <3>1, <3>2, Zenon DEF Frame
    <2>3. n > 1 => a = Top.sender /\ a # Authority
      <3> SUFFICES ASSUME n > 1
                   PROVE  a = Top.sender /\ a # Authority
        BY Zenon
      <3>1. n # 1 /\ n \in 1..n
        BY <1>3
      <3>2. a = Top.sender
        BY <1>2, <3>1, Zenon DEF Sends, n
      <3>3. Top.sender \in Contract
        BY <2>1, <2>2, <3>1, Zenon
      <3> QED
        BY <3>2, <3>3, RegistryAssumption, Zenon
    <2>4. p # GovPolicy
      BY <1>1, <2>2, PolicyFacts DEF selectAuthorizationPolicy
    <2>5. p # DefaultPolicy => a = Authority \/ Top.policy # DefaultPolicy
      BY <1>1, <2>2, PolicyFacts DEF selectAuthorizationPolicy
    <2>6. stack'[1].policy = DefaultPolicy
      <3>1. 1 \in 1..n
        BY <1>3
      <3> QED
        BY <1>5, <1>6, <2>1, <2>2, <3>1, Zenon
    <2>7. n > 1 => stack'[1].sender = stack[1].sender
      <3>1. n > 1 => 1 \in 1..n /\ 1 # n
        BY <1>3
      <3> QED
        BY <1>6, <3>1, Zenon
    <2>8. \A i \in 1..n : i > 1 => stack'[i].sender \in Contract
      <3>1. n \in 1..n
        BY <1>3
      <3> QED
        BY <1>5, <1>6, <2>1, <2>2, <2>3, <3>1, Zenon
    <2>9. \A i \in 1..n : stack'[i].policy # GovPolicy /\ stack'[i].subPolicy # GovPolicy
      BY <1>5, <1>6, <2>1, <2>2, <2>4
    <2>10. \A i \in 1..n :
             (stack'[i].policy # DefaultPolicy \/ stack'[i].subPolicy # DefaultPolicy)
             => stack'[1].sender = Authority
      <3>1. CASE n = 1
        BY <1>5, <1>6, <2>1, <2>2, <2>5, <3>1
      <3>2. CASE n > 1
        BY <1>5, <1>6, <2>1, <2>2, <2>3, <2>5, <2>7, <3>2
      <3> QED
        BY <1>3, <3>1, <3>2
    <2> QED
      BY <1>6, <2>6, <2>8, <2>9, <2>10 DEF PolicyInv, PolicyFromAuthority
  <1> QED
    BY <1>2, <1>6, <1>7, <1>8, <1>9 DEF IInv

----------------------------------------------------------------------------
(* Branches, transactions and the node.                                    *)

\* A step that only changes the stack of branches.
LEMMA StackStep ==
  ASSUME NEW ordered, IInv(ordered), UNCHANGED <<committed, position, vm>>,
         stack' \in Seq(Frame),
         \A i \in DOMAIN stack' : /\ StoreInv(stack'[i].store, position, ordered)
                                  /\ OnDisk(stack'[i].store, vmCodes)
                                  /\ Grows(committed, stack'[i].store),
         PolicyInv'
  PROVE  IInv(ordered)'
  <1>1. /\ committed' = committed /\ position' = position
        /\ vmCodes' = vmCodes /\ vmPinned' = vmPinned
    BY Zenon DEF vm
  <1> QED
    BY <1>1, Zenon DEF IInv, OnDisk

\* A new transaction starts from the committed store, at this position or
\* the next.
LEMMA BeginTxStep ==
  ASSUME NEW ordered, IInv(ordered), BeginTx
  PROVE  IInv(ordered)'
  <1> DEFINE f == NewFrame(committed, NoActor, DefaultPolicy)
  <1>1. /\ committed \in Store /\ StoreInv(committed, position, ordered)
        /\ OnDisk(committed, vmCodes) /\ position \in Position
        /\ committed' = committed /\ vmCodes' = vmCodes /\ vmPinned' = vmPinned
    BY Zenon DEF IInv, StoreInv, BeginTx, vm
  <1>2. position' \in Position /\ position <= position'
    BY <1>1 DEF BeginTx, Position
  <1>3. StoreInv(committed, position', ordered)
    BY <1>1, <1>2, StoreInvLater
  <1>4. Grows(committed, committed)
    BY <1>1, GrowsReflexive
  <1>5. /\ f \in Frame /\ f.store = committed
        /\ f.policy = DefaultPolicy /\ f.subPolicy = DefaultPolicy
    BY <1>1, PolicyFacts DEF NewFrame, Frame
  <1>6. stack' = <<f>>
    BY DEF BeginTx
  <1> HIDE DEF f
  <1>7. /\ stack' \in Seq(Frame) /\ DOMAIN stack' = {1} /\ stack'[1] = f
    BY <1>5, <1>6
  <1>8. PolicyInv'
    <2>1. \A i \in DOMAIN stack' : i = 1
      BY <1>7
    <2> QED
      BY <1>5, <1>7, <2>1, PolicyFacts DEF PolicyInv, PolicyFromAuthority
  <1> QED
    BY <1>1, <1>2, <1>3, <1>4, <1>5, <1>7, <1>8, Zenon DEF IInv, OnDisk

\* PolicyInv of a stack that is not empty, as a predicate on the stack.
PolicyShape(q) ==
  /\ \A i \in DOMAIN q :
       /\ q[i].policy # GovPolicy /\ q[i].subPolicy # GovPolicy
       /\ (q[i].policy # DefaultPolicy \/ q[i].subPolicy # DefaultPolicy)
             => q[1].sender = Authority
       /\ i > 1 => q[i].sender \in Contract
  /\ q[1].policy = DefaultPolicy

\* PolicyInv and PolicyShape agree on the stack of branches before a step.
LEMMA PolicyInvShape ==
  ASSUME PolicyInv, stack # << >>
  PROVE  PolicyShape(stack)
  BY DEF PolicyInv, PolicyFromAuthority, PolicyShape

\* PolicyInv and PolicyShape agree on the stack of branches after a step.
LEMMA PolicyInvShapeNext ==
  ASSUME PolicyShape(stack')
  PROVE  PolicyInv'
  BY DEF PolicyInv, PolicyFromAuthority, PolicyShape

\* A submessage starts from the store of its caller, with the caller as its
\* sender and under the policy the caller was given for its submessages.
LEMMA BeginSubmessageStep ==
  ASSUME NEW ordered, IInv(ordered), BeginSubmessage
  PROVE  IInv(ordered)'
  <1> DEFINE n == Len(stack)
             f == NewFrame(Top.store, Top.running, Top.subPolicy)
  <1>1. stack # << >> /\ Top.running # NoActor /\ stack' = Append(stack, f)
        /\ UNCHANGED <<committed, position, vm>>
    BY DEF BeginSubmessage
  <1>2. /\ n \in Nat \ {0} /\ n \in DOMAIN stack /\ DOMAIN stack = 1..n
        /\ Top \in Frame /\ StoreInv(Top.store, position, ordered) /\ OnDisk(Top.store, vmCodes)
        /\ Grows(committed, Top.store) /\ stack \in Seq(Frame)
    BY <1>1, TopFacts, Zenon DEF IInv
  <1>3. /\ f \in Frame /\ f.store = Top.store /\ f.sender \in Contract
        /\ f.policy = Top.subPolicy /\ f.subPolicy = DefaultPolicy
    BY <1>1, <1>2, PolicyFacts DEF NewFrame, Frame, Actor
  <1> HIDE DEF f, n
  <1>4. /\ stack' \in Seq(Frame) /\ DOMAIN stack' = 1..(n + 1) /\ stack'[n + 1] = f
        /\ \A i \in 1..n : stack'[i] = stack[i]
        /\ stack'[1] = stack[1]
    <2>1. stack' = Append(stack, f) /\ Len(stack) = n
      BY <1>1, Zenon DEF n
    <2>3. 1 \in 1..n
      BY <1>2
    <2>2. /\ stack' \in Seq(Frame) /\ DOMAIN stack' = 1..(n + 1) /\ stack'[n + 1] = f
          /\ \A i \in 1..n : stack'[i] = stack[i]
      BY <1>2, <1>3, <2>1
    <2> QED
      BY <2>2, <2>3, Zenon
  <1>5. \A i \in DOMAIN stack' : i = n + 1 \/ i \in 1..n
    BY <1>2, <1>4
  <1>6. PolicyInv'
    <2>1. Top = stack[n]
      BY Zenon DEF Top, n
    <2>2. PolicyShape(stack)
      BY <1>1, PolicyInvShape DEF IInv
    <2>3. PolicyShape(stack')
      <3> SUFFICES ASSUME NEW i \in DOMAIN stack'
                   PROVE  /\ stack'[i].policy # GovPolicy /\ stack'[i].subPolicy # GovPolicy
                          /\ (stack'[i].policy # DefaultPolicy \/ stack'[i].subPolicy # DefaultPolicy)
                               => stack'[1].sender = Authority
                          /\ i > 1 => stack'[i].sender \in Contract
        BY <1>4, <2>2, Zenon DEF PolicyShape
      <3>1. CASE i = n + 1
        BY <1>2, <1>3, <1>4, <2>1, <2>2, <3>1, PolicyFacts, Zenon DEF PolicyShape
      <3>2. CASE i \in 1..n
        BY <1>2, <1>4, <2>2, <3>2, Zenon DEF PolicyShape
      <3> QED
        BY <1>5, <3>1, <3>2, Zenon
    <2> QED
      BY <2>3, PolicyInvShapeNext
  <1>7. \A i \in DOMAIN stack' : /\ StoreInv(stack'[i].store, position, ordered)
                                 /\ OnDisk(stack'[i].store, vmCodes)
                                 /\ Grows(committed, stack'[i].store)
    BY <1>2, <1>3, <1>4, <1>5, Zenon DEF IInv
  <1> QED
    BY <1>1, <1>4, <1>6, <1>7, StackStep, Zenon

\* A message that fails leaves its branch as it is, to be dropped.
LEMMA MessageFailsStep ==
  ASSUME NEW ordered, IInv(ordered), MessageFails
  PROVE  IInv(ordered)'
  <1> DEFINE n == Len(stack)
             f == [Top EXCEPT !.failed = TRUE]
  <1>1. stack # << >> /\ stack' = [stack EXCEPT ![n] = f]
        /\ UNCHANGED <<committed, position, vm>>
    BY DEF MessageFails, Top
  <1>2. /\ n \in Nat \ {0} /\ n \in DOMAIN stack /\ DOMAIN stack = 1..n
        /\ Top \in Frame /\ stack \in Seq(Frame)
    BY <1>1, TopFacts, Zenon DEF IInv
  <1>3. /\ f \in Frame /\ f.store = Top.store /\ f.sender = Top.sender
        /\ f.policy = Top.policy /\ f.subPolicy = Top.subPolicy
    BY <1>2, Zenon DEF Frame
  <1>4. Top = stack[n]
    BY Zenon DEF Top
  <1> HIDE DEF f, n
  <1>5. /\ stack' \in Seq(Frame) /\ DOMAIN stack' = 1..n
        /\ stack'[n] = f /\ \A i \in 1..n : i # n => stack'[i] = stack[i]
    BY <1>1, <1>2, <1>3, ReplaceLast, Zenon
  <1>6. \A i \in 1..n : /\ stack'[i].store = stack[i].store
                        /\ stack'[i].sender = stack[i].sender
                        /\ stack'[i].policy = stack[i].policy
                        /\ stack'[i].subPolicy = stack[i].subPolicy
    BY <1>3, <1>4, <1>5, Zenon
  <1>7. 1 \in 1..n
    BY <1>2
  <1>8. PolicyInv'
    <2>1. PolicyShape(stack)
      BY <1>1, PolicyInvShape DEF IInv
    <2>2. PolicyShape(stack')
      BY <1>2, <1>5, <1>6, <1>7, <2>1, ZenonT(40) DEF PolicyShape
    <2> QED
      BY <2>2, PolicyInvShapeNext
  <1> QED
    BY <1>1, <1>2, <1>5, <1>6, <1>8, StackStep, ZenonT(40) DEF IInv

\* A branch that commits gives its store to the branch below.
LEMMA CommitSubmessageStep ==
  ASSUME NEW ordered, IInv(ordered), CommitSubmessage
  PROVE  IInv(ordered)'
  <1> DEFINE n == Len(stack)
             m == n - 1
             f == [stack[m] EXCEPT !.store = Top.store]
  <1>1. /\ n > 1 /\ UNCHANGED <<committed, position, vm>>
        /\ stack' = [i \in 1..m |-> IF i = m THEN f ELSE stack[i]]
    BY DEF CommitSubmessage
  <1>2. stack # << >> /\ m \in Nat /\ m \in 1..n /\ m \in 1..m /\ 1 \in 1..m
        /\ \A i \in 1..m : i \in 1..n
    BY <1>1 DEF IInv
  <1>3. /\ DOMAIN stack = 1..n /\ Top \in Frame /\ stack \in Seq(Frame)
        /\ Top.store \in Store /\ StoreInv(Top.store, position, ordered)
        /\ OnDisk(Top.store, vmCodes) /\ Grows(committed, Top.store)
    BY <1>2, TopFacts, Zenon DEF IInv
  <1>4. \A i \in 1..n : stack[i] \in Frame
    BY <1>3
  <1>5. /\ f \in Frame /\ f.store = Top.store /\ f.sender = stack[m].sender
        /\ f.policy = stack[m].policy /\ f.subPolicy = stack[m].subPolicy
    BY <1>2, <1>3, <1>4, Zenon DEF Frame
  <1> HIDE DEF f, m, n
  <1>6. /\ DOMAIN stack' = 1..m /\ stack'[m] = f
        /\ \A i \in 1..m : i # m => stack'[i] = stack[i]
    BY <1>1, <1>2, Zenon
  <1>7. stack' \in Seq(Frame)
    <2>1. \A i \in 1..m : (IF i = m THEN f ELSE stack[i]) \in Frame
      BY <1>2, <1>4, <1>5, Zenon
    <2> QED
      BY <1>1, <1>2, <2>1
  <1>8. \A i \in 1..m : /\ stack'[i].sender = stack[i].sender
                        /\ stack'[i].policy = stack[i].policy
                        /\ stack'[i].subPolicy = stack[i].subPolicy
    BY <1>5, <1>6, Zenon
  <1>9. PolicyInv'
    <2>1. PolicyShape(stack)
      BY <1>2, PolicyInvShape DEF IInv
    <2>2. PolicyShape(stack')
      <3>1. /\ \A i \in 1..m : i \in DOMAIN stack
            /\ 1 \in 1..m
        BY <1>2, <1>3
      <3>2. stack'[1].policy = DefaultPolicy /\ stack'[1].sender = stack[1].sender
        BY <1>8, <2>1, <3>1, Zenon DEF PolicyShape
      <3>3. ASSUME NEW i \in DOMAIN stack'
            PROVE  /\ i \in DOMAIN stack
                   /\ stack'[i].sender = stack[i].sender
                   /\ stack'[i].policy = stack[i].policy
                   /\ stack'[i].subPolicy = stack[i].subPolicy
        BY <1>6, <1>8, <3>1, Zenon
      <3> QED
        BY <2>1, <3>2, <3>3, Zenon DEF PolicyShape
    <2> QED
      BY <2>2, PolicyInvShapeNext
  <1>10. \A i \in DOMAIN stack' : /\ StoreInv(stack'[i].store, position, ordered)
                                  /\ OnDisk(stack'[i].store, vmCodes)
                                  /\ Grows(committed, stack'[i].store)
    BY <1>2, <1>3, <1>5, <1>6, Zenon DEF IInv
  <1> QED
    BY <1>1, <1>7, <1>9, <1>10, StackStep, Zenon

\* A branch that is dropped leaves those below as they were.
LEMMA DropSubmessageStep ==
  ASSUME NEW ordered, IInv(ordered), DropSubmessage
  PROVE  IInv(ordered)'
  <1> DEFINE n == Len(stack)
             m == n - 1
  <1>1. /\ n > 1 /\ UNCHANGED <<committed, position, vm>>
        /\ stack' = [i \in 1..m |-> stack[i]]
    BY DEF DropSubmessage
  <1>2. stack # << >> /\ m \in Nat /\ 1 \in 1..m /\ (\A i \in 1..m : i \in 1..n)
        /\ DOMAIN stack = 1..n
    BY <1>1 DEF IInv
  <1>3. \A i \in 1..n : stack[i] \in Frame
    BY DEF IInv
  <1> HIDE DEF m, n
  <1>4. DOMAIN stack' = 1..m /\ \A i \in 1..m : stack'[i] = stack[i]
    BY <1>1, <1>2, Zenon
  <1>5. stack' \in Seq(Frame)
    BY <1>1, <1>2, <1>3
  <1>6. PolicyInv'
    <2>1. PolicyShape(stack)
      BY <1>2, PolicyInvShape DEF IInv
    <2>2. PolicyShape(stack')
      BY <1>2, <1>4, <2>1, SMTT(60) DEF PolicyShape
    <2> QED
      BY <2>2, PolicyInvShapeNext
  <1> QED
    BY <1>1, <1>2, <1>4, <1>5, <1>6, StackStep, Zenon DEF IInv

\* Outside a transaction the invariant is about the committed store alone.
LEMMA EmptyStack ==
  ASSUME stack' = << >>
  PROVE  stack' \in Seq(Frame) /\ DOMAIN stack' = {} /\ PolicyInv'
  <1>1. stack' \in Seq(Frame) /\ DOMAIN stack' = {}
    OBVIOUS
  <1> QED
    BY <1>1 DEF PolicyInv, PolicyFromAuthority

\* The outermost branch is written back unless its transaction failed.
LEMMA EndTxStep ==
  ASSUME NEW ordered, IInv(ordered), EndTx
  PROVE  IInv(ordered)' /\ Grows(committed, committed')
  <1>1. /\ stack' = << >> /\ Len(stack) = 1 /\ position' = position
        /\ vmCodes' = vmCodes /\ vmPinned' = vmPinned
        /\ committed' = committed \/ committed' = Top.store
    BY Zenon DEF EndTx, vm
  <1>2. stack # << >>
    BY <1>1
  <1>3. StoreInv(Top.store, position, ordered) /\ OnDisk(Top.store, vmCodes)
        /\ Grows(committed, Top.store)
    BY <1>2, TopFacts, Zenon
  <1>4. StoreInv(committed, position, ordered) /\ OnDisk(committed, vmCodes)
        /\ Grows(committed, committed)
    BY GrowsReflexive, Zenon DEF IInv, StoreInv
  <1>5. StoreInv(committed', position, ordered) /\ OnDisk(committed', vmCodes)
        /\ Grows(committed, committed')
    BY <1>1, <1>3, <1>4, Zenon
  <1> QED
    BY <1>1, <1>5, EmptyStack, Zenon DEF IInv, OnDisk

\* An account created at an address changes nothing the invariant is about.
LEMMA CreateAccountStep ==
  ASSUME NEW ordered, IInv(ordered), NEW a \in Contract, NEW k \in InputAccount,
         CreateAccount(a, k)
  PROVE  IInv(ordered)' /\ Len(stack') = Len(stack)
         /\ Top'.store.contracts = Top.store.contracts
  <1> DEFINE s == Top.store
             t == [s EXCEPT !.accounts[a] = k]
             f == [Top EXCEPT !.store = t]
  <1>1. Len(stack) = 1 /\ UNCHANGED <<committed, position, vm>>
        /\ stack' = [stack EXCEPT ![1].store.accounts[a] = k] /\ Top = stack[1]
        /\ s.accounts[a] = "none"
    BY Zenon DEF CreateAccount, Top
  <1>2. stack # << >> /\ stack \in Seq(Frame) /\ DOMAIN stack = 1..1
    <2>1. stack \in Seq(Frame)
      BY Zenon DEF IInv
    <2> QED
      BY <1>1, <2>1
  <1>3. /\ s \in Store /\ StoreInv(s, position, ordered) /\ OnDisk(s, vmCodes)
        /\ Grows(committed, s) /\ Top \in Frame /\ committed \in Store
        /\ position \in Position
    BY <1>2, TopFacts, Zenon DEF IInv, StoreInv
  <1>4. stack' = [stack EXCEPT ![1] = f]
    BY <1>1
  <1>5. [s.accounts EXCEPT ![a] = k] \in [Contract -> AccountKind]
    BY <1>3, StoreFields, RegistryAssumption, Zenon
  <1>6. /\ t \in Store /\ t.codes = s.codes /\ t.contracts = s.contracts
        /\ t.history = s.history /\ t.byCode = s.byCode /\ t.byCreator = s.byCreator
        /\ t.ports = s.ports /\ t.seqCode = s.seqCode /\ t.seqInst = s.seqInst
        /\ t.pinned = s.pinned /\ t.accounts = [s.accounts EXCEPT ![a] = k]
    BY <1>3, <1>5, Zenon DEF Store
  <1>7. f.store = t /\ f.sender = Top.sender /\ f.policy = Top.policy
        /\ f.subPolicy = Top.subPolicy
    BY <1>3, Zenon DEF Frame
  <1>8. f \in Frame
    BY <1>3, <1>6, Zenon DEF Frame
  <1> HIDE DEF s, t, f
  <1>9. PinnedExist(t)
    BY <1>3, <1>6, Zenon DEF StoreInv, PinnedExist, HasCode
  <1>10. AccountsPlain(t)
    <2>1. DOMAIN s.accounts = Contract /\ AccountsPlain(s) /\ "none" # "base"
      BY <1>3, StoreFields, Zenon DEF StoreInv
    <2>2. \A b \in Contract : HasContract(s, b) => b # a
      BY <1>1, <2>1, Zenon DEF AccountsPlain
    <2> QED
      BY <1>6, <2>1, <2>2, Zenon DEF AccountsPlain, HasContract
  <1>11. StoreInv(t, position, ordered) /\ Grows(s, t)
    BY <1>3, <1>6, <1>9, <1>10, OtherFieldsInv, Zenon
  <1>12. OnDisk(t, vmCodes) /\ Grows(committed, t)
    BY <1>3, <1>6, <1>11, GrowsTransitive, Zenon DEF OnDisk, HasCode, HashOf
  <1>13. /\ stack' \in Seq(Frame) /\ DOMAIN stack' = 1..1 /\ stack'[1] = f
         /\ Len(stack') = 1
    BY <1>2, <1>4, <1>8, ReplaceLast
  <1>14. 1..1 = {1}
    OBVIOUS
  <1>15. PolicyInv'
    <2>1. PolicyShape(stack)
      BY <1>2, PolicyInvShape DEF IInv
    <2>2. PolicyShape(stack')
      BY <1>1, <1>2, <1>7, <1>13, <1>14, <2>1, SMTT(60) DEF PolicyShape
    <2> QED
      BY <2>2, PolicyInvShapeNext
  <1>16. IInv(ordered)'
    BY <1>1, <1>7, <1>11, <1>12, <1>13, <1>14, <1>15, StackStep, Zenon
  <1> QED
    BY <1>1, <1>6, <1>7, <1>13, <1>16, Zenon DEF Top, s

\* A restart loses the running transaction and pins again, from disk, the
\* codes the committed store marks as pinned.
LEMMA RestartStep ==
  ASSUME NEW ordered, IInv(ordered), Restart
  PROVE  IInv(ordered)'
  <1>1. /\ stack' = << >> /\ committed' = committed /\ position' = position
        /\ vmCodes' = vmCodes /\ vmPinned' = Hashes(committed, committed.pinned)
    BY Zenon DEF Restart
  <1>2. /\ committed \in Store /\ PinnedExist(committed)
        /\ OnDisk(committed, vmCodes)
    BY Zenon DEF IInv, StoreInv
  <1>3. committed.pinned \subseteq CodeID
    BY <1>2, StoreFields, Zenon
  <1>4. Hashes(committed, committed.pinned) \subseteq vmCodes
    BY <1>2, <1>3 DEF PinnedExist, OnDisk, Hashes
  <1> QED
    BY <1>1, <1>4, EmptyStack, Zenon DEF IInv, OnDisk

\* A chain starts with a store.
LEMMA EmptyIsStore == EmptyStore \in Store
  <1>1. << >> \in Seq(HistoryEntry) /\ 1 \in Nat
    OBVIOUS
  <1>2. /\ AllowEverybody \in AccessConfig(Actor)
        /\ "Everybody" \in AccessType /\ "none" \in AccountKind
    BY Zenon DEF AllowEverybody, AccessConfig, AccessType, AccountKind
  <1>3. /\ [c \in CodeID |-> NoCode] \in [CodeID -> CodeInfo \cup {NoCode}]
        /\ [a \in Contract |-> NoContract] \in [Contract -> ContractInfo \cup {NoContract}]
        /\ [a \in Contract |-> << >>] \in [Contract -> Seq(HistoryEntry)]
        /\ [a \in Contract |-> "none"] \in [Contract -> AccountKind]
    BY <1>1, <1>2, Zenon
  <1> QED
    BY <1>1, <1>2, <1>3, Zenon DEF EmptyStore, Store

\* The chain starts with an empty registry.
LEMMA InitInv ==
  ASSUME NEW ordered, Init
  PROVE  IInv(ordered)
  <1>1. /\ committed = EmptyStore /\ stack = << >> /\ position = 0
        /\ vmCodes = {} /\ vmPinned = {}
    BY Zenon DEF Init
  <1> DEFINE s == EmptyStore
  <1>2. /\ \A c \in CodeID : ~HasCode(s, c)
        /\ \A a \in Contract : ~HasContract(s, a) /\ s.history[a] = << >>
        /\ s.byCode = {} /\ s.byCreator = {} /\ s.pinned = {} /\ s.seqCode = 1
        /\ s.seqInst = 1
    BY Zenon DEF EmptyStore, HasCode, HasContract
  <1>3. s \in Store
    BY EmptyIsStore
  <1>4. \A c \in CodeID, i \in InstanceID : ClassicAddress(c, i) \in Contract
    BY DEF Contract, Classic
  <1> HIDE DEF s
  <1>5. CodeIndexExactIn(s) /\ CreatorIndexExactIn(s)
    BY <1>2, <1>3, CodeIndexMembers, CreatorIndexMembers, Zenon
  <1>6. CodesDense(s)
    <2>1. \A c \in CodeID : ~(c < 1)
      BY RegistryAssumption DEF CodeID
    <2> QED
      BY <1>2, <2>1, Zenon DEF CodesDense
  <1>7. /\ HistoryKnown(s, ordered) /\ PinnedExist(s) /\ ContractCodeExists(s)
        /\ ClassicBelow(s) /\ PortIffCallbacksIn(s) /\ AccountsPlain(s)
    BY <1>2, <1>4, Zenon DEF HistoryKnown, PinnedExist, ContractCodeExists,
       ClassicBelow, PortIffCallbacksIn, AccountsPlain, Live
  <1>8. HistoryBefore(s, 0, ordered)
    <2>1. DOMAIN << >> = {}
      OBVIOUS
    <2> QED
      BY <1>2, <2>1, Zenon DEF HistoryBefore
  <1>9. StoreInv(s, 0, ordered)
    BY <1>3, <1>5, <1>6, <1>7, <1>8, Zenon DEF StoreInv
  <1>10. 0 \in Position /\ stack \in Seq(Frame) /\ DOMAIN stack = {}
    BY <1>1, RegistryAssumption DEF Position
  <1>11. PolicyInv
    BY <1>1, <1>10 DEF PolicyInv, PolicyFromAuthority
  <1> QED
    BY <1>1, <1>2, <1>9, <1>10, <1>11, Zenon DEF IInv, OnDisk, s

----------------------------------------------------------------------------
(* The invariant holds, and what follows from it.                          *)

\* Every step of a node keeps the invariant, and the committed store grows.
LEMMA NextInv ==
  ASSUME NEW ordered, IInv(ordered), [Next]_vars
  PROVE  IInv(ordered)' /\ Grows(committed, committed')
  <1>0. Grows(committed, committed)
    BY GrowsReflexive, Zenon DEF IInv, StoreInv
  <1>1. CASE stack # << >> /\ Message
    <2>1. PICK a \in Actor : Effect(a, ordered)
      BY <1>1, MessageEffect, Zenon
    <2>2. committed' = committed
      BY <2>1, Zenon DEF Effect
    <2> QED
      BY <1>0, <2>1, <2>2, EffectStep, Zenon
  <1>2. CASE BeginTx
    BY <1>0, <1>2, BeginTxStep, Zenon DEF BeginTx
  <1>3. CASE BeginSubmessage
    BY <1>0, <1>3, BeginSubmessageStep, Zenon DEF BeginSubmessage
  <1>4. CASE MessageFails
    BY <1>0, <1>4, MessageFailsStep, Zenon DEF MessageFails
  <1>5. CASE CommitSubmessage
    BY <1>0, <1>5, CommitSubmessageStep, Zenon DEF CommitSubmessage
  <1>6. CASE DropSubmessage
    BY <1>0, <1>6, DropSubmessageStep, Zenon DEF DropSubmessage
  <1>7. CASE EndTx
    BY <1>7, EndTxStep, Zenon
  <1>8. CASE Restart
    BY <1>0, <1>8, RestartStep, Zenon DEF Restart
  <1>9. CASE \E a \in Contract, k \in InputAccount : CreateAccount(a, k)
    BY <1>0, <1>9, CreateAccountStep, Zenon DEF CreateAccount
  <1>10. CASE UNCHANGED vars
    <2>1. /\ committed' = committed /\ stack' = stack /\ position' = position
          /\ vmCodes' = vmCodes /\ vmPinned' = vmPinned
      BY <1>10, Zenon DEF vars
    <2> QED
      BY <1>0, <2>1, Zenon DEF IInv, OnDisk, PolicyInv, PolicyFromAuthority
  <1> QED
    BY <1>1, <1>2, <1>3, <1>4, <1>5, <1>6, <1>7, <1>8, <1>9, <1>10, Zenon DEF Next

\* The inductive invariant of the registry.
THEOREM Invariance == Spec => []IInv(TRUE)
  <1>1. Init => IInv(TRUE)
    BY InitInv, Zenon
  <1>2. IInv(TRUE) /\ [Next]_vars => IInv(TRUE)'
    BY NextInv, Zenon
  <1> QED
    BY <1>1, <1>2, PTL DEF Spec

\* The state of the registry always has its type.
THEOREM TypeCorrect == Spec => []TypeOK
  <1>1. IInv(TRUE) => TypeOK
    BY Zenon DEF IInv, TypeOK, StoreInv
  <1> QED
    BY <1>1, Invariance, PTL

\* The committed store and every branch satisfy the invariant of a store.
LEMMA StoresInv ==
  ASSUME NEW ordered, IInv(ordered)
  PROVE  \A s \in Stores : StoreInv(s, position, ordered) /\ OnDisk(s, vmCodes)
  BY Zenon DEF IInv, Stores

\* What the invariant says of the indexes, the ports, the accounts and the
\* policies, whether or not the positions are in order.
LEMMA StoresAreSound ==
  ASSUME NEW ordered, IInv(ordered)
  PROVE  /\ CodeIndexExact /\ CreatorIndexExact /\ PortIffCallbacks
         /\ ContractAccountPlain /\ PolicyFromAuthority
  <1>1. \A s \in Stores : StoreInv(s, position, ordered)
    BY StoresInv, Zenon
  <1>2. CodeIndexExact /\ CreatorIndexExact /\ PortIffCallbacks
    BY <1>1, Zenon DEF CodeIndexExact, CreatorIndexExact, PortIffCallbacks, StoreInv
  <1>3. ContractAccountPlain
    BY <1>1, Zenon DEF ContractAccountPlain, StoreInv, AccountsPlain, Live
  <1>4. PolicyFromAuthority
    BY Zenon DEF IInv, PolicyInv
  <1> QED
    BY <1>2, <1>3, <1>4, Zenon

\* A classic address of the next instance id is unused: ids only go up.
LEMMA NextAddressUnused ==
  ASSUME NEW ordered, IInv(ordered)
  PROVE  ClassicAddressUnused
  <1> SUFFICES ASSUME NEW s \in Stores, NEW c \in CodeID, s.seqInst \in InstanceID
               PROVE  ~HasContract(s, ClassicAddress(c, s.seqInst))
    BY Zenon DEF ClassicAddressUnused
  <1>1. ClassicBelow(s)
    BY StoresInv, Zenon DEF StoreInv
  <1>2. ~(s.seqInst < s.seqInst)
    BY DEF InstanceID
  <1> QED
    BY <1>1, <1>2, Zenon DEF ClassicBelow

\* What a store refers to is there, and wasmvm has the byte code.
LEMMA StoresResolve ==
  ASSUME NEW ordered, IInv(ordered)
  PROVE  ReferencesResolve
  <1> SUFFICES ASSUME NEW s \in Stores
               PROVE  /\ \A c \in CodeID : HasCode(s, c) <=> c < s.seqCode
                      /\ \A a \in Live(s) : HasCode(s, s.contracts[a].code)
                      /\ \A c \in s.pinned : HasCode(s, c)
                      /\ \A c \in CodeID : HasCode(s, c) => HashOf(s, c) \in vmCodes
                      /\ vmPinned \subseteq vmCodes
    BY Zenon DEF ReferencesResolve
  <1>1. StoreInv(s, position, ordered) /\ OnDisk(s, vmCodes)
    BY StoresInv, Zenon
  <1>2. vmPinned \subseteq vmCodes
    BY Zenon DEF IInv
  <1> QED
    BY <1>1, <1>2, Zenon DEF StoreInv, OnDisk, CodesDense, PinnedExist, ContractCodeExists,
       Live

\* addToContractCodeSecondaryIndex and removeFromContractCodeSecondaryIndex
\* keep the code index exact, whatever the number of codes, contracts,
\* branches and positions.
THEOREM CodeIndexIsExact == Spec => []CodeIndexExact
  <1>1. IInv(TRUE) => CodeIndexExact
    BY StoresAreSound, Zenon
  <1> QED
    BY <1>1, Invariance, PTL

\* addToContractCreatorSecondaryIndex keeps the creator index exact.
THEOREM CreatorIndexIsExact == Spec => []CreatorIndexExact
  <1>1. IInv(TRUE) => CreatorIndexExact
    BY StoresAreSound, Zenon
  <1> QED
    BY <1>1, Invariance, PTL

\* mustGetLastContractHistoryEntry never panics for an existing contract and
\* returns the code it runs.
THEOREM HistoryIsFaithful == Spec => []HistoryTellsContract
  <1>1. IInv(TRUE) => HistoryTellsContract
    BY StoresInv, Zenon DEF HistoryTellsContract, HistoryTellsContractIn, StoreInv, HistoryKnown
  <1> QED
    BY <1>1, Invariance, PTL

\* instantiate and migrate give a contract an IBC port exactly if its code
\* has the callbacks.
THEOREM PortsMatchCallbacks == Spec => []PortIffCallbacks
  <1>1. IInv(TRUE) => PortIffCallbacks
    BY StoresAreSound, Zenon
  <1> QED
    BY <1>1, Invariance, PTL

\* Nobody holds a key of a contract's account, whoever created an account at
\* its address before and of whichever kind (instantiate).
THEOREM ContractAccountsArePlain == Spec => []ContractAccountPlain
  <1>1. IInv(TRUE) => ContractAccountPlain
    BY StoresAreSound, Zenon
  <1> QED
    BY <1>1, Invariance, PTL

\* instantiate never fails with ErrDuplicate for a classic address.
THEOREM ClassicAddressesAreFresh == Spec => []ClassicAddressUnused
  <1>1. IInv(TRUE) => ClassicAddressUnused
    BY NextAddressUnused, Zenon
  <1> QED
    BY <1>1, Invariance, PTL

\* Code ids are dense, contracts and pins refer to stored codes, and wasmvm
\* has the byte code of each of them after any number of dropped branches,
\* failed transactions and restarts.
THEOREM ReferencesAlwaysResolve == Spec => []ReferencesResolve
  <1>1. IInv(TRUE) => ReferencesResolve
    BY StoresResolve, Zenon
  <1> QED
    BY <1>1, Invariance, PTL

\* selectAuthorizationPolicy and SubMessageAuthorizationPolicy: more than
\* the default policy comes from the authority only.
THEOREM PolicyOnlyFromAuthority == Spec => []PolicyFromAuthority
  <1>1. IInv(TRUE) => PolicyFromAuthority
    BY StoresAreSound, Zenon
  <1> QED
    BY <1>1, Invariance, PTL

\* No transaction removes or takes over a contract or a code, shortens a
\* history, or releases a port.
THEOREM RegistryOnlyGrows == Spec => RegistryGrows
  <1>1. IInv(TRUE) /\ [Next]_vars => [Grows(committed, committed')]_vars
    BY NextInv, Zenon
  <1> QED
    BY <1>1, Invariance, PTL DEF Spec, RegistryGrows

\* A handler that changes a contract without an admin runs below a message
\* of the authority.
LEMMA AdminlessEffect ==
  ASSUME IInv(TRUE), NEW a \in Actor, Effect(a, TRUE), NEW b \in Contract,
         HasContract(Top.store, b), Top.store.contracts[b].admin = NoActor,
         Top'.store.contracts[b] # Top.store.contracts[b]
  PROVE  stack'[1].sender = Authority
  <1> DEFINE n == Len(stack)
  <1>1. PICK t \in Store, c \in Contract \cup {NoActor}, p \in Policy :
          /\ Handled(a, t, c, p)
          /\ \A d \in Contract :
               (/\ HasContract(Top.store, d) /\ Top.store.contracts[d].admin = NoActor
                /\ t.contracts[d] # Top.store.contracts[d])
               => a = Authority \/ Top.policy # DefaultPolicy
    BY Zenon DEF Effect
  <1>2. stack # << >> /\ Sends(a)
    BY Zenon DEF Effect, Sends
  <1>3. /\ n \in Nat \ {0} /\ n \in DOMAIN stack /\ DOMAIN stack = 1..n
        /\ Top \in Frame /\ stack \in Seq(Frame) /\ Top = stack[n]
    BY <1>2, TopFacts, Zenon DEF IInv, Top
  <1> DEFINE f == [Top EXCEPT !.store = t, !.sender = a, !.handled = TRUE,
                              !.running = c, !.subPolicy = p]
  <1>4. stack' = [stack EXCEPT ![n] = f]
    BY <1>1 DEF Handled, Top
  <1>5. f \in Frame /\ f.store = t /\ f.sender = a
    BY <1>3, Zenon DEF Frame
  <1> HIDE DEF f, n
  <1>6. /\ Len(stack') = n /\ stack'[n] = f
        /\ \A i \in 1..n : i # n => stack'[i] = stack[i]
    BY <1>3, <1>4, <1>5, ReplaceLast
  <1>7. Top'.store = t
    BY <1>5, <1>6, Zenon DEF Top
  <1>8. a = Authority \/ Top.policy # DefaultPolicy
    BY <1>1, <1>7, Zenon
  <1>9. PolicyShape(stack)
    BY <1>2, PolicyInvShape, Zenon DEF IInv
  <1>10. CASE n = 1
    BY <1>3, <1>5, <1>6, <1>8, <1>9, <1>10, Zenon DEF PolicyShape
  <1>11. CASE n # 1
    <2>1. n > 1 /\ 1 \in 1..n
      BY <1>3, <1>11
    <2>2. a = stack[n].sender
      BY <1>2, <1>3, <1>11, Zenon DEF Sends, n
    <2>3. a # Authority
      BY <1>3, <1>9, <2>1, <2>2, RegistryAssumption, Zenon DEF PolicyShape
    <2> QED
      BY <1>3, <1>6, <1>8, <1>9, <1>11, <2>1, <2>3, Zenon DEF PolicyShape
  <1> QED
    BY <1>10, <1>11

\* CanModifyContract: without an admin a contract is migrated, or given an
\* admin, only below a message of the authority, through any chain of
\* contracts.
THEOREM AdminlessNeverChanges == Spec => AdminlessIsImmutable
  <1>1. IInv(TRUE) /\ [Next]_vars =>
          [\A a \in Contract :
             (/\ stack # << >> /\ Len(stack') = Len(stack)
              /\ HasContract(Top.store, a)
              /\ Top.store.contracts[a].admin = NoActor
              /\ Top'.store.contracts[a] # Top.store.contracts[a])
             => stack'[1].sender = Authority]_vars
    <2> SUFFICES ASSUME IInv(TRUE), Next, NEW a \in Contract,
                        stack # << >>, Len(stack') = Len(stack),
                        HasContract(Top.store, a), Top.store.contracts[a].admin = NoActor,
                        Top'.store.contracts[a] # Top.store.contracts[a]
                 PROVE  stack'[1].sender = Authority
      BY Zenon
    <2>0. /\ Len(stack) \in Nat \ {0} /\ DOMAIN stack = 1..Len(stack)
          /\ stack \in Seq(Frame) /\ Top \in Frame
      BY TopFacts, Zenon DEF IInv
    <2>1. CASE Message
      BY <2>1, MessageEffect, AdminlessEffect, Zenon
    <2>2. CASE BeginTx
      BY <2>2, Zenon DEF BeginTx
    <2>3. CASE BeginSubmessage
      BY <2>0, <2>3 DEF BeginSubmessage
    <2>4. CASE MessageFails
      <3> DEFINE f == [Top EXCEPT !.failed = TRUE]
      <3>1. stack' = [stack EXCEPT ![Len(stack)] = f]
        BY <2>4 DEF MessageFails, Top
      <3>2. f \in Frame /\ f.store = Top.store
        BY <2>0, Zenon DEF Frame
      <3> HIDE DEF f
      <3>3. stack'[Len(stack)] = f
        BY <2>0, <3>1, <3>2, ReplaceLast
      <3> QED
        BY <3>2, <3>3, Zenon DEF Top
    <2>5. CASE CommitSubmessage
      <3>1. stack' \in Seq(Frame)
        BY <2>5, CommitSubmessageStep, Zenon DEF IInv
      <3>2. DOMAIN stack' = 1..(Len(stack) - 1)
        BY <2>5, Zenon DEF CommitSubmessage
      <3> QED
        BY <2>0, <3>1, <3>2
    <2>6. CASE DropSubmessage
      <3>1. stack' \in Seq(Frame)
        BY <2>6, DropSubmessageStep, Zenon DEF IInv
      <3>2. DOMAIN stack' = 1..(Len(stack) - 1)
        BY <2>6, Zenon DEF DropSubmessage
      <3> QED
        BY <2>0, <3>1, <3>2
    <2>7. CASE EndTx
      BY <2>0, <2>7 DEF EndTx
    <2>8. CASE Restart
      BY <2>0, <2>8 DEF Restart
    <2>9. CASE \E b \in Contract, k \in InputAccount : CreateAccount(b, k)
      BY <2>9, CreateAccountStep, Zenon
    <2> QED
      BY <2>1, <2>2, <2>3, <2>4, <2>5, <2>6, <2>7, <2>8, <2>9, Zenon DEF Next
  <1> QED
    BY <1>1, Invariance, PTL DEF Spec, AdminlessIsImmutable

----------------------------------------------------------------------------
(* State sync.  A snapshot of the byte code never fails, and a node        *)
(* restored from one can run its codes.  The invariant adds to that of     *)
(* Registry that wasmvm keeps what any earlier height refers to, that the  *)
(* payload has what the iteration has passed, and that a replica has or is *)
(* still to read every code of its height, and has pinned or is still to   *)
(* pin every pinned one.                                                   *)

Members(q) == {q[i] : i \in DOMAIN q}

\* A store as it was committed at some height.
SoundStore(s) == s \in Store /\ CodesDense(s) /\ PinnedExist(s)

SnapshotInv ==
  /\ snapshot \in Snapshot /\ snapshot.status # "failed"
  /\ SoundStore(snapshot.store) /\ OnDisk(snapshot.store, vmCodes)
  /\ snapshot.next # 0
  /\ \A c \in CodeID : HasCode(snapshot.store, c) /\ c < snapshot.next
                         => HashOf(snapshot.store, c) \in Members(snapshot.payload)
  /\ snapshot.status = "done" => OnDisk(snapshot.store, Members(snapshot.payload))

\* The byte codes of some codes are in a cache.
Pinned(s, codeIDs, cache) == \A c \in codeIDs : HashOf(s, c) \in cache

ReplicaInv ==
  /\ replica \in Replica
  /\ SoundStore(replica.store)
  /\ replica.status = "restoring" =>
       /\ OnDisk(replica.store, replica.codes \cup Members(replica.items))
       /\ Pinned(replica.store, replica.store.pinned \ replica.topin, replica.pinned)
  /\ replica.status = "ready" =>
       /\ OnDisk(replica.store, replica.codes)
       /\ Pinned(replica.store, replica.store.pinned, replica.pinned)

SyncInv == IInv(TRUE) /\ SnapshotInv /\ ReplicaInv

----------------------------------------------------------------------------
\* No transaction, dropped or not, and no restart removes byte code.
LEMMA DiskGrows ==
  ASSUME IInv(TRUE), [Next]_vars
  PROVE  vmCodes \subseteq vmCodes'
  <1>1. CASE stack # << >> /\ Message
    BY <1>1, MessageEffect, Zenon DEF Effect
  <1>2. CASE BeginTx \/ BeginSubmessage \/ MessageFails \/ CommitSubmessage
             \/ DropSubmessage \/ EndTx \/ Restart
    BY <1>2, Zenon DEF BeginTx, BeginSubmessage, MessageFails, CommitSubmessage,
       DropSubmessage, EndTx, Restart, vm
  <1>3. CASE \E a \in Contract, k \in InputAccount : CreateAccount(a, k)
    BY <1>3, Zenon DEF CreateAccount, vm
  <1>4. CASE UNCHANGED vars
    BY <1>4, Zenon DEF vars
  <1> QED
    BY <1>1, <1>2, <1>3, <1>4, Zenon DEF Next

\* The committed store is sound, and its byte code on disk.
LEMMA CommittedSound ==
  ASSUME IInv(TRUE)
  PROVE  SoundStore(committed) /\ OnDisk(committed, vmCodes)
  BY Zenon DEF IInv, StoreInv, SoundStore

\* A step of the chain.
LEMMA ChainStep ==
  ASSUME SyncInv, [Next]_vars, UNCHANGED <<snapshot, replica>>
  PROVE  SyncInv'
  <1>1. IInv(TRUE)' /\ vmCodes \subseteq vmCodes' /\ snapshot' = snapshot /\ replica' = replica
    BY NextInv, DiskGrows, Zenon DEF SyncInv
  <1>2. SnapshotInv'
    BY <1>1, Zenon DEF SyncInv, SnapshotInv, OnDisk
  <1>3. ReplicaInv'
    BY <1>1, Zenon DEF SyncInv, ReplicaInv
  <1> QED
    BY <1>1, <1>2, <1>3, Zenon DEF SyncInv

\* A step of the snapshotter or of the replica leaves the chain alone.
LEMMA Aside ==
  ASSUME IInv(TRUE), UNCHANGED vars
  PROVE  IInv(TRUE)' /\ vmCodes' = vmCodes
  <1>1. [Next]_vars
    OBVIOUS
  <1> QED
    BY <1>1, NextInv, Zenon DEF vars

\* A new snapshot has yet to pass every code.
LEMMA TakeSnapshotStep ==
  ASSUME SyncInv, TakeSnapshot
  PROVE  SyncInv'
  <1>1. /\ snapshot' = [store |-> committed, next |-> 1, payload |-> << >>,
                        status |-> "writing", taken |-> snapshot.taken + 1]
        /\ UNCHANGED vars /\ replica' = replica /\ snapshot.taken < MaxSnapshot
    BY Zenon DEF TakeSnapshot
  <1>2. SoundStore(committed) /\ OnDisk(committed, vmCodes) /\ committed \in Store
    BY CommittedSound, Zenon DEF SyncInv, SoundStore
  <1>3. snapshot.taken + 1 \in 0..MaxSnapshot
    BY <1>1, StateSyncAssumption DEF SyncInv, SnapshotInv, Snapshot
  <1>4. /\ snapshot'.store = committed /\ snapshot'.next = 1
        /\ snapshot'.status = "writing"
    BY <1>1, Zenon
  <1>5. snapshot' \in Snapshot
    <2>1. << >> \in Seq(Hash) /\ 1 \in Nat
      OBVIOUS
    <2> QED
      BY <1>1, <1>2, <1>3, <2>1, Zenon DEF Snapshot
  <1>6. \A c \in CodeID : ~(c < 1)
    BY DEF CodeID
  <1>7. SnapshotInv'
    <2>1. vmCodes' = vmCodes
      BY <1>1, Zenon DEF vars
    <2>2. snapshot'.next # 0
      BY <1>4
    <2> QED
      BY <1>2, <1>4, <1>5, <1>6, <2>1, <2>2, Zenon DEF SnapshotInv
  <1> QED
    BY <1>1, <1>7, Aside, Zenon DEF SyncInv, ReplicaInv

\* SnapshotExtension passes one code: its byte code is there, and is written
\* unless it was written before.
LEMMA SnapshotCodeStep ==
  ASSUME SyncInv, SnapshotCode
  PROVE  SyncInv'
  <1> DEFINE s == snapshot
             hash == HashOf(s.store, s.next)
  <1>1. /\ s.status = "writing" /\ s.next \in Codes(s.store) /\ snapshot' = Written(s)
        /\ UNCHANGED vars /\ replica' = replica
    BY Zenon DEF SnapshotCode
  <1>2. /\ s \in Snapshot /\ SoundStore(s.store) /\ OnDisk(s.store, vmCodes)
        /\ \A c \in CodeID : HasCode(s.store, c) /\ c < s.next
                               => HashOf(s.store, c) \in Members(s.payload)
    BY Zenon DEF SyncInv, SnapshotInv
  <1>3. /\ s.store \in Store /\ s.next \in Nat /\ s.payload \in Seq(Hash)
    BY <1>2, Zenon DEF Snapshot
  <1>4. s.next \in CodeID /\ HasCode(s.store, s.next) /\ hash \in vmCodes
    BY <1>1, <1>2, Zenon DEF Codes, OnDisk
  <1>5. vmCodes \subseteq Hash /\ vmCodes' = vmCodes /\ IInv(TRUE)'
    BY <1>1, Aside, Zenon DEF SyncInv, IInv
  <1>6. PICK q \in Seq(Hash) :
          /\ snapshot' = [s EXCEPT !.next = @ + 1, !.payload = q]
          /\ Members(s.payload) \cup {hash} \subseteq Members(q)
    <2>1. CASE hash \in Members(s.payload)
      <3>1. snapshot' = [s EXCEPT !.next = @ + 1]
        BY <1>1, <2>1, Zenon DEF Written, Members
      <3>2. [s EXCEPT !.next = @ + 1] = [s EXCEPT !.next = @ + 1, !.payload = s.payload]
        BY <1>2, Zenon DEF Snapshot
      <3> QED
        BY <1>3, <2>1, <3>1, <3>2, Zenon
    <2>2. CASE hash \notin Members(s.payload)
      <3>1. snapshot' = [s EXCEPT !.next = @ + 1, !.payload = Append(s.payload, hash)]
        BY <1>1, <1>4, <2>2 DEF Written, Members
      <3>2. hash \in Hash
        BY <1>4, <1>5
      <3> HIDE DEF hash
      <3>3. Append(s.payload, hash) \in Seq(Hash)
        BY <1>3, <3>2
      <3>4. Members(s.payload) \cup {hash} \subseteq Members(Append(s.payload, hash))
        <4>1. PICK n \in Nat : Len(s.payload) = n /\ DOMAIN s.payload = 1..n
          BY <1>3
        <4>2. PICK q : q = Append(s.payload, hash)
          BY Zenon
        <4>3. /\ DOMAIN q = 1..(n + 1) /\ q[n + 1] = hash
              /\ \A i \in 1..n : q[i] = s.payload[i]
          BY <1>3, <3>2, <4>1, <4>2
        <4>4. n + 1 \in DOMAIN q /\ \A i \in 1..n : i \in DOMAIN q
          BY <4>3
        <4> QED
          BY <4>1, <4>2, <4>3, <4>4, Zenon DEF Members
      <3> QED
        BY <3>1, <3>3, <3>4, Zenon
    <2> QED
      BY <2>1, <2>2, Zenon
  <1>7. /\ snapshot'.store = s.store /\ snapshot'.next = s.next + 1
        /\ snapshot'.payload = q /\ snapshot'.status = "writing" /\ snapshot' \in Snapshot
    <2>1. s.next + 1 \in Nat
      BY <1>3
    <2> QED
      BY <1>1, <1>2, <1>6, <2>1, Zenon DEF Snapshot
  <1>8. ASSUME NEW c \in CodeID, HasCode(s.store, c), c < s.next + 1
        PROVE  HashOf(s.store, c) \in Members(q)
    <2>1. c < s.next \/ c = s.next
      BY <1>3, <1>8 DEF CodeID
    <2> QED
      BY <1>2, <1>6, <1>8, <2>1, Zenon
  <1>9. snapshot'.next # 0
    BY <1>3, <1>7
  <1>10. SnapshotInv'
    BY <1>2, <1>5, <1>7, <1>8, <1>9, Zenon DEF SnapshotInv
  <1> QED
    BY <1>1, <1>5, <1>10, Zenon DEF SyncInv, ReplicaInv

\* The iteration ends behind the last code, since codes have no gap.
LEMMA SnapshotDoneStep ==
  ASSUME SyncInv, SnapshotDone
  PROVE  SyncInv'
  <1> DEFINE s == snapshot
  <1>1. /\ s.status = "writing" /\ s.next \notin Codes(s.store)
        /\ snapshot' = [s EXCEPT !.status = "done"] /\ UNCHANGED vars /\ replica' = replica
    BY Zenon DEF SnapshotDone
  <1>2. /\ s \in Snapshot /\ SoundStore(s.store) /\ OnDisk(s.store, vmCodes) /\ s.next # 0
        /\ \A c \in CodeID : HasCode(s.store, c) /\ c < s.next
                               => HashOf(s.store, c) \in Members(s.payload)
    BY Zenon DEF SyncInv, SnapshotInv
  <1>3. s.store \in Store /\ s.next \in Nat \ {0} /\ s.store.seqCode \in Nat
    BY <1>2, StoreFields, Zenon DEF Snapshot
  <1>4. ASSUME NEW c \in CodeID, HasCode(s.store, c)
        PROVE  c < s.next
    <2>1. c < s.store.seqCode
      BY <1>2, <1>4, Zenon DEF SoundStore, CodesDense
    <2>2. s.next \in CodeID => s.next >= s.store.seqCode
      <3>1. s.next \in CodeID => ~(s.next < s.store.seqCode)
        BY <1>1, <1>2, Zenon DEF SoundStore, CodesDense, Codes
      <3> QED
        BY <1>3, <3>1
    <2> QED
      BY <1>3, <2>1, <2>2, RegistryAssumption, SMTT(30) DEF CodeID
  <1>5. OnDisk(s.store, Members(s.payload))
    BY <1>2, <1>4, Zenon DEF OnDisk
  <1>6. /\ snapshot'.store = s.store /\ snapshot'.next = s.next
        /\ snapshot'.payload = s.payload /\ snapshot'.status = "done" /\ snapshot' \in Snapshot
    BY <1>1, <1>2, Zenon DEF Snapshot
  <1>7. IInv(TRUE)' /\ vmCodes' = vmCodes
    BY <1>1, Aside, Zenon DEF SyncInv
  <1>8. "done" # "failed"
    OBVIOUS
  <1>9. SnapshotInv'
    BY <1>2, <1>5, <1>6, <1>7, <1>8, Zenon DEF SnapshotInv
  <1> QED
    BY <1>1, <1>7, <1>9, Zenon DEF SyncInv, ReplicaInv

----------------------------------------------------------------------------
\* The replica gets the stores of the height, and is to read the payload.
LEMMA BeginRestoreStep ==
  ASSUME SyncInv, BeginRestore
  PROVE  SyncInv'
  <1>1. /\ snapshot.status = "done" /\ replica.tries < MaxTry
        /\ UNCHANGED vars /\ snapshot' = snapshot
    BY Zenon DEF BeginRestore
  <1>a. PICK kept \in {replica.pinned, {}} :
          replica' = [replica EXCEPT !.store = snapshot.store, !.pinned = kept,
                                     !.items = snapshot.payload, !.topin = snapshot.store.pinned,
                                     !.status = "restoring", !.tries = @ + 1]
    BY Zenon DEF BeginRestore
  <1>2. /\ snapshot \in Snapshot /\ SoundStore(snapshot.store) /\ replica \in Replica
        /\ OnDisk(snapshot.store, Members(snapshot.payload))
    BY <1>1, Zenon DEF SyncInv, SnapshotInv, ReplicaInv
  <1>3. replica.tries + 1 \in 0..MaxTry
    BY <1>1, <1>2, StateSyncAssumption DEF Replica
  <1>b. kept \in SUBSET Hash
    <2>1. replica.pinned \in SUBSET Hash
      BY <1>2, Zenon DEF Replica
    <2> QED
      BY <2>1
  <1>4. /\ snapshot.store \in Store /\ snapshot.payload \in Seq(Hash)
    BY <1>2, Zenon DEF Snapshot
  <1>c. snapshot.store.pinned \in SUBSET CodeID
    BY <1>4, Zenon DEF Store
  <1>5. /\ replica' \in Replica /\ replica'.store = snapshot.store
        /\ replica'.items = snapshot.payload /\ replica'.status = "restoring"
        /\ replica'.topin = snapshot.store.pinned
    BY <1>2, <1>3, <1>4, <1>a, <1>b, <1>c, Zenon DEF Replica
  <1>d. "restoring" # "ready"
    OBVIOUS
  <1>6. ReplicaInv'
    BY <1>2, <1>5, <1>d, Zenon DEF ReplicaInv, OnDisk, Pinned
  <1> QED
    BY <1>1, <1>6, Aside, Zenon DEF SyncInv, SnapshotInv, vars

\* restoreV1 stores one item.
LEMMA RestoreItemStep ==
  ASSUME SyncInv, RestoreItem
  PROVE  SyncInv'
  <1> DEFINE r == replica
  <1>1. /\ r.status = "restoring" /\ r.items # << >>
        /\ replica' = [r EXCEPT !.items = Tail(@), !.codes = @ \cup {Head(r.items)}]
        /\ UNCHANGED vars /\ snapshot' = snapshot
    BY Zenon DEF RestoreItem
  <1>2. /\ r \in Replica /\ SoundStore(r.store)
        /\ OnDisk(r.store, r.codes \cup Members(r.items))
        /\ Pinned(r.store, r.store.pinned \ r.topin, r.pinned)
    BY <1>1, Zenon DEF SyncInv, ReplicaInv
  <1>3. r.items \in Seq(Hash) /\ r.codes \subseteq Hash
    BY <1>2, Zenon DEF Replica
  <1>4. PICK q, x : q = Tail(r.items) /\ x = Head(r.items)
    BY Zenon
  <1>5. q \in Seq(Hash) /\ x \in Hash
    BY <1>1, <1>3, <1>4
  <1>6. Members(r.items) \subseteq {x} \cup Members(q)
    <2>1. PICK n \in Nat \ {0} : Len(r.items) = n /\ DOMAIN r.items = 1..n
      BY <1>1, <1>3
    <2>2. /\ x = r.items[1] /\ DOMAIN q = 1..(n - 1)
          /\ \A i \in 1..(n - 1) : q[i] = r.items[i + 1]
      BY <1>1, <1>3, <1>4, <2>1
    <2>3. ASSUME NEW i \in 1..n
          PROVE  r.items[i] \in {x} \cup Members(q)
      <3>1. CASE i = 1
        BY <2>2, <3>1
      <3>2. CASE i # 1
        <4>1. i - 1 \in 1..(n - 1) /\ (i - 1) + 1 = i
          BY <3>2
        <4>2. q[i - 1] = r.items[i]
          BY <2>2, <4>1
        <4> QED
          BY <2>2, <4>1, <4>2, Zenon DEF Members
      <3> QED
        BY <3>1, <3>2
    <2> QED
      BY <2>1, <2>3 DEF Members
  <1>7. /\ replica' \in Replica /\ replica'.store = r.store /\ replica'.status = "restoring"
        /\ replica'.codes = r.codes \cup {x} /\ replica'.items = q
        /\ replica'.pinned = r.pinned /\ replica'.topin = r.topin
    <2>1. r.codes \cup {x} \in SUBSET Hash
      BY <1>3, <1>5
    <2> QED
      BY <1>1, <1>2, <1>4, <1>5, <2>1, Zenon DEF Replica
  <1>8. OnDisk(r.store, (r.codes \cup {x}) \cup Members(q))
    BY <1>2, <1>6, Zenon DEF OnDisk
  <1>9. ReplicaInv'
    BY <1>2, <1>7, <1>8, Zenon DEF ReplicaInv
  <1> QED
    BY <1>1, <1>9, Aside, Zenon DEF SyncInv, SnapshotInv, vars

\* A failed attempt keeps what it stored.
LEMMA RestoreFailsStep ==
  ASSUME SyncInv, RestoreFails
  PROVE  SyncInv'
  <1>1. /\ replica' = [replica EXCEPT !.status = "failed"]
        /\ UNCHANGED vars /\ snapshot' = snapshot
    BY Zenon DEF RestoreFails
  <1>2. replica \in Replica /\ SoundStore(replica.store)
    BY Zenon DEF SyncInv, ReplicaInv
  <1>3. replica' \in Replica /\ replica'.store = replica.store /\ replica'.status = "failed"
    BY <1>1, <1>2, Zenon DEF Replica
  <1>4. "failed" # "restoring" /\ "failed" # "ready"
    OBVIOUS
  <1>5. ReplicaInv'
    BY <1>2, <1>3, <1>4, Zenon DEF ReplicaInv
  <1> QED
    BY <1>1, <1>5, Aside, Zenon DEF SyncInv, SnapshotInv, vars

\* InitializePinnedCodes pins one code, or fails.
LEMMA PinCodeStep ==
  ASSUME SyncInv, PinCode
  PROVE  SyncInv'
  <1> DEFINE r == replica
  <1>1. r.status = "restoring" /\ r.items = << >> /\ UNCHANGED vars /\ snapshot' = snapshot
    BY Zenon DEF PinCode
  <1>2. PICK c \in r.topin :
          replica' = IF HasCode(r.store, c) /\ HashOf(r.store, c) \in r.codes
                     THEN [r EXCEPT !.topin = @ \ {c}, !.pinned = @ \cup {HashOf(r.store, c)}]
                     ELSE [r EXCEPT !.status = "failed"]
    BY Zenon DEF PinCode
  <1>3. /\ r \in Replica /\ SoundStore(r.store)
        /\ OnDisk(r.store, r.codes \cup Members(r.items))
        /\ Pinned(r.store, r.store.pinned \ r.topin, r.pinned)
    BY <1>1, Zenon DEF SyncInv, ReplicaInv
  <1>4. r.codes \in SUBSET Hash /\ r.pinned \in SUBSET Hash /\ r.topin \in SUBSET CodeID
    BY <1>3, Zenon DEF Replica
  <1>5. "failed" # "restoring" /\ "failed" # "ready" /\ "ready" # "restoring"
    OBVIOUS
  <1>6. CASE HasCode(r.store, c) /\ HashOf(r.store, c) \in r.codes
    <2>1. PICK cache, rest : cache = r.pinned \cup {HashOf(r.store, c)} /\ rest = r.topin \ {c}
      BY Zenon
    <2>2. cache \in SUBSET Hash /\ rest \in SUBSET CodeID
      BY <1>4, <1>6, <2>1, Zenon
    <2>3. replica' = [r EXCEPT !.topin = rest, !.pinned = cache]
      BY <1>2, <1>6, <2>1, Zenon
    <2>4. /\ replica' \in Replica /\ replica'.store = r.store /\ replica'.codes = r.codes
          /\ replica'.items = r.items /\ replica'.status = "restoring"
          /\ replica'.pinned = cache /\ replica'.topin = rest
      BY <1>1, <1>3, <2>2, <2>3, Zenon DEF Replica
    <2>5. Pinned(r.store, r.store.pinned \ rest, cache)
      BY <1>3, <2>1, Zenon DEF Pinned
    <2>6. ReplicaInv'
      BY <1>3, <1>5, <2>4, <2>5, Zenon DEF ReplicaInv
    <2> QED
      BY <1>1, <2>6, Aside, Zenon DEF SyncInv, SnapshotInv, vars
  <1>7. CASE ~(HasCode(r.store, c) /\ HashOf(r.store, c) \in r.codes)
    <2>1. /\ replica' \in Replica /\ replica'.store = r.store /\ replica'.status = "failed"
      BY <1>2, <1>3, <1>7, Zenon DEF Replica
    <2>2. ReplicaInv'
      BY <1>3, <1>5, <2>1, Zenon DEF ReplicaInv
    <2> QED
      BY <1>1, <2>2, Aside, Zenon DEF SyncInv, SnapshotInv, vars
  <1> QED
    BY <1>6, <1>7, Zenon

\* finalizeV1 is done, after the last item and the last pinned code.
LEMMA FinalizeRestoreStep ==
  ASSUME SyncInv, FinalizeRestore
  PROVE  SyncInv'
  <1> DEFINE r == replica
  <1>1. /\ r.status = "restoring" /\ r.items = << >> /\ r.topin = {}
        /\ replica' = [r EXCEPT !.status = "ready"]
        /\ UNCHANGED vars /\ snapshot' = snapshot
    BY Zenon DEF FinalizeRestore
  <1>2. /\ r \in Replica /\ SoundStore(r.store)
        /\ OnDisk(r.store, r.codes \cup Members(r.items))
        /\ Pinned(r.store, r.store.pinned \ r.topin, r.pinned)
    BY <1>1, Zenon DEF SyncInv, ReplicaInv
  <1>3. Members(r.items) = {}
    BY <1>1 DEF Members
  <1>4. OnDisk(r.store, r.codes) /\ Pinned(r.store, r.store.pinned, r.pinned)
    BY <1>1, <1>2, <1>3, Zenon DEF OnDisk, Pinned
  <1>5. "ready" # "restoring"
    OBVIOUS
  <1>6. /\ replica' \in Replica /\ replica'.store = r.store /\ replica'.status = "ready"
        /\ replica'.codes = r.codes /\ replica'.pinned = r.pinned
    BY <1>1, <1>2, Zenon DEF Replica
  <1>7. ReplicaInv'
    BY <1>2, <1>4, <1>5, <1>6, Zenon DEF ReplicaInv
  <1> QED
    BY <1>1, <1>7, Aside, Zenon DEF SyncInv, SnapshotInv, vars

----------------------------------------------------------------------------
\* Before the first snapshot there is nothing to restore.
LEMMA SyncStarts ==
  ASSUME SyncInit
  PROVE  SyncInv
  <1>1. /\ IInv(TRUE) /\ committed = EmptyStore
        /\ snapshot = [store |-> EmptyStore, next |-> 1, payload |-> << >>,
                       status |-> "none", taken |-> 0]
        /\ replica = [store |-> EmptyStore, codes |-> {}, pinned |-> {}, items |-> << >>,
                      topin |-> {}, status |-> "empty", tries |-> 0]
    BY InitInv, Zenon DEF SyncInit, Init
  <1>2. SoundStore(EmptyStore) /\ OnDisk(EmptyStore, vmCodes) /\ EmptyStore \in Store
    BY <1>1, CommittedSound, Zenon DEF SoundStore
  <1>3. /\ << >> \in Seq(Hash) /\ 1 \in Nat /\ 1 # 0 /\ 0 \in 0..MaxSnapshot
        /\ 0 \in 0..MaxTry /\ {} \in SUBSET Hash /\ {} \in SUBSET CodeID /\ \A c \in CodeID : ~(c < 1)
    BY StateSyncAssumption DEF CodeID
  <1>4. snapshot \in Snapshot /\ replica \in Replica
    BY <1>1, <1>2, <1>3, Zenon DEF Snapshot, Replica
  <1>5. /\ snapshot.store = EmptyStore /\ snapshot.next = 1 /\ snapshot.status = "none"
        /\ replica.store = EmptyStore /\ replica.status = "empty"
    BY <1>1, Zenon
  <1>6. /\ "none" # "failed" /\ "none" # "done" /\ "empty" # "restoring" /\ "empty" # "ready"
    OBVIOUS
  <1> QED
    BY <1>1, <1>2, <1>3, <1>4, <1>5, <1>6, Zenon DEF SyncInv, SnapshotInv, ReplicaInv

\* Every step keeps the invariant.
LEMMA SyncStep ==
  ASSUME SyncInv, [SyncNext]_syncVars
  PROVE  SyncInv'
  <1>1. CASE Next /\ UNCHANGED <<snapshot, replica>>
    BY <1>1, ChainStep
  <1>2. CASE UNCHANGED syncVars
    <2>1. UNCHANGED vars /\ UNCHANGED <<snapshot, replica>>
      BY <1>2 DEF syncVars
    <2> QED
      BY <2>1, ChainStep
  <1> QED
    BY <1>1, <1>2, TakeSnapshotStep, SnapshotCodeStep, SnapshotDoneStep, BeginRestoreStep,
       RestoreItemStep, RestoreFailsStep, PinCodeStep, FinalizeRestoreStep, Zenon DEF SyncNext

\* The inductive invariant of state sync.
THEOREM SyncInvariance == SyncSpec => []SyncInv
  <1>1. SyncInit => SyncInv
    BY SyncStarts
  <1>2. SyncInv /\ [SyncNext]_syncVars => SyncInv'
    BY SyncStep
  <1> QED
    BY <1>1, <1>2, PTL DEF SyncSpec

\* What the snapshotter and the replica hold always has its type.
THEOREM SyncTypeCorrect == SyncSpec => []SyncTypeOK
  <1>1. SyncInv => SyncTypeOK
    BY Zenon DEF SyncInv, SnapshotInv, ReplicaInv, SyncTypeOK, IInv, TypeOK, StoreInv
  <1> QED
    BY <1>1, SyncInvariance, PTL

\* SnapshotExtension finds every byte code of its height in wasmvm, however
\* long it takes and whatever the chain does meanwhile.
THEOREM SnapshotsSucceed == SyncSpec => []SnapshotNeverFails
  <1>1. SyncInv => SnapshotNeverFails
    BY Zenon DEF SyncInv, SnapshotInv, SnapshotNeverFails
  <1> QED
    BY <1>1, SyncInvariance, PTL

\* A node that finalizeV1 declared ready has the byte code of all its codes,
\* not only of the pinned ones that it checks.
THEOREM RestoredNodesRun == SyncSpec => []RestoredCanRun
  <1>1. SyncInv => RestoredCanRun
    BY Zenon DEF SyncInv, ReplicaInv, RestoredCanRun, Codes, OnDisk, Pinned, Hashes
  <1> QED
    BY <1>1, SyncInvariance, PTL

----------------------------------------------------------------------------
(* Genesis.  From the invariant of a store, ExportGenesis and InitGenesis  *)
(* are shown field by field to give the store back: the lists name every   *)
(* code and contract once, the indexes are those the histories give, and   *)
(* the sanity checks follow from the dense code ids and the instance ids   *)
(* handed out.                                                             *)

\* A record is given by its fields.
LEMMA RecordExtensional ==
  ASSUME NEW A, NEW B, NEW C, NEW D, NEW E, NEW F, NEW G, NEW H, NEW I, NEW J, NEW K, NEW L,
         NEW s \in [codes : A, contracts : B, history : C, byCode : D, byCreator : E,
                    accounts : F, ports : G, pinned : H, seqCode : I, seqInst : J,
                    upload : K, default : L],
         NEW t \in [codes : A, contracts : B, history : C, byCode : D, byCreator : E,
                    accounts : F, ports : G, pinned : H, seqCode : I, seqInst : J,
                    upload : K, default : L],
         t.codes = s.codes, t.contracts = s.contracts, t.history = s.history,
         t.byCode = s.byCode, t.byCreator = s.byCreator, t.accounts = s.accounts,
         t.ports = s.ports, t.pinned = s.pinned, t.seqCode = s.seqCode,
         t.seqInst = s.seqInst, t.upload = s.upload, t.default = s.default
  PROVE  t = s
  BY SMT

\* A store is given by its fields.
LEMMA StoreExtensional ==
  ASSUME NEW s \in Store, NEW t \in Store,
         t.codes = s.codes, t.contracts = s.contracts, t.history = s.history,
         t.byCode = s.byCode, t.byCreator = s.byCreator, t.accounts = s.accounts,
         t.ports = s.ports, t.pinned = s.pinned, t.seqCode = s.seqCode,
         t.seqInst = s.seqInst, t.upload = s.upload, t.default = s.default
  PROVE  t = s
  BY RecordExtensional, ZenonT(30) DEF Store

\* What importCode and importContract make of the lists of a file.
CodesOf(g) ==
  [c \in CodeID |-> IF c \in {x.id : x \in g.codes}
                    THEN (CHOOSE x \in g.codes : x.id = c).info ELSE NoCode]

PinnedOf(g) == {x.id : x \in {y \in g.codes : y.pinned}}

ContractsOf(g) ==
  [a \in Contract |-> IF a \in {x.address : x \in g.contracts}
                      THEN (CHOOSE x \in g.contracts : x.address = a).info ELSE NoContract]

HistoryOf(g) ==
  [a \in Contract |-> IF a \in {x.address : x \in g.contracts}
                      THEN (CHOOSE x \in g.contracts : x.address = a).history ELSE << >>]

ByCodeOf(g) ==
  UNION {addToContractCodeSecondaryIndex({}, x.address, x.history[Len(x.history)]) :
           x \in g.contracts}

ByCreatorOf(g) ==
  UNION {addToContractCreatorSecondaryIndex({}, x.info.creator, IndexedAt(x), x.address) :
           x \in g.contracts}

\* InitGenesis leaves in each field what the file has for it.
LEMMA InitGenesisStore ==
  ASSUME NEW s \in Store, NEW g, CodesOf(g) = s.codes, PinnedOf(g) = s.pinned,
         ContractsOf(g) = s.contracts, HistoryOf(g) = s.history,
         ByCodeOf(g) = s.byCode, ByCreatorOf(g) = s.byCreator,
         g.seqCode = s.seqCode, g.seqInst = s.seqInst,
         g.upload = s.upload, g.default = s.default
  PROVE  InitGenesis(g, s.accounts, s.ports) = s
  <1> DEFINE r == [EmptyStore EXCEPT !.accounts = s.accounts, !.ports = s.ports]
             u == [r EXCEPT !.codes = CodesOf(g), !.pinned = PinnedOf(g)]
             v == [u EXCEPT !.contracts = ContractsOf(g), !.history = HistoryOf(g),
                            !.byCode = ByCodeOf(g), !.byCreator = ByCreatorOf(g)]
             w == [v EXCEPT !.seqCode = g.seqCode, !.seqInst = g.seqInst,
                            !.upload = g.upload, !.default = g.default]
  <1>1. importCodes(r, g) = u
    BY Zenon DEF importCodes, CodesOf, PinnedOf
  <1>2. importContracts(u, g) = v
    BY Zenon DEF importContracts, ContractsOf, HistoryOf, ByCodeOf, ByCreatorOf
  <1>3. InitGenesis(g, s.accounts, s.ports) = w
    BY <1>1, <1>2, Zenon DEF InitGenesis, importSequences
  <1>4. r \in Store /\ r.accounts = s.accounts /\ r.ports = s.ports
    BY EmptyIsStore, StoreFields, Zenon DEF Store
  <1> HIDE DEF r
  <1>5. /\ u \in Store /\ u.accounts = s.accounts /\ u.ports = s.ports
        /\ u.codes = s.codes /\ u.pinned = s.pinned
    BY <1>4, StoreFields, Zenon DEF Store
  <1> HIDE DEF u
  <1>6. /\ v \in Store /\ v.accounts = s.accounts /\ v.ports = s.ports
        /\ v.codes = s.codes /\ v.pinned = s.pinned
        /\ v.contracts = s.contracts /\ v.history = s.history
        /\ v.byCode = s.byCode /\ v.byCreator = s.byCreator
    BY <1>5, StoreFields, Zenon DEF Store
  <1> HIDE DEF v
  <1>7. /\ w \in Store /\ w.accounts = s.accounts /\ w.ports = s.ports
        /\ w.codes = s.codes /\ w.pinned = s.pinned
        /\ w.contracts = s.contracts /\ w.history = s.history
        /\ w.byCode = s.byCode /\ w.byCreator = s.byCreator
        /\ w.seqCode = s.seqCode /\ w.seqInst = s.seqInst
        /\ w.upload = s.upload /\ w.default = s.default
    BY <1>6, StoreFields, Zenon DEF Store
  <1> HIDE DEF w
  <1> QED
    BY <1>3, <1>7, StoreExtensional, Zenon

\* What ExportGenesis writes for a code and for a contract.
ExportedCode(s, c) ==
  [id |-> c, info |-> s.codes[c], bytes |-> HashOf(s, c), pinned |-> c \in s.pinned]

ExportedContract(s, a) ==
  [address |-> a, info |-> s.contracts[a], history |-> s.history[a]]

Exported(g, s) ==
  /\ \A x : x \in g.codes <=> \E c \in CodeID : HasCode(s, c) /\ x = ExportedCode(s, c)
  /\ \A x : x \in g.contracts <=>
       \E a \in Contract : HasContract(s, a) /\ x = ExportedContract(s, a)
  /\ g.seqCode = s.seqCode /\ g.seqInst = s.seqInst
  /\ g.upload = s.upload /\ g.default = s.default

\* ExportGenesis writes an entry for every code and every contract.
LEMMA ExportedEntries ==
  ASSUME NEW s \in Store, NEW g, g = ExportGenesis(s)
  PROVE  Exported(g, s)
  BY Zenon DEF Exported, ExportGenesis, ExportedCode, ExportedContract

\* importCode reads back every code, and the pins.
LEMMA CodesReimport ==
  ASSUME NEW s \in Store, PinnedExist(s), NEW g, g = ExportGenesis(s)
  PROVE  /\ CodesImport(g)
         /\ CodesOf(g) = s.codes
         /\ PinnedOf(g) = s.pinned
  <1>0. \A c : /\ ExportedCode(s, c).id = c
               /\ ExportedCode(s, c).info = s.codes[c]
               /\ ExportedCode(s, c).bytes = HashOf(s, c)
               /\ ExportedCode(s, c).pinned <=> c \in s.pinned
    BY Zenon DEF ExportedCode
  <1>1. \A x : x \in g.codes <=> \E c \in CodeID : HasCode(s, c) /\ x = ExportedCode(s, c)
    <2>1. Exported(g, s)
      BY ExportedEntries, Zenon
    <2> QED
      BY <2>1, Zenon DEF Exported
  <1>2. s.pinned \subseteq CodeID /\ s.codes \in [CodeID -> CodeInfo \cup {NoCode}]
    BY StoreFields, Zenon
  <1>3. CodesImport(g)
    BY <1>1, <1>0, SMT DEF CodesImport, HashOf
  <1>4. \A c \in CodeID : c \in {x.id : x \in g.codes} <=> HasCode(s, c)
    BY <1>1, <1>0, SMT
  <1>5. ASSUME NEW c \in CodeID, HasCode(s, c)
        PROVE  (CHOOSE x \in g.codes : x.id = c).info = s.codes[c]
    <2> DEFINE y == CHOOSE x \in g.codes : x.id = c
    <2>1. ExportedCode(s, c) \in g.codes /\ ExportedCode(s, c).id = c
      BY <1>1, <1>5, <1>0, Zenon
    <2>2. y \in g.codes /\ y.id = c
      BY <2>1, Zenon
    <2> HIDE DEF y
    <2>3. y = ExportedCode(s, c)
      <3>1. PICK b \in CodeID : y = ExportedCode(s, b)
        BY <1>1, <2>2, Zenon
      <3> QED
        BY <1>0, <2>2, <3>1, Zenon
    <2>4. y.info = s.codes[c]
      BY <2>3, <1>0, Zenon
    <2> QED
      BY <2>4, Zenon DEF y
  <1>6. CodesOf(g) = s.codes
    <2>1. ASSUME NEW c \in CodeID
          PROVE  (IF c \in {x.id : x \in g.codes}
                  THEN (CHOOSE x \in g.codes : x.id = c).info ELSE NoCode) = s.codes[c]
      BY <1>4, <1>5, Zenon DEF HasCode
    <2> QED
      BY <1>2, <2>1, Zenon DEF CodesOf
  <1>7. PinnedOf(g) = s.pinned
    <2>1. \A c \in s.pinned : c \in CodeID /\ HasCode(s, c)
      BY <1>2, Zenon DEF PinnedExist
    <2>2. ASSUME NEW c \in {x.id : x \in {y \in g.codes : y.pinned}}
          PROVE  c \in s.pinned
      <3>1. PICK x \in g.codes : x.pinned /\ c = x.id
        BY <2>2, Zenon
      <3>2. PICK b \in CodeID : x = ExportedCode(s, b)
        BY <1>1, <3>1, Zenon
      <3> QED
        BY <1>0, <3>1, <3>2, Zenon
    <2>3. ASSUME NEW c \in s.pinned
          PROVE  c \in {x.id : x \in {y \in g.codes : y.pinned}}
      <3>1. ExportedCode(s, c) \in g.codes /\ ExportedCode(s, c).pinned /\ ExportedCode(s, c).id = c
        BY <1>1, <2>1, <1>0, Zenon
      <3> QED
        BY <3>1, Zenon
    <2> QED
      BY <2>2, <2>3, Zenon DEF PinnedOf
  <1> QED
    BY <1>3, <1>6, <1>7

\* importContract reads back every contract and its history.
LEMMA ContractsReimport ==
  ASSUME NEW s \in Store, HistoryKnown(s, FALSE), ContractCodeExists(s),
         NEW g, g = ExportGenesis(s)
  PROVE  /\ ContractsImport(g)
         /\ ContractsOf(g) = s.contracts
         /\ HistoryOf(g) = s.history
  <1>0. /\ \A c : ExportedCode(s, c).id = c
         /\ \A a : /\ ExportedContract(s, a).address = a
                   /\ ExportedContract(s, a).info = s.contracts[a]
                   /\ ExportedContract(s, a).history = s.history[a]
    BY Zenon DEF ExportedCode, ExportedContract
  <1>1. /\ \A x : x \in g.codes <=> \E c \in CodeID : HasCode(s, c) /\ x = ExportedCode(s, c)
        /\ \A x : x \in g.contracts <=>
             \E a \in Contract : HasContract(s, a) /\ x = ExportedContract(s, a)
    <2>1. Exported(g, s)
      BY ExportedEntries, Zenon
    <2> QED
      BY <2>1, Zenon DEF Exported
  <1>2. /\ s.contracts \in [Contract -> ContractInfo \cup {NoContract}]
        /\ s.history \in [Contract -> Seq(HistoryEntry)]
    BY StoreFields, Zenon
  <1>3. \A a \in Contract : /\ HasContract(s, a) => s.history[a] # << >>
                            /\ ~HasContract(s, a) => s.history[a] = << >>
    BY Zenon DEF HistoryKnown
  <1>4. \A a \in Contract : HasContract(s, a) => /\ s.contracts[a].code \in CodeID
                                                 /\ HasCode(s, s.contracts[a].code)
    BY <1>2, Zenon DEF ContractCodeExists, HasContract, ContractInfo
  <1>5. ContractsImport(g)
    <2>1. ASSUME NEW x \in g.contracts
          PROVE  (\E code \in g.codes : code.id = x.info.code) /\ x.history # << >>
      <3>1. PICK a \in Contract : HasContract(s, a) /\ x = ExportedContract(s, a)
        BY <1>1, Zenon
      <3>2. x.info.code = s.contracts[a].code /\ x.history = s.history[a]
        BY <1>0, <3>1, Zenon
      <3>3. ExportedCode(s, s.contracts[a].code) \in g.codes
        BY <1>1, <1>4, <3>1, Zenon
      <3> QED
        BY <1>0, <1>3, <3>1, <3>2, <3>3, Zenon
    <2>2. ASSUME NEW x \in g.contracts, NEW y \in g.contracts, x.address = y.address
          PROVE  x = y
      <3>1. PICK a \in Contract : x = ExportedContract(s, a)
        BY <1>1, Zenon
      <3>2. PICK b \in Contract : y = ExportedContract(s, b)
        BY <1>1, Zenon
      <3>3. a = b
        <4>1. x.address = a
          BY <1>0, <3>1, Zenon
        <4>2. y.address = b
          BY <1>0, <3>2, Zenon
        <4> QED
          BY <2>2, <4>1, <4>2, Zenon
      <3> QED
        BY <3>1, <3>2, <3>3, Zenon
    <2> QED
      BY <2>1, <2>2, Zenon DEF ContractsImport
  <1>6. \A a \in Contract : a \in {x.address : x \in g.contracts} <=> HasContract(s, a)
    BY <1>1, <1>0, SMT
  <1>7. ASSUME NEW a \in Contract, HasContract(s, a)
        PROVE  /\ (CHOOSE x \in g.contracts : x.address = a).info = s.contracts[a]
               /\ (CHOOSE x \in g.contracts : x.address = a).history = s.history[a]
    <2> DEFINE y == CHOOSE x \in g.contracts : x.address = a
    <2>1. ExportedContract(s, a) \in g.contracts /\ ExportedContract(s, a).address = a
      BY <1>1, <1>7, <1>0, Zenon
    <2>2. y \in g.contracts /\ y.address = a
      BY <2>1, Zenon
    <2> HIDE DEF y
    <2>3. y = ExportedContract(s, a)
      <3>1. PICK b \in Contract : y = ExportedContract(s, b)
        BY <1>1, <2>2, Zenon
      <3> QED
        BY <1>0, <2>2, <3>1, Zenon
    <2>4. y.info = s.contracts[a] /\ y.history = s.history[a]
      BY <2>3, <1>0, Zenon
    <2> QED
      BY <2>4, Zenon DEF y
  <1>8. ContractsOf(g) = s.contracts
    <2>1. ASSUME NEW a \in Contract
          PROVE  (IF a \in {x.address : x \in g.contracts}
                  THEN (CHOOSE x \in g.contracts : x.address = a).info ELSE NoContract)
                 = s.contracts[a]
      BY <1>6, <1>7, Zenon DEF HasContract
    <2> QED
      BY <1>2, <2>1, Zenon DEF ContractsOf
  <1>9. HistoryOf(g) = s.history
    <2>1. ASSUME NEW a \in Contract
          PROVE  (IF a \in {x.address : x \in g.contracts}
                  THEN (CHOOSE x \in g.contracts : x.address = a).history ELSE << >>)
                 = s.history[a]
      BY <1>3, <1>6, <1>7, Zenon
    <2> QED
      BY <1>2, <2>1, Zenon DEF HistoryOf
  <1> QED
    BY <1>5, <1>8, <1>9

\* importContract indexes every contract under the keys it had: by code with
\* the last entry of its history, by creator with the first.
LEMMA IndexesReimport ==
  ASSUME NEW s \in Store, HistoryKnown(s, FALSE), CodeIndexExactIn(s), CreatorIndexExactIn(s),
         NEW g, g = ExportGenesis(s)
  PROVE  ByCodeOf(g) = s.byCode /\ ByCreatorOf(g) = s.byCreator
  <1>0. \A a : /\ ExportedContract(s, a).address = a
               /\ ExportedContract(s, a).info = s.contracts[a]
               /\ ExportedContract(s, a).history = s.history[a]
    BY Zenon DEF ExportedContract
  <1>1. \A x : x \in g.contracts <=>
          \E a \in Contract : HasContract(s, a) /\ x = ExportedContract(s, a)
    <2>1. Exported(g, s)
      BY ExportedEntries, Zenon
    <2> QED
      BY <2>1, Zenon DEF Exported
  <1>2. ASSUME NEW a \in Contract, HasContract(s, a)
        PROVE  LET x == ExportedContract(s, a) IN
               /\ addToContractCodeSecondaryIndex({}, x.address, x.history[Len(x.history)])
                  = {Key(s, a)}
               /\ addToContractCreatorSecondaryIndex({}, x.info.creator, IndexedAt(x), x.address)
                  = {CreatorKey(s, a)}
    <2>1. /\ s.history[a][Len(s.history[a])].code = s.contracts[a].code
          /\ s.history[a][1].updated = s.contracts[a].created
      BY <1>2, Zenon DEF HistoryKnown
    <2> QED
      BY <1>0, <2>1, Zenon DEF addToContractCodeSecondaryIndex,
         addToContractCreatorSecondaryIndex, IndexedAt, Key, CreatorKey
  <1> DEFINE F(x) == addToContractCodeSecondaryIndex({}, x.address, x.history[Len(x.history)])
             G(x) == addToContractCreatorSecondaryIndex(
                       {}, x.info.creator, IndexedAt(x), x.address)
  <1>3. \A a \in Contract : HasContract(s, a) =>
          F(ExportedContract(s, a)) = {Key(s, a)} /\ G(ExportedContract(s, a)) = {CreatorKey(s, a)}
    BY <1>2, Zenon
  <1>4. /\ \A k : k \in s.byCode <=> \E a \in Contract : HasContract(s, a) /\ k = Key(s, a)
        /\ \A k : k \in s.byCreator <=>
             \E a \in Contract : HasContract(s, a) /\ k = CreatorKey(s, a)
    BY CodeIndexMembers, CreatorIndexMembers
  <1> HIDE DEF F, G
  <1>5. UNION {F(x) : x \in g.contracts} = s.byCode
    <2>1. ASSUME NEW k, NEW x \in g.contracts, k \in F(x)
          PROVE  k \in s.byCode
      <3>1. PICK a \in Contract : HasContract(s, a) /\ x = ExportedContract(s, a)
        BY <1>1
      <3>2. k = Key(s, a)
        BY <1>3, <2>1, <3>1, Zenon
      <3> QED
        BY <1>4, <3>1, <3>2, Zenon
    <2>2. ASSUME NEW k \in s.byCode
          PROVE  \E x \in g.contracts : k \in F(x)
      <3>1. PICK a \in Contract : HasContract(s, a) /\ k = Key(s, a)
        BY <1>4
      <3>2. ExportedContract(s, a) \in g.contracts
        BY <1>1, <3>1
      <3>3. k \in F(ExportedContract(s, a))
        BY <1>3, <3>1, Zenon
      <3> QED
        BY <3>2, <3>3, Zenon
    <2> QED
      BY <2>1, <2>2, Zenon
  <1>6. UNION {G(x) : x \in g.contracts} = s.byCreator
    <2>1. ASSUME NEW k, NEW x \in g.contracts, k \in G(x)
          PROVE  k \in s.byCreator
      <3>1. PICK a \in Contract : HasContract(s, a) /\ x = ExportedContract(s, a)
        BY <1>1
      <3>2. k = CreatorKey(s, a)
        BY <1>3, <2>1, <3>1, Zenon
      <3> QED
        BY <1>4, <3>1, <3>2
    <2>2. ASSUME NEW k \in s.byCreator
          PROVE  \E x \in g.contracts : k \in G(x)
      <3>1. PICK a \in Contract : HasContract(s, a) /\ k = CreatorKey(s, a)
        BY <1>4
      <3>2. ExportedContract(s, a) \in g.contracts
        BY <1>1, <3>1
      <3>3. k \in G(ExportedContract(s, a))
        BY <1>3, <3>1, Zenon
      <3> QED
        BY <3>2, <3>3, Zenon
    <2> QED
      BY <2>1, <2>2, Zenon
  <1> QED
    BY <1>5, <1>6, Zenon DEF F, G, ByCodeOf, ByCreatorOf

\* An address is classic only if BuildContractAddressClassic gave it for a
\* code id and an instance id the chain has handed out.
LEMMA ClassicInContract ==
  ASSUME NEW q, ClassicAddress(q, q) \in Contract
  PROVE  q \in CodeID /\ q \in InstanceID
  <1>1. ASSUME NEW h \in Hash, NEW c \in Signer \cup Classic, NEW salt \in Salt
        PROVE  ClassicAddress(q, q) # PredictableAddress(h, c, salt)
    BY Zenon DEF ClassicAddress, PredictableAddress
  <1>2. PICK c \in CodeID, i \in InstanceID : ClassicAddress(q, q) = ClassicAddress(c, i)
    <2> PICK x : x = ClassicAddress(q, q)
      BY Zenon
    <2>1. \A h \in Hash, c \in Signer \cup Classic, salt \in Salt : x # PredictableAddress(h, c, salt)
      BY <1>1, Zenon
    <2>2. x \notin Predictable
      BY <2>1, SMT DEF Predictable
    <2>3. x \in Classic
      BY <2>2, Zenon DEF Contract
    <2> QED
      BY <2>3, SMT DEF Classic
  <1> QED
    BY <1>2, Zenon DEF ClassicAddress

\* The sanity checks at the end of InitGenesis pass: no code has the next
\* code id, and no contract the address the address generator is asked for.
LEMMA SequencesReimport ==
  ASSUME NEW s \in Store, CodesDense(s), ClassicBelow(s), NEW g, g = ExportGenesis(s)
  PROVE  SequencesImport(g)
  <1>0. /\ \A c : ExportedCode(s, c).id = c
        /\ \A a : ExportedContract(s, a).address = a
    BY Zenon DEF ExportedCode, ExportedContract
  <1>1. /\ \A x : x \in g.codes <=> \E c \in CodeID : HasCode(s, c) /\ x = ExportedCode(s, c)
        /\ \A x : x \in g.contracts <=>
             \E a \in Contract : HasContract(s, a) /\ x = ExportedContract(s, a)
        /\ g.seqCode = s.seqCode /\ g.seqInst = s.seqInst
    <2>1. Exported(g, s)
      BY ExportedEntries, Zenon
    <2> QED
      BY <2>1, Zenon DEF Exported
  <1>2. ASSUME NEW x \in g.codes
        PROVE  x.id < g.seqCode
    <2>1. PICK c \in CodeID : HasCode(s, c) /\ x = ExportedCode(s, c)
      BY <1>1
    <2>2. x.id = c /\ c < s.seqCode
      BY <1>0, <2>1, Zenon DEF CodesDense
    <2> QED
      BY <1>1, <2>2, Zenon
  <1>3. ASSUME NEW x \in g.contracts, x.address = ClassicAddress(g.seqInst, g.seqInst)
        PROVE  FALSE
    <2> DEFINE q == s.seqInst
    <2>1. PICK a \in Contract : HasContract(s, a) /\ x = ExportedContract(s, a)
      BY <1>1
    <2>2. a = ClassicAddress(q, q)
      BY <1>0, <1>1, <1>3, <2>1, Zenon
    <2>3. q \in CodeID /\ q \in InstanceID
      BY <2>1, <2>2, ClassicInContract, Zenon
    <2>4. q < q
      BY <2>1, <2>2, <2>3, Zenon DEF ClassicBelow
    <2> QED
      BY <2>3, <2>4 DEF InstanceID
  <1> QED
    BY <1>2, <1>3, Zenon DEF SequencesImport

\* ExportGenesis followed by InitGenesis gives back a store that has the
\* invariant, whatever the order of the positions in its histories.
LEMMA StoreReimports ==
  ASSUME NEW s, NEW pos, StoreInv(s, pos, FALSE), NEW g, g = ExportGenesis(s)
  PROVE  CanInit(g) /\ InitGenesis(g, s.accounts, s.ports) = s
  <1>1. /\ s \in Store /\ HistoryKnown(s, FALSE) /\ CodeIndexExactIn(s)
        /\ CreatorIndexExactIn(s) /\ CodesDense(s) /\ PinnedExist(s)
        /\ ContractCodeExists(s) /\ ClassicBelow(s)
    BY Zenon DEF StoreInv
  <1>2. CanInit(g)
    BY <1>1, CodesReimport, ContractsReimport, SequencesReimport, Zenon DEF CanInit
  <1>5. CodesOf(g) = s.codes /\ PinnedOf(g) = s.pinned
    BY <1>1, CodesReimport, Zenon
  <1>6. ContractsOf(g) = s.contracts /\ HistoryOf(g) = s.history
    BY <1>1, ContractsReimport, Zenon
  <1>7. ByCodeOf(g) = s.byCode /\ ByCreatorOf(g) = s.byCreator
    BY <1>1, IndexesReimport, Zenon
  <1>8. /\ g.seqCode = s.seqCode /\ g.seqInst = s.seqInst
        /\ g.upload = s.upload /\ g.default = s.default
    <2>1. Exported(g, s)
      BY <1>1, ExportedEntries, Zenon
    <2> QED
      BY <2>1, Zenon DEF Exported
  <1> QED
    BY <1>1, <1>2, <1>5, <1>6, <1>7, <1>8, InitGenesisStore, Zenon

\* ExportReimports follows from the invariant of the registry.
LEMMA ReimportsInv ==
  ASSUME IInv(FALSE)
  PROVE  ExportReimports
  <1>1. StoreInv(committed, position, FALSE) /\ OnDisk(committed, vmCodes)
    BY Zenon DEF IInv
  <1>2. CanExport(committed)
    BY <1>1, Zenon DEF CanExport, OnDisk
  <1> QED
    BY <1>1, <1>2, StoreReimports, Zenon DEF ExportReimports

\* A chain started from an export has the invariant, on a machine whose
\* wasmvm directory has just the imported codes.
LEMMA StartFromExportStep ==
  ASSUME IInv(FALSE), StartFromExport
  PROVE  IInv(FALSE)' /\ Grows(committed, committed')
  <1> DEFINE g == ExportGenesis(committed)
             s == committed
  <1>1. /\ stack = << >> /\ stack' = stack
        /\ committed' = InitGenesis(g, committed.accounts, committed.ports)
        /\ position' \in {0, position}
        /\ vmCodes' = {x.bytes : x \in g.codes}
        /\ vmPinned' = {x.info.hash : x \in {y \in g.codes : y.pinned}}
    BY Zenon DEF StartFromExport
  <1>2. StoreInv(s, position, FALSE) /\ s \in Store /\ position \in Position /\ vmCodes \subseteq Hash
        /\ OnDisk(s, vmCodes)
    BY Zenon DEF IInv, StoreInv
  <1>3. committed' = committed
    BY <1>1, <1>2, StoreReimports, Zenon
  <1>4. position' \in Position
    <2>1. 0 \in Position
      BY RegistryAssumption DEF Position
    <2> QED
      BY <1>1, <1>2, <2>1, Zenon
  <1>5. \A x : x \in g.codes <=> \E c \in CodeID : HasCode(s, c) /\ x = ExportedCode(s, c)
    <2>1. Exported(g, s)
      BY <1>2, ExportedEntries, Zenon
    <2> QED
      BY <2>1, Zenon DEF Exported
  <1>6. \A c : /\ ExportedCode(s, c).info = s.codes[c]
               /\ ExportedCode(s, c).bytes = s.codes[c].hash
    BY Zenon DEF ExportedCode, HashOf
  <1> HIDE DEF g, s
  <1>7. vmCodes' \subseteq Hash
    BY <1>1, <1>2, <1>5, <1>6 DEF OnDisk, HashOf
  <1>8. vmPinned' \subseteq vmCodes'
    BY <1>1, <1>5, <1>6
  <1>9. OnDisk(s, vmCodes')
    BY <1>1, <1>5, <1>6 DEF OnDisk, HashOf
  <1>10. StoreInv(s, position', FALSE)
    BY <1>2, Zenon DEF StoreInv, HistoryBefore
  <1>11. Grows(committed, committed')
    BY <1>2, <1>3, GrowsReflexive, Zenon DEF s
  <1> QED
    BY <1>1, <1>3, <1>4, <1>7, <1>8, <1>9, <1>10, <1>11, EmptyStack, Zenon DEF IInv, s

\* The inductive invariant of the registry holds through exports, but for
\* the order of the positions.
THEOREM GenesisInvariance == GenesisSpec => []IInv(FALSE)
  <1>1. GenesisInit => IInv(FALSE)
    BY InitInv, Zenon DEF GenesisInit
  <1>2. IInv(FALSE) /\ [GenesisNext]_genesisVars => IInv(FALSE)'
    <2>1. CASE GenesisNext
      BY <2>1, NextInv, StartFromExportStep, Zenon DEF GenesisNext
    <2>2. CASE UNCHANGED genesisVars
      BY <2>2, NextInv, Zenon DEF genesisVars
    <2> QED
      BY <2>1, <2>2, Zenon
  <1> QED
    BY <1>1, <1>2, PTL DEF GenesisSpec

\* ExportGenesis and InitGenesis: at every height a chain can be exported, the
\* file is accepted, and the new chain has the same registry.
THEOREM ExportAlwaysReimports == GenesisSpec => []ExportReimports
  BY GenesisInvariance, ReimportsInv, PTL

\* No transaction and no export removes or takes over a contract or a code.
THEOREM RegistryGrowsThroughExport == GenesisSpec => RegistryGrows
  <1>1. IInv(FALSE) /\ [GenesisNext]_genesisVars => [Grows(committed, committed')]_vars
    <2>1. CASE GenesisNext
      BY <2>1, NextInv, StartFromExportStep, Zenon DEF GenesisNext
    <2>2. CASE UNCHANGED genesisVars
      BY <2>2, NextInv, Zenon DEF genesisVars
    <2> QED
      BY <2>1, <2>2, Zenon
  <1> QED
    BY <1>1, GenesisInvariance, PTL DEF GenesisSpec, RegistryGrows

\* What holds of the registry's stores in a chain that is never exported
\* holds through any number of exports: InitGenesis rebuilds both indexes
\* and goes on with the sequences where the exported chain was.
THEOREM RegistrySoundThroughExport ==
  GenesisSpec => [](/\ CodeIndexExact /\ CreatorIndexExact /\ PortIffCallbacks
                    /\ ClassicAddressUnused /\ ReferencesResolve)
  <1>1. IInv(FALSE) => /\ CodeIndexExact /\ CreatorIndexExact /\ PortIffCallbacks
                       /\ ClassicAddressUnused /\ ReferencesResolve
    BY StoresAreSound, NextAddressUnused, StoresResolve, Zenon
  <1> QED
    BY <1>1, GenesisInvariance, PTL

\* No export gives a contract's account a key.
THEOREM AccountsPlainThroughExport == GenesisSpec => []ContractAccountPlain
  <1>1. IInv(FALSE) => ContractAccountPlain
    BY StoresAreSound, Zenon
  <1> QED
    BY <1>1, GenesisInvariance, PTL
============================================================================
