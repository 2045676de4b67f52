------------------------------- MODULE Authz -------------------------------
(***************************************************************************)
(* The authorizations x/wasm adds to x/authz: one account executes or      *)
(* migrates contracts, or uploads code, in the name of another, within     *)
(* limits and filters.  One granter and one grantee; the grantee sends     *)
(* transactions of several messages, any of which may fail, and the        *)
(* granter replaces or revokes the authorizations in between.              *)
(* x/authz itself is external: it looks up the authorization for the type  *)
(* of the message, asks it, and stores what it answers.                    *)
(***************************************************************************)
EXTENDS AccessControl, Integers, Sequences

CONSTANTS
  Contract,       \* contract addresses
  Denom,          \* coin denominations
  Payload,        \* message bodies
  KeysOf,         \* the top-level keys of a body ({} if it is no object)
  Granter,        \* who grants
  Hash,           \* checksums of byte code
  Wildcard,       \* CodehashWildcard
  NoConfig,       \* no instantiate permission given
  Default,        \* the chain's default instantiate permission
  InputFunds,     \* funds messages carry
  InputConfig,    \* permissions MsgStoreCode carries
  InputGrants,    \* contract grant lists a granter sends
  InputCodeGrants,\* code grant lists a granter sends
  None,           \* no authorization is stored
  MaxMessage,     \* bound: messages of a transaction
  MaxTx           \* bound: transactions

Coins == [Denom -> Nat]
Zero == [d \in Denom |-> 0]
IsAllLTE(a, b) == \A d \in Denom : a[d] <= b[d]
Sub(a, b) == [d \in Denom |-> a[d] - b[d]]
Add(a, b) == [d \in Denom |-> a[d] + b[d]]

MaxCallsLimit(n) == [type |-> "calls", calls |-> n, amounts |-> Zero]
MaxFundsLimit(c) == [type |-> "funds", calls |-> 0, amounts |-> c]
CombinedLimit(n, c) == [type |-> "combined", calls |-> n, amounts |-> c]

AllowAllMessages == [type |-> "all", accepted |-> {}]
AcceptedMessageKeys(keys) == [type |-> "keys", accepted |-> keys]
AcceptedMessages(bodies) == [type |-> "messages", accepted |-> bodies]

\* A grant for a contract.
Grant(contract, limit, filter) ==
  [contract |-> contract, limit |-> limit, filter |-> filter]

Limit ==
  {limit \in [type : {"calls", "funds", "combined"}, calls : Nat, amounts : Coins] :
     /\ limit.type = "calls" => limit.amounts = Zero
     /\ limit.type = "funds" => limit.calls = 0}
Filter == [type : {"all", "keys", "messages"}, accepted : SUBSET (STRING \cup Payload)]
ContractGrant == [contract : Contract, limit : Limit, filter : Filter]

ContractMsg == {"execute", "migrate"}

ASSUME AuthzAssumption ==
  /\ KeysOf \in [Payload -> SUBSET STRING]
  /\ InputGrants \subseteq Seq(ContractGrant)
  /\ None \notin Limit
  /\ Wildcard \notin Hash
  /\ InputFunds \subseteq Coins
  /\ Default \in AccessType
  /\ MaxMessage \in Nat /\ MaxTx \in Nat

VARIABLES
  stored,  \* per type of message: the authorization, and what was done with it
  tx,      \* the grantee's running transaction: its branch of stored, or None
  txs      \* transactions so far

vars == <<stored, tx, txs>>

----------------------------------------------------------------------------
(* ValidateBasic of what a granter sends.                                  *)

ValidLimit(limit) ==
  /\ limit.type \in {"calls", "combined"} => limit.calls # 0
  /\ limit.type \in {"funds", "combined"} => limit.amounts # Zero

ValidFilter(filter) == filter.type # "all" => filter.accepted # {}

validateGrants(list) ==
  /\ list # << >>
  /\ \A i \in DOMAIN list : ValidLimit(list[i].limit) /\ ValidFilter(list[i].filter)

\* StoreCodeAuthorization.ValidateBasic: a wildcard stands alone, and no
\* checksum comes twice.
ValidCodeGrants(list) ==
  /\ list # << >>
  /\ \A i \in DOMAIN list :
       list[i].permission # NoConfig => ValidConfig(list[i].permission)
  /\ Len(list) > 1 => /\ \A i \in DOMAIN list : list[i].hash # Wildcard
                      /\ \A i, j \in DOMAIN list : list[i].hash = list[j].hash => i = j

----------------------------------------------------------------------------
(* Accept of the limits and filters.  A limit answers whether it applies,  *)
(* and what remains of it: itself, another limit, or nothing (deleted).    *)

Refused == [accepted |-> FALSE, error |-> FALSE, rest |-> None]
Failed == [accepted |-> FALSE, error |-> TRUE, rest |-> None]
Applies(rest) == [accepted |-> TRUE, error |-> FALSE, rest |-> rest]

AcceptCalls(limit, funds) ==
  IF funds # Zero THEN Refused
  ELSE CASE limit.calls = 0 -> Failed
         [] limit.calls = 1 -> Applies(None)
         [] OTHER -> Applies(MaxCallsLimit(limit.calls - 1))

AcceptFunds(limit, funds) ==
  IF funds = Zero THEN Applies(limit)
  ELSE IF ~IsAllLTE(funds, limit.amounts) THEN Refused
  ELSE LET left == Sub(limit.amounts, funds)
       IN  IF left = Zero THEN Applies(None) ELSE Applies(MaxFundsLimit(left))

AcceptCombined_CallsOnly(limit, funds) ==
  IF ~IsAllLTE(funds, limit.amounts) THEN Refused
  ELSE CASE limit.calls = 0 -> Failed
         [] limit.calls = 1 -> Applies(None)
         [] OTHER -> Applies(CombinedLimit(limit.calls - 1, limit.amounts))

AcceptCombined(limit, funds) ==
  IF ~IsAllLTE(funds, limit.amounts) THEN Refused
  ELSE LET left == Sub(limit.amounts, funds)
       IN  CASE limit.calls = 0 -> Failed
             [] limit.calls = 1 -> Applies(None)
             [] limit.calls > 1 /\ left = Zero -> Applies(None)
             [] OTHER -> Applies(CombinedLimit(limit.calls - 1, left))

AcceptLimit(limit, funds) ==
  CASE limit.type = "calls"    -> AcceptCalls(limit, funds)
    [] limit.type = "funds"    -> AcceptFunds(limit, funds)
    [] limit.type = "combined" -> AcceptCombined(limit, funds)

\* isJSONObjectWithTopLevelKey: an object with exactly one key, an allowed one.
KeyMatches(body, keys) == \E key \in keys : KeysOf[body] = {key}

\* A body is valid JSON here: MsgExecuteContract.ValidateBasic came before.
AcceptFilter(filter, body) ==
  \/ filter.type = "all"
  \/ filter.type = "keys" /\ KeyMatches(body, filter.accepted)
  \/ filter.type = "messages" /\ body \in filter.accepted

----------------------------------------------------------------------------
(* AcceptGrantedMessage.                                                   *)

\* One turn of the loop over the grants: the grant does not apply, or an
\* error ends the loop, or the grant takes the message.
Turn(grant, msg) ==
  LET limit == AcceptLimit(grant.limit, msg.funds)
      matches == AcceptFilter(grant.filter, msg.body)
  IN  CASE grant.contract # msg.contract -> "continue"
        [] grant.contract = msg.contract /\ limit.error -> "error"
        [] OTHER -> IF limit.accepted /\ matches THEN "accept" ELSE "continue"

\* The grant at which the loop ends, or 0.
First(places) ==
  IF places = {} THEN 0 ELSE CHOOSE i \in places : \A j \in places : i <= j

EndsAt_FirstForContract(list, msg) ==
  First({i \in DOMAIN list : list[i].contract = msg.contract})

EndsAt(list, msg) ==
  First({i \in DOMAIN list : Turn(list[i], msg) # "continue"})

\* The list after grant i took the message.
Without(list, i) == SubSeq(list, 1, i - 1) \o SubSeq(list, i + 1, Len(list))

Updated(list, i, rest) ==
  IF rest = None THEN Without(list, i) ELSE [list EXCEPT ![i].limit = rest]

\* What is answered: the grants that remain, None for an authorization to
\* delete, or no acceptance at all.  A list that would not validate is an
\* error ("sanity check").
AcceptGrantedMessage(list, msg) ==
  LET i == EndsAt(list, msg)
      rest == AcceptLimit(list[i].limit, msg.funds).rest
      updated == Updated(list, i, rest)
      verdict == IF i = 0 THEN "continue" ELSE Turn(list[i], msg)
  IN  CASE verdict = "continue" -> [answer |-> "refused", by |-> 0, list |-> list]
        [] verdict = "error"    -> [answer |-> "error", by |-> i, list |-> list]
        [] verdict = "accept"   ->
             [answer |-> IF updated = << >> \/ validateGrants(updated)
                         THEN "accepted" ELSE "error",
              by |-> i, list |-> updated]

\* CodeGrant.Accept.  The permission of the message is dereferenced when
\* the grant has one: a message without one fails.
CodeGrantAccept_NilIsSubset(grant, hash, permission) ==
  /\ grant.hash \in {Wildcard, hash}
  /\ \/ NoConfig \in {grant.permission, permission}
     \/ ConfigIsSubset(permission, grant.permission)

CodeGrantAccept(grant, hash, permission) ==
  /\ grant.hash \in {Wildcard, hash}
  /\ \/ grant.permission = NoConfig
     \/ permission # NoConfig /\ ConfigIsSubset(permission, grant.permission)

----------------------------------------------------------------------------
(* The chain.  A stored authorization is its list of grants.  It is kept   *)
(* together with the list it began as, the place each grant has in that    *)
(* list, and what the grant at each place was used for.                    *)

Fresh(list) ==
  [list |-> list, granted |-> list, places |-> [i \in DOMAIN list |-> i],
   calls |-> [i \in DOMAIN list |-> 0], spent |-> [i \in DOMAIN list |-> Zero]]

Used(auth, result, funds) ==
  LET by == auth.places[result.by]
      counted == auth.granted[by].limit.type # "funds"
      removed == Len(result.list) < Len(auth.list)
  IN  [auth EXCEPT !.list = result.list,
                   !.places = IF removed THEN Without(@, result.by) ELSE @,
                   !.calls[by] = IF counted THEN @ + 1 ELSE @,
                   !.spent[by] = Add(@, funds)]

Types == ContractMsg \cup {"store"}

Init ==
  /\ stored = [t \in Types |-> None]
  /\ tx = None
  /\ txs = 0

\* MsgGrant replaces the authorization, if the new one is valid.
SendGrant(t, list) ==
  /\ tx = None
  /\ IF t = "store" THEN ValidCodeGrants(list) ELSE validateGrants(list)
  /\ stored' = [stored EXCEPT ![t] = Fresh(list)]
  /\ UNCHANGED <<tx, txs>>

\* MsgRevoke, or the grant expires.
Revoke(t) ==
  /\ tx = None /\ stored[t] # None
  /\ stored' = [stored EXCEPT ![t] = None]
  /\ UNCHANGED <<tx, txs>>

BeginTx ==
  /\ tx = None /\ txs < MaxTx
  /\ tx' = [stored |-> stored, sent |-> 0, codes |-> {}, failed |-> FALSE]
  /\ txs' = txs + 1
  /\ UNCHANGED stored

\* One message of MsgExec under an execute or migrate authorization.  If it
\* is not accepted, or its handler fails, the transaction fails; else the
\* authorization is updated, or deleted with its last grant: the record of
\* a deleted one stays, with no grants, and takes no message.
Execute(t, msg) ==
  LET auth == tx.stored[t]
      result == AcceptGrantedMessage(auth.list, msg)
  IN
  /\ tx # None /\ ~tx.failed /\ tx.sent < MaxMessage
  /\ IF auth # None /\ result.answer = "accepted"
     THEN tx' = [tx EXCEPT
            !.sent = @ + 1,
            !.stored[t] = Used(auth, result, msg.funds)]
     ELSE tx' = [tx EXCEPT !.failed = TRUE]
  /\ UNCHANGED <<stored, txs>>

\* MsgStoreCode, with the instantiate permission create gives the code.
StoreCode(hash, permission) ==
  LET auth == tx.stored["store"]
      access == IF permission = NoConfig THEN With(Default, Granter) ELSE permission
  IN
  /\ tx # None /\ ~tx.failed /\ tx.sent < MaxMessage
  /\ IF /\ auth # None
        /\ \E i \in DOMAIN auth.list : CodeGrantAccept(auth.list[i], hash, permission)
        /\ ConfigIsSubset(access, With(Default, Granter))
     THEN tx' = [tx EXCEPT !.sent = @ + 1,
                           !.codes = @ \cup {[hash |-> hash, access |-> access]}]
     ELSE tx' = [tx EXCEPT !.failed = TRUE]
  /\ UNCHANGED <<stored, txs>>

\* A handler fails.
MessageFails ==
  /\ tx # None /\ ~tx.failed
  /\ tx' = [tx EXCEPT !.failed = TRUE]
  /\ UNCHANGED <<stored, txs>>

EndTx ==
  /\ tx # None
  /\ stored' = IF tx.failed THEN stored ELSE tx.stored
  /\ tx' = None
  /\ UNCHANGED txs

Message(t) ==
  [contract : Contract, body : Payload,
   funds : IF t = "migrate" THEN {Zero} ELSE InputFunds]

Next ==
  \/ \E t \in ContractMsg : \/ \E list \in InputGrants : SendGrant(t, list)
                            \/ \E msg \in Message(t) : Execute(t, msg)
  \/ \E list \in InputCodeGrants : SendGrant("store", list)
  \/ \E h \in Hash, c \in InputConfig \cup {NoConfig} : StoreCode(h, c)
  \/ \E t \in Types : Revoke(t)
  \/ BeginTx \/ MessageFails \/ EndTx

Spec == Init /\ [][Next]_vars

----------------------------------------------------------------------------
(* Properties, of the committed authorizations and of those in the branch. *)

All ==
  LET branches == {stored} \cup (IF tx = None THEN {} ELSE {tx.stored})
  IN  {s[t] : s \in branches, t \in ContractMsg} \ {None}

\* A grant has something left after these calls and funds.
Lasts(limit, calls, spent) ==
  /\ limit.type # "funds" => calls < limit.calls
  /\ limit.type # "calls" => spent # limit.amounts

\* What the grantee did with a grant over all transactions never exceeds
\* what the granter granted.  The list holds, in the granter's order, exactly
\* the grants that have something left, each with the difference: "when the
\* limit lapsed the grant is removed", and using one disturbs no other.
WithinBudget ==
  \A auth \in All :
    /\ \A i, j \in DOMAIN auth.list : i < j => auth.places[i] < auth.places[j]
    /\ \A i \in DOMAIN auth.granted :
         LET limit == auth.granted[i].limit
             left == [limit EXCEPT
                        !.calls = IF limit.type = "funds" THEN @ ELSE @ - auth.calls[i],
                        !.amounts = Sub(@, auth.spent[i])]
         IN
         /\ limit.type # "funds" => auth.calls[i] <= limit.calls
         /\ IsAllLTE(auth.spent[i], limit.amounts)
         /\ {auth.list[k] : k \in {k \in DOMAIN auth.list : auth.places[k] = i}}
              = IF Lasts(limit, auth.calls[i], auth.spent[i])
                THEN {[auth.granted[i] EXCEPT !.limit = left]} ELSE {}

\* What the grants in force allow, said without an order: one of them is for
\* the contract, its filter matches and its limit is not used up.
Permitted(list, msg) ==
  \E i \in DOMAIN list :
    LET limit == list[i].limit IN
    /\ list[i].contract = msg.contract
    /\ AcceptFilter(list[i].filter, msg.body)
    /\ IF limit.type = "calls" THEN msg.funds = Zero
       ELSE IsAllLTE(msg.funds, limit.amounts)

\* "allow multiple grants for a contract": whatever was used before, the loop
\* accepts a message if one of the grants permits it and refuses it if none
\* does.  No grant earlier in the list stands in the way of a later one, and
\* no error of a limit or of the sanity check on the updated list gets
\* between.
AcceptsPermitted ==
  \A auth \in All : \A msg \in Message("execute") :
    AcceptGrantedMessage(auth.list, msg).answer
      = IF Permitted(auth.list, msg) THEN "accepted" ELSE "refused"

\* Code uploaded under an authorization may be instantiated only by those a
\* grant for its checksum admits, although create fills in the chain's
\* default when the message names nobody.
UploadWithinGrant ==
  tx # None => \A code \in tx.codes :
    \E i \in DOMAIN stored["store"].list :
      LET grant == stored["store"].list[i] IN
      /\ grant.hash \in {Wildcard, code.hash}
      /\ grant.permission # NoConfig => ConfigIsSubset(code.access, grant.permission)
============================================================================
