------------------------------ MODULE Queries ------------------------------
(***************************************************************************)
(* Gas and depth of contract calls with queries inside: the gas register,  *)
(* the meters of the transaction and of each query, the gas limit of each  *)
(* run of the VM, and the set of contracts loaded in a transaction, which  *)
(* makes later loads cheaper.  A call is the execution of a contract in a  *)
(* transaction or a smart query of a client; inside it, contracts query    *)
(* the chain and each other.                                               *)
(* SDK gas is counted by meters; VM gas, GasMultiplier to one, by the VM.  *)
(* Both are unsigned numbers below Word.                                   *)
(* The engine is external: a contract computes, reads, queries, returns or *)
(* fails, and its own gas is metered by the VM.                            *)
(***************************************************************************)
EXTENDS Integers, Sequences

CONSTANTS
  Checksum, Pinned,            \* codes, and those pinned in the store
  Word, GasMultiplier,
  InstanceCost, InstanceCostDiscount, LoadCost,
  EventPerAttributeCost, EventAttributeDataCost, EventAttributeDataFreeTier,
  CustomEventCost,
  maxQueryStackSize,
  TxGas, queryGasLimit,        \* gas limits of transactions, and of a client's query
  ComputeGas, AccessGas,       \* gas a contract uses at once: VM, and SDK
  DeserGas,                    \* VM gas of decoding a response
  Responses,                   \* attributes and events of a response
  MaxTx,                       \* bound: calls from outside
  NoContracts

ASSUME QueriesAssumption ==
  /\ {Word, GasMultiplier} \subseteq Nat \ {0}
  /\ {InstanceCost, InstanceCostDiscount, LoadCost, EventPerAttributeCost,
      EventAttributeDataCost, EventAttributeDataFreeTier, CustomEventCost,
      maxQueryStackSize, queryGasLimit, MaxTx} \subseteq Nat
  /\ TxGas \cup ComputeGas \cup AccessGas \cup DeserGas \subseteq Nat
  /\ Responses \subseteq [attrs : Seq(Nat),
                          events : Seq([type : Nat, attributes : Seq(Nat)])]
  /\ Pinned \subseteq Checksum
  /\ \A known \in SUBSET Checksum : known # NoContracts

VARIABLES
  calls,      \* the running calls, innermost last
  step,       \* what the innermost one does
  loaded,     \* TxContracts of the transaction, or NoContracts
  txs,        \* calls from outside so far
  work,       \* auxiliary: VM gas of all that was done for the call from outside
  ran,        \* auxiliary: contracts that the VM has run for it
  finished,   \* auxiliary: runs of the VM that ended
  charged     \* the events of the response were charged

vars == <<calls, step, loaded, txs, work, ran, finished, charged>>

----------------------------------------------------------------------------
(* The gas register.                                                       *)

\* ToWasmVMGas, with its test for overflow.
ToWasmVMGas(source) == (source * GasMultiplier) % Word
Overflows(source) == ToWasmVMGas(source) < source

FromWasmVMGas(source) == source \div GasMultiplier

SetupContractCost(discount) == IF discount THEN InstanceCostDiscount ELSE InstanceCost

Total(lengths) ==
  LET sum[i \in 0..Len(lengths)] == IF i = 0 THEN 0 ELSE sum[i - 1] + lengths[i]
  IN  sum[Len(lengths)]

\* eventAttributeCosts and calcWithFreeTier, for attributes of these lengths:
\* the cost, and what is left of the free tier.
eventAttributeCosts(attrs, freeTier) ==
  LET bytes == Total(attrs)
      paid == IF bytes <= freeTier THEN 0 ELSE bytes - freeTier
  IN
  IF attrs = << >> THEN <<0, freeTier>>
  ELSE <<EventAttributeDataCost * paid + EventPerAttributeCost * Len(attrs),
         IF bytes <= freeTier THEN freeTier - bytes ELSE 0>>

\* EventCosts: the attributes of the response, then event by event.
EventCosts(attrs, events) ==
  LET add(acc, e) ==
        LET cost == eventAttributeCosts(e.attributes, acc[2]) IN
        <<acc[1] + CustomEventCost + EventAttributeDataCost * e.type + cost[1], cost[2]>>
      after[i \in 0..Len(events)] ==
        IF i = 0 THEN eventAttributeCosts(attrs, EventAttributeDataFreeTier)
        ELSE add(after[i - 1], events[i])
  IN  after[Len(events)][1]

----------------------------------------------------------------------------
(* Starting a run of the VM.                                               *)

Top == calls[Len(calls)]
SetTop(c) == calls' = [calls EXCEPT ![Len(calls)] = c]

\* What the VM has left of its gas limit.
Remaining(c) == c.vmLimit - c.internal - c.external

\* checkDiscountEligibility, with the contracts known to the transaction.
Discount(h, known) == h \in Pinned \/ (known # NoContracts /\ h \in known)

\* runtimeGasForContract: limit and consumption of the meter.
runtimeGas(limit, consumed) ==
  IF consumed >= limit THEN 0 ELSE ToWasmVMGas(limit - consumed)

\* execute and QuerySmart up to the VM, with a meter of this limit: load the
\* contract, pay for the instance, and convert what is left.  Each of them may
\* panic; the meter counts also what it could not pay.  The contract joins those
\* that get the discount before it has paid and before the VM runs it.  The VM
\* really loads one that is not pinned and that it has not run before, whatever
\* was charged for that.
Enter(limit, size, h, known) ==
  LET discount == Discount(h, known)
      cost == LoadCost + SetupContractCost(discount)
      found == LoadCost <= limit
      starts == cost <= limit /\ (cost < limit => ~Overflows(limit - cost))
      used == IF found THEN cost ELSE LoadCost
      instance == IF h \in Pinned \cup ran THEN SetupContractCost(discount) ELSE InstanceCost
  IN
  /\ calls' = Append(calls,
       [limit |-> limit, consumed |-> used, size |-> size, internal |-> 0, external |-> 0,
        vmLimit |-> IF starts THEN runtimeGas(limit, cost) ELSE 0])
  /\ step' = IF starts THEN "run" ELSE "panics"
  /\ work' = work + GasMultiplier * (LoadCost + IF starts THEN instance ELSE 0)
  /\ ran' = IF starts THEN ran \cup {h} ELSE ran
  /\ loaded' = IF ~found \/ known = NoContracts \/ h \in Pinned THEN known ELSE known \cup {h}

\* TxContractsDecorator: what a transaction starts with.
NewTxContracts == {}

\* checkAndIncreaseQueryStackSize.
StackSize_Same(size) == size
StackSize(size) == size + 1

\* A transaction executes a contract, or a client sends SmartContractState,
\* which no ante handler sees.
Begin(gas, size, h, known) ==
  /\ step = "idle" /\ txs < MaxTx
  /\ Enter(gas, size, h, known)
  /\ txs' = txs + 1 /\ charged' = FALSE
  /\ UNCHANGED finished

BeginTx(gas, h) == Begin(gas, 0, h, NewTxContracts)
SmartContractState(h) ==
  /\ StackSize(0) <= maxQueryStackSize
  /\ Begin(queryGasLimit, StackSize(0), h, NoContracts)

----------------------------------------------------------------------------
(* While the contract runs.                                                *)

\* The contract computes, or runs out of the VM's gas doing so.
Compute(n) ==
  /\ step = "run"
  /\ IF n <= Remaining(Top)
     THEN /\ SetTop([Top EXCEPT !.internal = @ + n])
          /\ work' = work + n /\ UNCHANGED step
     ELSE /\ SetTop([Top EXCEPT !.internal = @ + Remaining(Top)])
          /\ step' = "vmErr" /\ UNCHANGED work
  /\ UNCHANGED <<loaded, txs, ran, finished, charged>>

\* A callback into Go reads the multiplied meter before and after: the
\* difference is what the VM is told.
GasTold_Sdk(before, after) == (after - before) % Word
GasTold(before, after) == (ToWasmVMGas(after) - ToWasmVMGas(before)) % Word

\* It returns to the contract, unless the meter or the conversion panicked,
\* which recoverPanic makes an error, or the VM has not that much left.
Called(c, n) ==
  LET after == c.consumed + n
      told == GasTold(c.consumed, after)
      panics == after > c.limit \/ Overflows(after)
      left == Remaining(c) - told
  IN
  IF panics THEN [call |-> [c EXCEPT !.consumed = after], step |-> "vmErr"]
  ELSE IF left < 0
  THEN [call |-> [c EXCEPT !.consumed = after, !.external = @ + told,
                           !.internal = IF @ + left > 0 THEN @ + left ELSE 0],
        step |-> "vmErr"]
  ELSE [call |-> [c EXCEPT !.consumed = after, !.external = @ + told], step |-> "run"]

\* A query that panicked: its gas is charged, and the VM stops without having
\* been told.
CalledInVain(c, n) == [call |-> [c EXCEPT !.consumed = @ + n], step |-> "vmErr"]

\* A storage access.  The conversion of what was consumed before may panic too.
Access(n) ==
  LET result == Called(Top, n) IN
  /\ step = "run"
  /\ IF Overflows(Top.consumed)
     THEN step' = "vmErr" /\ UNCHANGED <<calls, work>>
     ELSE /\ SetTop(result.call) /\ step' = result.step
          /\ work' = work + n * GasMultiplier
  /\ UNCHANGED <<loaded, txs, ran, finished, charged>>

\* QueryHandler.Query: the limit of the meter of a query.
SubLimit(c) == FromWasmVMGas(Remaining(c))

\* A query that the chain answers, on a meter of its own.
ChainQuery(n) ==
  LET result == IF n > SubLimit(Top) THEN CalledInVain(Top, n) ELSE Called(Top, n) IN
  /\ step = "run" /\ ~Overflows(Top.consumed)
  /\ SetTop(result.call) /\ step' = result.step
  /\ work' = work + n * GasMultiplier
  /\ UNCHANGED <<loaded, txs, ran, finished, charged>>

\* QuerySmart.  Too deep a query is an error that the contract sees, before any
\* gas is used.
SmartQuery(h) ==
  /\ step = "run" /\ ~Overflows(Top.consumed)
  /\ StackSize(Top.size) <= maxQueryStackSize
  /\ Enter(SubLimit(Top), StackSize(Top.size), h, loaded)
  /\ UNCHANGED <<txs, finished, charged>>

----------------------------------------------------------------------------
(* When the VM returns.                                                    *)

\* The contract returns data that DeserializeResponse can pay for, or not;
\* what it decodes to may be an error.
VmReturns(n) ==
  /\ step = "run"
  /\ IF Top.vmLimit < n + Top.internal
     THEN step' = "vmErr" /\ UNCHANGED <<calls, work>>
     ELSE /\ SetTop([Top EXCEPT !.internal = @ + n])
          /\ work' = work + n
          /\ step' \in {"vmOk", "vmErr"}
  /\ UNCHANGED <<loaded, txs, ran, finished, charged>>

\* consumeRuntimeGas.
ChargeRuntime ==
  LET total == Top.consumed + FromWasmVMGas(Top.internal) IN
  /\ step \in {"vmOk", "vmErr"}
  /\ SetTop([Top EXCEPT !.consumed = total, !.internal = 0, !.external = 0, !.vmLimit = 0])
  /\ finished' = finished + 1
  /\ step' = IF total >= Top.limit THEN "panics"
             ELSE IF step = "vmOk" THEN "answers" ELSE "errs"
  /\ UNCHANGED <<loaded, txs, work, ran, charged>>

\* The deferred charge of a query: its meter goes to the caller's, whether it
\* answers, fails or panics; after a panic the caller's VM stops.
QueryCharge_NotOnPanic == IF step = "panics" THEN 0 ELSE Top.consumed
QueryCharge == Top.consumed

QueryReturns ==
  LET caller == calls[Len(calls) - 1]
      result == IF step = "panics" THEN CalledInVain(caller, QueryCharge)
                ELSE Called(caller, QueryCharge)
  IN
  /\ step \in {"answers", "errs", "panics"} /\ Len(calls) > 1
  /\ calls' = Append(SubSeq(calls, 1, Len(calls) - 2), result.call)
  /\ step' = result.step
  /\ UNCHANGED <<loaded, txs, work, ran, finished, charged>>

\* What the events of a response are worth: the free tier is given once for all
\* attributes, and every event, attribute and further byte costs.
EventsWorth(attrs, events) ==
  LET bytes == Total(attrs) + Total([i \in DOMAIN events |-> Total(events[i].attributes)])
      count == Len(attrs) + Total([i \in DOMAIN events |-> Len(events[i].attributes)])
      over == IF bytes > EventAttributeDataFreeTier
              THEN bytes - EventAttributeDataFreeTier ELSE 0
      types == Total([i \in DOMAIN events |-> events[i].type])
  IN
  EventAttributeDataCost * (over + types)
    + EventPerAttributeCost * count + CustomEventCost * Len(events)

\* handleContractResponse of a transaction charges for the events.
ChargeEvents(attrs, events) ==
  LET total == Top.consumed + EventCosts(attrs, events) IN
  /\ step = "answers" /\ Len(calls) = 1 /\ loaded # NoContracts /\ ~charged
  /\ SetTop([Top EXCEPT !.consumed = total])
  /\ charged' = TRUE
  /\ work' = work + GasMultiplier * EventsWorth(attrs, events)
  /\ step' = IF total > Top.limit THEN "panics" ELSE "answers"
  /\ UNCHANGED <<loaded, txs, ran, finished>>

\* The transaction or the client's query is over.
End ==
  /\ step \in {"answers", "errs", "panics"} /\ Len(calls) = 1
  /\ step = "answers" /\ loaded # NoContracts => charged
  /\ calls' = << >> /\ step' = "idle"
  /\ work' = 0 /\ ran' = {} /\ finished' = 0
  /\ UNCHANGED <<loaded, txs, charged>>

Init ==
  /\ calls = << >> /\ step = "idle" /\ loaded = NoContracts
  /\ txs = 0 /\ work = 0 /\ ran = {} /\ finished = 0 /\ charged = FALSE

Next ==
  \/ \E h \in Checksum : \/ \E gas \in TxGas : BeginTx(gas, h)
                         \/ SmartContractState(h) \/ SmartQuery(h)
  \/ \E n \in ComputeGas : Compute(n)
  \/ \E n \in AccessGas : Access(n) \/ ChainQuery(n)
  \/ \E n \in DeserGas : VmReturns(n)
  \/ \E r \in Responses : ChargeEvents(r.attrs, r.events)
  \/ ChargeRuntime \/ QueryReturns \/ End

Spec == Init /\ [][Next]_vars

----------------------------------------------------------------------------

\* What a contract has used so far fits into the gas of its call: the meter
\* can pay what it counted, the gas of the VM, and the whole limit of the
\* query that runs inside, also where conversions round or overflow.
PayableWork ==
  \A k \in DOMAIN calls :
    k < Len(calls) \/ step = "run" =>
      LET sub == IF k < Len(calls) THEN calls[k + 1].limit ELSE 0 IN
      GasMultiplier * (calls[k].consumed + sub) + calls[k].internal
        <= GasMultiplier * calls[k].limit

\* When the call from outside is over, its meter was charged for everything
\* that was done for it, on whatever path its queries ended, and for the events
\* of the response, up to its gas limit and except for less than one SDK gas for
\* each run of the VM.  The first load of a contract counts in full, so a discount
\* has to be backed by a load that was charged before: a query that cannot pay for
\* it puts the contract into TxContracts, but takes all gas of its caller.  This is
\* so for every gas limit whose conversion does not overflow.
AllIsCharged ==
  Len(calls) = 1 /\ step \in {"answers", "errs", "panics"}
    /\ GasMultiplier * Top.limit < Word =>
    LET paid == GasMultiplier * (Top.consumed + finished)
    IN  work <= paid \/ GasMultiplier * Top.limit <= paid

\* Queries nest at most maxQueryStackSize deep below a transaction.
NestingBounded ==
  Len(calls) <= maxQueryStackSize + (IF loaded = NoContracts THEN 0 ELSE 1)
============================================================================
