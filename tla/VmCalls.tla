------------------------------ MODULE VmCalls ------------------------------
(***************************************************************************)
(* Calls of contracts through the bindings of wasmvm: what Go and Rust     *)
(* share while a contract runs.  Go keeps the iterators of all running     *)
(* calls in one table; Rust keeps references into it and hands out numbers *)
(* to the contract; data goes back and forth in vectors that one side      *)
(* allocates and the other must destroy.  Several threads run calls at     *)
(* once, for transactions, queries and simulations, and a query of a       *)
(* contract may run another call inside a callback.                        *)
(* The engine (cosmwasm-vm) is external: a contract may use any callback,  *)
(* return, or fail, as long as it has gas.                                 *)
(***************************************************************************)
EXTENDS Integers, Sequences, Functions

CONSTANTS
  Thread,         \* threads that run calls
  frameLenLimit,  \* iterators a call may have
  MaxCall,        \* bound: calls started
  MaxDepth,       \* bound: calls nested in one thread
  Gas,            \* Gas[n]: callbacks the gas of the n-th call allows
  Items           \* entries an iterator runs over

ASSUME VmCallsAssumption ==
  /\ {frameLenLimit, MaxCall, MaxDepth, Items} \subseteq Nat
  /\ Gas \in [1..MaxCall -> Nat]

VARIABLES
  latestCallID,
  iteratorFrames,  \* call id |-> places of iterators in opened
  opened,          \* every iterator opened so far: by which call, state, position
  stacks           \* per thread: the calls it is in, innermost last

vars == <<latestCallID, iteratorFrames, opened, stacks>>

\* Vectors: what a callback gives to Rust, and what a call gives to Go.
Role == {"output", "value", "error", "result", "errmsg"}

\* pc: the contract runs ("wasm"); a query runs in Go ("querying", and
\* "queried" once it called a contract); a callback has returned to Rust
\* ("back"); the contract must not go on ("trapped"); the call has returned
\* to Go ("done"); endCall has yet to run ("ending") or closes ("closing").
\* refs: the iterators of GoStorage, with the place in opened they stand for.
Call(id) ==
  [id |-> id, pc |-> "wasm", gas |-> Gas[latestCallID + 1], refs |-> << >>, goError |-> "None",
   errno |-> "Success", vec |-> [r \in Role |-> 0], closing |-> << >>]

\* The innermost call of a thread.
Top(t) == stacks[t][Len(stacks[t])]

Frame(id) == IF id \in DOMAIN iteratorFrames THEN iteratorFrames[id] ELSE << >>

Init ==
  /\ latestCallID = 0
  /\ iteratorFrames = << >>
  /\ opened = << >>
  /\ stacks = [t \in Thread |-> << >>]

----------------------------------------------------------------------------
(* Go: iterator.go                                                         *)

NewCallID_Depth(t) == Len(stacks[t]) + 1
NewCallID(t) == latestCallID + 1

\* A call: startCall, the views and pointers for the backend, and into Rust.
startCall(t) ==
  LET id == NewCallID(t)
      nested == stacks[t] # << >>
  IN
  /\ latestCallID < MaxCall /\ Len(stacks[t]) < MaxDepth
  /\ nested => Top(t).pc = "querying"
  /\ latestCallID' = latestCallID + 1
  /\ stacks' = [stacks EXCEPT ![t] =
       Append(IF nested THEN [@ EXCEPT ![Len(@)].pc = "queried"] ELSE @, Call(id))]
  /\ UNCHANGED <<iteratorFrames, opened>>

\* The innermost call of the thread changes.
SetTop(t, call) == stacks' = [stacks EXCEPT ![t][Len(stacks[t])] = call]

\* A callback: the contract pays for it.
InWasm(t) ==
  /\ stacks[t] # << >> /\ Top(t).pc = "wasm" /\ Top(t).gas > 0

\* Go returns to Rust with a code, after it filled some of the vectors.
Returns(call, goError, roles) ==
  [call EXCEPT !.pc = "back", !.goError = goError, !.gas = @ - 1,
               !.vec = [r \in Role |-> @[r] + IF r \in roles THEN 1 ELSE 0]]

\* cGet, cSet and cDelete: a value, none, or a panic of the store that
\* recoverPanic turns into a code.
StorageAccess(t) ==
  /\ InWasm(t)
  /\ \E result \in {<<"None", {"output"}>>, <<"None", {}>>, <<"OutOfGas", {}>>, <<"Panic", {}>>} :
       SetTop(t, Returns(Top(t), result[1], result[2]))
  /\ UNCHANGED <<latestCallID, iteratorFrames, opened>>

\* cHumanizeAddress, cCanonicalizeAddress and cValidateAddress: an address
\* the chain refuses is an error for the contract, an empty result a panic.
AddressAccess(t) ==
  /\ InWasm(t)
  /\ \E result \in {<<"None", {"output"}>>, <<"None", {}>>, <<"User", {"error"}>>, <<"Panic", {}>>} :
       SetTop(t, Returns(Top(t), result[1], result[2]))
  /\ UNCHANGED <<latestCallID, iteratorFrames, opened>>

storeIterator(id, it) ==
  [i \in DOMAIN iteratorFrames \cup {id} |->
     IF i = id THEN Append(Frame(id), it) ELSE iteratorFrames[i]]

\* cScan with buildIterator.  The iterator is open before the store charges for
\* the seek, which may panic, and before the table is asked.
cScan(t) ==
  LET call == Top(t)
      it == Len(opened) + 1
  IN
  /\ InWasm(t)
  /\ opened' = Append(opened, [call |-> call.id, open |-> TRUE, left |-> Items])
  /\ \/ /\ SetTop(t, Returns(call, "OutOfGas", {}))
        /\ UNCHANGED iteratorFrames
     \/ /\ Len(Frame(call.id)) >= frameLenLimit
        /\ SetTop(t, Returns(call, "User", {"error"}))
        /\ UNCHANGED iteratorFrames
     \/ /\ Len(Frame(call.id)) < frameLenLimit
        /\ iteratorFrames' = storeIterator(call.id, it)
        /\ SetTop(t, [Returns(call, "None", {}) EXCEPT !.refs =
                        Append(@, [call_id |-> call.id,
                                   iterator_id |-> Len(Frame(call.id)) + 1,
                                   stands |-> it])])
  /\ UNCHANGED latestCallID

\* retrieveIterator: 0 for nil.
retrieveIterator(ref) ==
  IF ref.iterator_id \in DOMAIN Frame(ref.call_id)
  THEN Frame(ref.call_id)[ref.iterator_id] ELSE 0

\* GoStorage.next, next_key and next_value with cNext and nextPart.  A number
\* Rust does not know never reaches Go; a reference Go does not know panics.
cNext(t) ==
  LET call == Top(t) IN
  /\ InWasm(t)
  /\ \E k \in 1..(Len(call.refs) + 1) :
       LET it == IF k \in DOMAIN call.refs THEN retrieveIterator(call.refs[k]) ELSE 0
           valid == it # 0 /\ opened[it].left > 0
       IN
       \/ /\ k \notin DOMAIN call.refs
          /\ SetTop(t, Returns(call, "Unknown", {}))
          /\ UNCHANGED opened
       \/ /\ k \in DOMAIN call.refs /\ it = 0
          /\ SetTop(t, Returns(call, "Panic", {}))
          /\ UNCHANGED opened
       \/ /\ it # 0 /\ ~valid
          /\ SetTop(t, Returns(call, "None", {}))
          /\ UNCHANGED opened
       \/ /\ valid
          /\ \E result \in {<<"None", {"output", "value"}>>, <<"None", {"output"}>>,
                            <<"OutOfGas", {}>>} :
               SetTop(t, Returns(call, result[1], result[2]))
          /\ opened' = [opened EXCEPT ![it].left = @ - 1]
  /\ UNCHANGED <<latestCallID, iteratorFrames>>

\* cQueryExternal: the querier runs, and may call one contract.
cQueryExternal(t) ==
  /\ InWasm(t)
  /\ SetTop(t, [Top(t) EXCEPT !.pc = "querying"])
  /\ UNCHANGED <<latestCallID, iteratorFrames, opened>>

\* It returns a response, one that cannot be encoded, or panics.
QueryReturns(t) ==
  /\ stacks[t] # << >> /\ Top(t).pc \in {"querying", "queried"}
  /\ \E result \in {<<"None", {"output"}>>, <<"CannotSerialize", {"error"}>>,
                    <<"OutOfGas", {}>>, <<"Panic", {}>>} :
       SetTop(t, Returns(Top(t), result[1], result[2]))
  /\ UNCHANGED <<latestCallID, iteratorFrames, opened>>

----------------------------------------------------------------------------
(* Rust: storage.rs, iterator.rs, querier.rs, calls.rs                     *)

Destroyed(vec, roles) ==
  [r \in Role |-> IF r \in roles /\ vec[r] > 0 THEN vec[r] - 1 ELSE vec[r]]

\* What Rust consumes when a callback has returned, "no matter if we need
\* the data".
Consumed(call) == Destroyed(call.vec, {"output", "value", "error"})

\* GoError.into_result: an error for the contract lets it go on, if the
\* engine does; all others are a trap.
ToContract(t) ==
  LET call == Top(t) IN
  /\ stacks[t] # << >> /\ call.pc = "back"
  /\ \E pc \in {"wasm", "trapped"} :
       /\ call.goError = "None" => pc = "wasm"
       /\ call.goError \notin {"None", "User"} => pc = "trapped"
       /\ SetTop(t, [call EXCEPT !.pc = pc, !.vec = Consumed(call),
                                !.goError = IF pc = "wasm" THEN "None" ELSE @])
  /\ UNCHANGED <<latestCallID, iteratorFrames, opened>>

\* The contract returns data: handle_c_error_binary.
ContractReturns(t) ==
  /\ stacks[t] # << >> /\ Top(t).pc = "wasm"
  /\ SetTop(t, [Top(t) EXCEPT !.pc = "done", !.vec["result"] = @ + 1])
  /\ UNCHANGED <<latestCallID, iteratorFrames, opened>>

\* There is no instance, the contract runs out of gas or fails, a callback
\* trapped it, or the engine panicked: set_error writes the message.
ContractFails(t) ==
  LET call == Top(t) IN
  /\ stacks[t] # << >> /\ call.pc \in {"wasm", "trapped"}
  /\ \E errno \in {"Other", "OutOfGas"} :
       /\ call.pc = "trapped" => (errno = "OutOfGas" <=> call.goError = "OutOfGas")
       /\ SetTop(t, [call EXCEPT !.pc = "done", !.errno = errno, !.goError = "None",
                                !.vec["errmsg"] = @ + 1])
  /\ UNCHANGED <<latestCallID, iteratorFrames, opened>>

----------------------------------------------------------------------------
(* Go again: the rest of the call, and endCall.                            *)

\* What Go destroys: the data, or the error message in errorWithMessage.
Taken_OutOfGasFirst(call) ==
  Destroyed(call.vec, CASE call.errno = "Success" -> {"result"}
                        [] call.errno = "Other" -> {"errmsg"}
                        [] call.errno = "OutOfGas" -> {})

Taken(call) ==
  Destroyed(call.vec, IF call.errno = "Success" THEN {"result"} ELSE {"errmsg"})

TakeResult(t) ==
  LET call == Top(t) IN
  /\ stacks[t] # << >> /\ call.pc = "done"
  /\ SetTop(t, [call EXCEPT !.pc = "ending", !.errno = "Success", !.gas = 0,
                            !.vec = Taken(call)])
  /\ UNCHANGED <<latestCallID, iteratorFrames, opened>>

\* The frame a finished call takes out of the table.
Removed_None(id) == iteratorFrames
Removed(id) == [i \in DOMAIN iteratorFrames \ {id} |-> iteratorFrames[i]]

removeFrame(t) ==
  LET call == Top(t) IN
  /\ stacks[t] # << >> /\ call.pc = "ending"
  /\ iteratorFrames' = Removed(call.id)
  /\ SetTop(t, [call EXCEPT !.pc = "closing", !.closing = Frame(call.id)])
  /\ UNCHANGED <<latestCallID, opened>>

\* endCall closes what was in it, without the mutex, and the call returns.
endCall(t) ==
  LET call == Top(t) IN
  /\ stacks[t] # << >> /\ call.pc = "closing"
  /\ IF call.closing # << >>
     THEN /\ opened' = [opened EXCEPT ![Head(call.closing)].open = FALSE]
          /\ SetTop(t, [call EXCEPT !.closing = Tail(@)])
     ELSE /\ stacks' = [stacks EXCEPT ![t] = SubSeq(@, 1, Len(@) - 1)]
          /\ UNCHANGED opened
  /\ UNCHANGED <<latestCallID, iteratorFrames>>

Next ==
  \E t \in Thread :
    \/ startCall(t) \/ StorageAccess(t) \/ AddressAccess(t)
    \/ cScan(t) \/ cNext(t)
    \/ cQueryExternal(t) \/ QueryReturns(t)
    \/ ToContract(t) \/ ContractReturns(t) \/ ContractFails(t)
    \/ TakeResult(t) \/ removeFrame(t) \/ endCall(t)

Spec == Init /\ [][Next]_vars

----------------------------------------------------------------------------

Running == UNION {Range(stacks[t]) : t \in Thread}

\* As long as a contract can use one of its iterators, the reference Rust
\* keeps leads through the shared table to the iterator that was opened for
\* it, and that iterator is open, whatever other calls start, scan or end.
IteratorsResolve ==
  \A call \in Running : \A k \in DOMAIN call.refs :
    call.pc \notin {"ending", "closing"} =>
      /\ retrieveIterator(call.refs[k]) = call.refs[k].stands
      /\ opened[call.refs[k].stands].open

\* The table holds iterators of calls that have not ended, each of its own
\* call; and what it no longer holds is closed or about to be.
FramesOfRunningCalls ==
  /\ \A id \in DOMAIN iteratorFrames :
       /\ \E call \in Running : call.id = id /\ call.pc # "closing"
       /\ \A it \in Range(iteratorFrames[id]) : opened[it].call = id
  /\ \A call \in Running : call.pc = "closing" =>
       \A k \in DOMAIN call.refs :
         opened[call.refs[k].stands].open <=> call.refs[k].stands \in Range(call.closing)

\* Every vector is destroyed exactly once: nothing is left over when the
\* contract goes on or the call returns, and no second vector is written
\* over one that was not destroyed.
VectorsDestroyed ==
  \A call \in Running : \A r \in Role :
    /\ call.vec[r] \in 0..1
    /\ call.pc \in {"wasm", "querying", "queried", "trapped", "ending", "closing"}
         => call.vec[r] = 0

\* "frame stores all Iterators for one contract call", of which the caller of
\* Iterator must close every one: none stays open when the call is over.
EveryIteratorClosed ==
  \A it \in DOMAIN opened :
    (\A call \in Running : call.id # opened[it].call) => ~opened[it].open
============================================================================
