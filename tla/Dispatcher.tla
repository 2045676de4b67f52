---------------------------- MODULE Dispatcher ----------------------------
(***************************************************************************)
(* One transaction that executes contracts: MessageDispatcher with the     *)
(* gas meters, contexts and event managers it runs submessages in.  The    *)
(* recursion execute -> handleContractResponse -> DispatchSubmessages ->   *)
(* DispatchMsg -> execute, and DispatchSubmessages -> reply, is a stack of *)
(* responses being dispatched (frames) and a register (step) that holds    *)
(* the call, the result or the panic in progress.                          *)
(*                                                                         *)
(* A run of a contract or of a module's message is known by a number.  It  *)
(* writes its number to the store of the context it runs in, whether it    *)
(* succeeds or fails half-way, and if it succeeds emits it as an event.    *)
(***************************************************************************)
EXTENDS Integers, Sequences

CONSTANTS
  Contract,
  Response,        \* lists of submessages contracts return
  Cost,            \* gas a run takes
  WithData,        \* whether responses carry data
  TxGas,           \* gas limit of the transaction
  NoLimit,         \* a submessage without GasLimit
  NoMsg,           \* no submessage in flight
  MaxCallDepth,    \* maxCallDepth of the keeper
  MaxRun           \* bound: runs in a transaction

ReplyOn == {"Never", "Success", "Error", "Always", "Invalid"}

SubMsg == [wasm : BOOLEAN, replyOn : ReplyOn, limit : Nat \cup {NoLimit}]

ASSUME DispatcherAssumption ==
  /\ Response \subseteq Seq(SubMsg)
  /\ Cost \subseteq Nat \ {0} /\ WithData \subseteq BOOLEAN
  /\ TxGas \in Nat /\ MaxCallDepth \in Nat /\ MaxRun \in Nat
  /\ NoMsg \notin SubMsg /\ NoLimit \notin Nat

Run == 1..MaxRun

\* Response data: the run that produced it, or 0 for nil.
Data == 0..MaxRun

\* sdk.Event of a run; those of type "message" are the SDK's own.
Event == [run : Run, type : {"message", "other"}]

\* sdk.Context of a call: a branch of the store (what was written in it), an
\* event manager and the call depth.
Context == [writes : SUBSET Run, events : Seq(Event), depth : Nat]

GasMeter == [limit : Nat, consumed : Nat]

\* A response of contract being dispatched: the submessages left, the one in
\* flight and whether it has a gas meter of its own, the data so far, and
\* whether the response is that of a reply.  done is an auxiliary field: the
\* submessages dealt with.
Frame ==
  [contract : Contract, msgs : Seq(SubMsg), inFlight : SubMsg \cup {NoMsg},
   limited : BOOLEAN, data : Data, isReply : BOOLEAN,
   done : Seq([replyOn : ReplyOn, ok : BOOLEAN, replies : Nat])]

\* idle; a message to handle (run); DispatchMsg has returned (done); the loop
\* over the submessages goes on (loop), ends with an error (fail) or calls
\* reply; an OutOfGas panic or another one unwinds the stack.
Step ==
       [op : {"idle", "loop", "fail", "outOfGas", "panic"}]
  \cup [op : {"run"}, wasm : BOOLEAN]
  \cup [op : {"done"}, ok : BOOLEAN, data : Data]
  \cup [op : {"reply"}, ok : BOOLEAN]

VARIABLES
  store,     \* what the last transaction wrote
  events,    \* and the events it emitted
  frames,
  contexts,  \* of the calls in progress, outermost first
  meters,    \* gas meters, outermost first
  step,
  nextRun,
  owner,     \* auxiliary: the contract of each run, or NoMsg
  work,      \* auxiliary: gas the runs had the use of
  reverted   \* auxiliary: runs in contexts that were dropped

vars == <<store, events, frames, contexts, meters, step, nextRun, owner, work, reverted>>

Idle == [op |-> "idle"]
Loop == [op |-> "loop"]
Failed == [op |-> "fail"]
OutOfGas == [op |-> "outOfGas"]
Panic == [op |-> "panic"]
RunMsg(wasm) == [op |-> "run", wasm |-> wasm]
Done(ok, data) == [op |-> "done", ok |-> ok, data |-> data]
ReplyTo(ok) == [op |-> "reply", ok |-> ok]

Init ==
  /\ store = {} /\ events = << >>
  /\ frames = << >> /\ contexts = << >> /\ meters = << >>
  /\ step = Idle
  /\ nextRun = 1 /\ owner = << >> /\ work = 0 /\ reverted = {}

Front(s) == SubSeq(s, 1, Len(s) - 1)
Last(s) == s[Len(s)]

Top == Last(frames)

----------------------------------------------------------------------------
(* Gas meters and contexts.                                                *)

\* GasMeter().Limit() - GasMeter().GasConsumed()
Remaining(meter) == meter.limit - meter.consumed

Consume(ms, gas) == [ms EXCEPT ![Len(ms)].consumed = @ + gas]

\* The run number nextRun of contract c takes gas: what it changes whatever
\* comes of it.
Uses(c, gas) ==
  /\ nextRun \in Run
  /\ nextRun' = nextRun + 1
  /\ owner' = Append(owner, c)
  /\ meters' = Consume(meters, gas)
  /\ work' = work + IF gas < Remaining(Last(meters)) THEN gas ELSE Remaining(Last(meters))
  /\ UNCHANGED <<store, events, reverted>>

Writes(run) == [contexts EXCEPT ![Len(contexts)].writes = @ \cup {run}]

Emits(ctxs, run, types) ==
  [ctxs EXCEPT ![Len(ctxs)].events =
     @ \o [i \in DOMAIN types |-> [run |-> run, type |-> types[i]]]]

filterEvents(evs) ==
  LET kept[i \in 0..Len(evs)] ==
        IF i = 0 THEN << >>
        ELSE IF evs[i].type # "message" THEN Append(kept[i - 1], evs[i]) ELSE kept[i - 1]
  IN  kept[Len(evs)]

\* commit(), and the filtered events go to the event manager of the caller.
Commit_All(ctxs) ==
  LET sub == Last(ctxs) IN
  [Front(ctxs) EXCEPT ![Len(ctxs) - 1].writes = @ \cup sub.writes,
                      ![Len(ctxs) - 1].events = @ \o sub.events]
Commit(ctxs) ==
  LET sub == Last(ctxs) IN
  [Front(ctxs) EXCEPT ![Len(ctxs) - 1].writes = @ \cup sub.writes,
                      ![Len(ctxs) - 1].events = @ \o filterEvents(sub.events)]

----------------------------------------------------------------------------
(* Runs.                                                                   *)

\* The result of an execute or a reply of contract c that takes gas, called
\* from the responses fs.  It panics also if it takes all gas there is
\* (consumeRuntimeGas); an error is that of the contract, of the VM or of an
\* event it returns.
ContractRuns(fs, c, gas, isReply) ==
  /\ Uses(c, gas)
  /\ \/ /\ gas >= Remaining(Last(meters))
        /\ contexts' = Writes(nextRun)
        /\ step' = OutOfGas
        /\ frames' = fs
     \/ /\ gas < Remaining(Last(meters))
        /\ contexts' = Writes(nextRun)
        /\ step' \in {Panic, IF isReply THEN Failed ELSE Done(FALSE, 0)}
        /\ frames' = fs
     \/ /\ gas < Remaining(Last(meters))
        /\ contexts' = Emits(Writes(nextRun), nextRun, <<"other">>)
        /\ \E msgs \in Response, withData \in WithData :
             frames' = Append(fs,
               [contract |-> c, msgs |-> msgs, inFlight |-> NoMsg, limited |-> FALSE,
                data |-> IF withData THEN nextRun ELSE 0, isReply |-> isReply, done |-> << >>])
        /\ step' = Loop

\* execute, through the message handlers, the router and the message server.
Execute(c, gas) ==
  /\ step = RunMsg(TRUE)
  /\ ContractRuns(frames, c, gas, FALSE)

\* Any other message: encoded, checked and routed to its module.  Its events
\* are returned, not emitted in the context.
HandleSdkMessage(gas) ==
  /\ step = RunMsg(FALSE)
  /\ Uses(NoMsg, gas)
  /\ \/ /\ gas > Remaining(Last(meters))
        /\ contexts' = Writes(nextRun)
        /\ step' = OutOfGas
     \/ /\ gas <= Remaining(Last(meters))
        /\ contexts' = Writes(nextRun)
        /\ step' \in {Panic, Done(FALSE, 0)}
     \/ /\ gas <= Remaining(Last(meters))
        /\ contexts' = Emits(Writes(nextRun), nextRun, <<"message", "other">>)
        /\ step' = Done(TRUE, nextRun)
  /\ UNCHANGED frames

----------------------------------------------------------------------------
(* MessageDispatcher.                                                      *)

NewContext(depth) == [writes |-> {}, events |-> << >>, depth |-> depth]

Replies(replyOn, ok) ==
  replyOn = "Always" \/ replyOn = (IF ok THEN "Success" ELSE "Error")

\* The loop of DispatchSubmessages takes the next submessage: a context for
\* it, a gas meter if its limit is below what is left, and the call depth
\* check of callDepthMessageHandler.
LimitGas_Any(limit, remaining) == limit # NoLimit
LimitGas(limit, remaining) == limit # NoLimit /\ limit < remaining

Deeper(depth) == depth + 1 <= MaxCallDepth

DispatchSubmessage ==
  LET msg == Head(Top.msgs)
      limited == LimitGas(msg.limit, Remaining(Last(meters)))
      depth == Last(contexts).depth IN
  /\ step = Loop /\ Top.msgs # << >> /\ msg.replyOn # "Invalid"
  /\ frames' = [frames EXCEPT ![Len(frames)].msgs = Tail(@),
                              ![Len(frames)].inFlight = msg,
                              ![Len(frames)].limited = limited]
  /\ contexts' = Append(contexts,
                        NewContext(IF Deeper(depth) THEN depth + 1 ELSE depth))
  /\ meters' = IF limited THEN Append(meters, [limit |-> msg.limit, consumed |-> 0])
               ELSE meters
  /\ step' = IF Deeper(depth) THEN RunMsg(msg.wasm) ELSE Done(FALSE, 0)
  /\ UNCHANGED <<store, events, nextRun, owner, work, reverted>>

RejectSubmessage ==
  /\ step = Loop /\ Top.msgs # << >> /\ Head(Top.msgs).replyOn = "Invalid"
  /\ step' = Failed
  /\ UNCHANGED <<store, events, frames, contexts, meters, nextRun, owner, work, reverted>>

\* The meter of the submessage in flight is left, and the one below charged.
Charged(gas) == Consume(Front(meters), gas)

\* dispatchMsgWithGasLimit, when DispatchMsg has returned.
SpentOf_Success(result, meter) == IF result.ok THEN meter.consumed ELSE 0
SpentOf(result, meter) == meter.consumed

ChargeLimited ==
  LET ms == Charged(SpentOf(step, Last(meters))) IN
  /\ step.op = "done" /\ frames # << >> /\ Top.limited
  /\ meters' = ms
  /\ step' = IF Remaining(Last(ms)) < 0 THEN OutOfGas ELSE step
  /\ frames' = [frames EXCEPT ![Len(frames)].limited = FALSE]
  /\ UNCHANGED <<store, events, contexts, nextRun, owner, work, reverted>>

\* Its deferred function: an OutOfGas panic becomes an error and the whole
\* limit is charged.
RecoverOutOfGas ==
  LET ms == Charged(Top.inFlight.limit) IN
  /\ step = OutOfGas /\ frames # << >> /\ Top.limited
  /\ meters' = ms
  /\ step' = IF Remaining(Last(ms)) < 0 THEN OutOfGas ELSE Done(FALSE, 0)
  /\ frames' = [frames EXCEPT ![Len(frames)].limited = FALSE]
  /\ UNCHANGED <<store, events, contexts, nextRun, owner, work, reverted>>

\* The submessage in flight is dealt with.
Settle(data) ==
  frames' = [frames EXCEPT
    ![Len(frames)].inFlight = NoMsg,
    ![Len(frames)].data = data,
    ![Len(frames)].done =
        Append(@, [replyOn |-> Top.inFlight.replyOn, ok |-> step.ok, replies |-> 0])]

AfterSuccess_Callee(data, returned) == returned
AfterSuccess(data, returned) == data

SubmessageSucceeds ==
  /\ step.op = "done" /\ step.ok /\ frames # << >> /\ ~Top.limited
  /\ contexts' = Commit(contexts)
  /\ Settle(AfterSuccess(Top.data, step.data))
  /\ step' = IF Replies(Top.inFlight.replyOn, TRUE) THEN ReplyTo(TRUE) ELSE Loop
  /\ UNCHANGED <<store, events, meters, nextRun, owner, work, reverted>>

\* The context is dropped, with what its run had written.
AfterFailure_Ignore(replyOn) == IF Replies(replyOn, FALSE) THEN ReplyTo(FALSE) ELSE Loop
AfterFailure(replyOn) == IF Replies(replyOn, FALSE) THEN ReplyTo(FALSE) ELSE Failed

Dropped_Written(ctxs) == Commit(ctxs)
Dropped(ctxs) == Front(ctxs)

SubmessageFails_LateRevert ==
  LET asked == Replies(Top.inFlight.replyOn, FALSE) IN
  /\ step.op = "done" /\ ~step.ok /\ frames # << >> /\ ~Top.limited
  /\ contexts' = IF asked THEN Dropped(contexts) ELSE Commit(contexts)
  /\ reverted' = IF asked THEN reverted \cup Last(contexts).writes ELSE reverted
  /\ Settle(Top.data)
  /\ step' = AfterFailure(Top.inFlight.replyOn)
  /\ UNCHANGED <<store, events, meters, nextRun, owner, work>>
SubmessageFails ==
  /\ step.op = "done" /\ ~step.ok /\ frames # << >> /\ ~Top.limited
  /\ contexts' = Dropped(contexts)
  /\ reverted' = reverted \cup Last(contexts).writes
  /\ Settle(Top.data)
  /\ step' = AfterFailure(Top.inFlight.replyOn)
  /\ UNCHANGED <<store, events, meters, nextRun, owner, work>>

\* One more reply to the submessage dealt with last.
Replied(done) == [done EXCEPT ![Len(done)].replies = @ + 1]

\* reply, in the context and under the meter of the caller.
Reply_Free(gas) ==
  /\ step.op = "reply"
  /\ \E msgs \in {r \in Response : Len(r) <= 1} :
       frames' = [frames EXCEPT ![Len(frames)].msgs = msgs \o @,
                                ![Len(frames)].done = Front(@)]
  /\ step' = Loop
  /\ UNCHANGED <<store, events, contexts, meters, nextRun, owner, work, reverted>>
Reply(gas) ==
  /\ step.op = "reply"
  /\ ContractRuns([frames EXCEPT ![Len(frames)].done = Replied(@)],
                  Top.contract, gas, TRUE)

\* The loop is through.  What a reply returns, unless nil, takes the place of
\* the data of the response it belongs to.
Overridden(data, returned) == IF returned = 0 THEN data ELSE returned

ResponseReturns ==
  /\ step = Loop /\ Top.msgs = << >>
  /\ IF Top.isReply
     THEN /\ frames' = [Front(frames) EXCEPT ![Len(frames) - 1].data =
                          Overridden(@, Top.data)]
          /\ step' = Loop
     ELSE /\ frames' = Front(frames)
          /\ step' = Done(TRUE, Top.data)
  /\ UNCHANGED <<store, events, contexts, meters, nextRun, owner, work, reverted>>

\* The loop ends with an error, and so does, for a reply, the loop around it.
ResponseFails ==
  /\ step = Failed
  /\ frames' = Front(frames)
  /\ step' = IF Top.isReply THEN Failed ELSE Done(FALSE, 0)
  /\ UNCHANGED <<store, events, contexts, meters, nextRun, owner, work, reverted>>

\* An OutOfGas panic leaves a loop that has set no gas limit.
Unwind ==
  /\ step = OutOfGas /\ frames # << >> /\ ~Top.limited
  /\ frames' = Front(frames)
  /\ IF Top.inFlight = NoMsg THEN UNCHANGED <<contexts, reverted>>
     ELSE /\ contexts' = Front(contexts)
          /\ reverted' = reverted \cup Last(contexts).writes
  /\ UNCHANGED <<store, events, meters, step, nextRun, owner, work>>

----------------------------------------------------------------------------
(* The transaction.                                                        *)

StartTx ==
  /\ step = Idle
  /\ store' = {} /\ events' = << >>
  /\ frames' = << >>
  /\ contexts' = <<NewContext(0)>>
  /\ meters' = <<[limit |-> TxGas, consumed |-> 0]>>
  /\ step' = RunMsg(TRUE)
  /\ nextRun' = 1 /\ owner' = << >> /\ work' = 0 /\ reverted' = {}

EndTx ==
  /\ step.op \in {"done", "outOfGas"} /\ frames = << >>
  /\ LET ok == step.op = "done" /\ step.ok IN
     /\ store' = IF ok THEN contexts[1].writes ELSE {}
     /\ events' = IF ok THEN contexts[1].events ELSE << >>
  /\ contexts' = << >> /\ meters' = << >>
  /\ step' = Idle
  /\ UNCHANGED <<frames, nextRun, owner, work, reverted>>

\* Any other panic is thrown on by every loop, and baseapp recovers from it.
AbortTx ==
  /\ step = Panic
  /\ frames' = << >> /\ contexts' = << >> /\ meters' = << >>
  /\ step' = Idle
  /\ UNCHANGED <<store, events, nextRun, owner, work, reverted>>

Next ==
  \/ StartTx \/ EndTx \/ AbortTx
  \/ \E gas \in Cost :
       \/ \E c \in Contract : Execute(c, gas)
       \/ HandleSdkMessage(gas)
       \/ Reply(gas)
  \/ DispatchSubmessage \/ RejectSubmessage
  \/ ChargeLimited \/ RecoverOutOfGas
  \/ SubmessageSucceeds \/ SubmessageFails
  \/ ResponseReturns \/ ResponseFails \/ Unwind

Spec == Init /\ [][Next]_vars

\* A transaction runs in one thread, which does not stop by itself.
FairSpec == Spec /\ WF_vars(Next)

----------------------------------------------------------------------------
(* Properties.                                                             *)

TypeOK ==
  /\ store \subseteq Run /\ events \in Seq(Event)
  /\ frames \in Seq(Frame) /\ contexts \in Seq(Context) /\ meters \in Seq(GasMeter)
  /\ step \in Step
  /\ nextRun \in Nat /\ work \in Nat /\ reverted \subseteq Run
  /\ owner \in Seq(Contract \cup {NoMsg})

Emitters(evs) == {evs[i].run : i \in DOMAIN evs}

\* A submessage that failed, however deep below it, leaves neither state nor
\* events: not in the transaction, nor in any context that goes on.
RevertedLeavesNoTrace ==
  /\ reverted \cap (store \cup Emitters(events)) = {}
  /\ \A i \in DOMAIN contexts :
       reverted \cap (contexts[i].writes \cup Emitters(contexts[i].events)) = {}

Ordered(evs) ==
  \A i, j \in DOMAIN evs : i < j => evs[i].run <= evs[j].run

\* State and events come from the same runs, in the order of the runs.  A
\* failing run may have written without emitting, but then its context is
\* about to be dropped.  The SDK's "message" events stay behind.
EventsMatchState ==
  /\ store = Emitters(events) /\ Ordered(events)
  /\ \A i \in DOMAIN events : events[i].type # "message"
  /\ step.op \in {"run", "loop", "reply"} =>
       \A i \in DOMAIN contexts :
         /\ contexts[i].writes = Emitters(contexts[i].events)
         /\ Ordered(contexts[i].events)

\* A response goes on past a submessage only if the contract was told as it
\* asked, once: of a success it wanted to know of, and of any failure.
RepliesAsRequested ==
  \A i \in DOMAIN frames : \A j \in DOMAIN frames[i].done :
    LET d == frames[i].done[j]
        current == i = Len(frames) /\ j = Len(frames[i].done) IN
    IF current /\ step.op = "reply" THEN Replies(d.replyOn, d.ok) /\ d.replies = 0
    ELSE /\ d.replies = IF Replies(d.replyOn, d.ok) THEN 1 ELSE 0
         /\ d.ok \/ d.replies = 1 \/ (current /\ step = Failed)

\* The data a caller gets from a contract is that of the contract's own run
\* or of a reply to it, never what a submessage returned.
DataIsOwn ==
  \A i \in DOMAIN frames :
    frames[i].data # 0 => owner[frames[i].data] = frames[i].contract

\* The limit of a submessage fits into what is left to its caller until it is
\* charged, so charging it never throws OutOfGas in the caller's name; and the
\* subtraction that finds what is left never goes below zero.
LimitFits ==
  /\ \A i \in 1..(Len(meters) - 1) : meters[i + 1].limit < Remaining(meters[i])
  /\ step # OutOfGas => \A i \in DOMAIN meters : Remaining(meters[i]) >= 0

Paid(ms) ==
  LET paid[i \in 0..Len(ms)] ==
        IF i = 0 THEN 0
        ELSE paid[i - 1] + IF ms[i].consumed < ms[i].limit
                           THEN ms[i].consumed ELSE ms[i].limit
  IN  paid[Len(ms)]

\* No run is free: gas is paid for, by the limit if not exactly, whether its
\* submessage is committed, reverted or unwound.
WorkIsPaid == work <= Paid(meters) \/ step = Idle

\* Every transaction comes to an end: what is not bounded by the call depth,
\* replies to replies, is bounded by gas.
TxEnds == step # Idle ~> step = Idle

Failing == step \in {Failed, OutOfGas, Panic} \/ (step.op = "done" /\ ~step.ok)

\* The branch of the innermost context is doomed while something fails in it.
Branches ==
  [i \in DOMAIN contexts |->
     [writes |-> contexts[i].writes, doomed |-> i = Len(contexts) /\ Failing]]

Nested == INSTANCE NestedTx WITH Write <- Run, kept <- store, branches <- Branches

\* The dispatcher implements nested transactions: no failure inside a branch
\* is ever committed with it.
ImplementsNestedTx == Nested!Spec
============================================================================
