--------------------------- MODULE VmCallsProofs ---------------------------
(***************************************************************************)
(* Iterators and vectors of the bindings of wasmvm for any number of       *)
(* threads, calls, levels of nesting and iterators: the shared table never *)
(* mixes up calls, and every vector is destroyed exactly once.  The        *)
(* inductive invariant says of every call on a stack, by its position, which *)
(* vectors are there and which frame and iterators are its own; no id is   *)
(* used twice.  Steps that leave references and the table alone come first, *)
(* then those that open, move and close iterators, then calls that start   *)
(* and end.                                                                *)
(***************************************************************************)
EXTENDS VmCalls, SequenceTheorems, TLAPS

----------------------------------------------------------------------------
(* The inductive invariant.                                                *)

Ref == [call_id : Nat, iterator_id : Nat, stands : Nat]
Opened == [call : Nat, open : BOOLEAN, left : Int]
Stage == {"wasm", "querying", "queried", "back", "trapped", "done", "ending", "closing"}
GoError == {"None", "User", "Unknown", "OutOfGas", "Panic", "CannotSerialize"}
CallRecord ==
  [id : Nat, pc : Stage, gas : Int, refs : Seq(Ref), goError : GoError,
   errno : {"Success", "Other", "OutOfGas"}, vec : [Role -> Int], closing : Seq(Nat)]

TypeInv ==
  /\ latestCallID \in Nat
  /\ DOMAIN iteratorFrames \subseteq Nat
  /\ iteratorFrames \in [DOMAIN iteratorFrames -> Seq(Nat)]
  /\ opened \in Seq(Opened)
  /\ stacks \in [Thread -> Seq(CallRecord)]

\* The vectors that are there at each point of a call.
VecInv(call) ==
  /\ call.errno # "Success" => call.pc = "done"
  /\ call.pc \notin {"back", "done"} => \A r \in Role : call.vec[r] = 0
  /\ call.pc = "back" => /\ \A r \in Role : call.vec[r] \in 0..1
                         /\ call.vec["result"] = 0 /\ call.vec["errmsg"] = 0
  /\ call.pc = "done" =>
       \A r \in Role :
         call.vec[r] = IF r = (IF call.errno = "Success" THEN "result" ELSE "errmsg")
                       THEN 1 ELSE 0

\* The places in f are different open iterators of the call.
Owned(f, id) ==
  /\ \A k \in 1..Len(f) :
       f[k] \in 1..Len(opened) /\ opened[f[k]].call = id /\ opened[f[k]].open
  /\ \A j, k \in 1..Len(f) : f[j] = f[k] => j = k

\* The references of a call are the entries of its frame, in order.
RefsInv(call) ==
  /\ Len(call.refs) = Len(Frame(call.id))
  /\ \A k \in 1..Len(call.refs) :
       call.refs[k] = [call_id |-> call.id, iterator_id |-> k,
                       stands |-> Frame(call.id)[k]]

\* After the frame is taken out of the table.
ClosingInv(call) ==
  /\ call.id \notin DOMAIN iteratorFrames
  /\ Owned(call.closing, call.id)
  /\ \A k \in 1..Len(call.refs) :
       /\ call.refs[k].stands \in 1..Len(opened)
       /\ opened[call.refs[k].stands].call = call.id
       /\ opened[call.refs[k].stands].open =>
            \E j \in 1..Len(call.closing) : call.closing[j] = call.refs[k].stands

CallInv(call) ==
  /\ call.id <= latestCallID
  /\ VecInv(call)
  /\ call.pc # "closing" => RefsInv(call)
  /\ call.pc = "closing" => ClosingInv(call)

CallsInv == \A t \in Thread : \A i \in 1..Len(stacks[t]) : CallInv(stacks[t][i])

\* No two calls have the same id.
IdsInv ==
  \A t, u \in Thread : \A i \in 1..Len(stacks[t]), j \in 1..Len(stacks[u]) :
    stacks[t][i].id = stacks[u][j].id => t = u /\ i = j

\* Every frame belongs to a call that has not taken it out.
FramesInv ==
  \A id \in DOMAIN iteratorFrames :
    /\ Owned(iteratorFrames[id], id)
    /\ \E t \in Thread : \E i \in 1..Len(stacks[t]) :
         stacks[t][i].id = id /\ stacks[t][i].pc # "closing"

IInv == TypeInv /\ CallsInv /\ IdsInv /\ FramesInv

----------------------------------------------------------------------------
(* Stacks.                                                                 *)

\* The innermost call of a thread.
LEMMA TopCall ==
  ASSUME TypeInv, NEW t \in Thread, stacks[t] # << >>
  PROVE  /\ Len(stacks[t]) \in 1..Len(stacks[t])
         /\ Top(t) = stacks[t][Len(stacks[t])]
         /\ Top(t) \in CallRecord
  <1>1. stacks[t] \in Seq(CallRecord)
    BY DEF TypeInv
  <1>2. Len(stacks[t]) \in Nat \ {0}
    BY <1>1, EmptySeq
  <1>3. Len(stacks[t]) \in 1..Len(stacks[t])
    BY <1>2
  <1>4. stacks[t][Len(stacks[t])] \in CallRecord
    BY <1>1, <1>3, ElementOfSeq
  <1> QED
    BY <1>3, <1>4 DEF Top

\* SetTop replaces the innermost call and nothing else.
LEMMA SetTopEffect ==
  ASSUME TypeInv, NEW t \in Thread, stacks[t] # << >>,
         NEW call \in CallRecord, SetTop(t, call)
  PROVE  /\ stacks' \in [Thread -> Seq(CallRecord)]
         /\ \A u \in Thread : Len(stacks'[u]) = Len(stacks[u])
         /\ \A u \in Thread : \A i \in 1..Len(stacks[u]) :
              stacks'[u][i] = IF u = t /\ i = Len(stacks[t]) THEN call ELSE stacks[u][i]
  <1> DEFINE n == Len(stacks[t])
             s == [stacks[t] EXCEPT ![n] = call]
  <1>1. stacks[t] \in Seq(CallRecord) /\ n \in 1..n
    BY TopCall DEF TypeInv
  <1>2. /\ s \in Seq(CallRecord)
        /\ Len(s) = n
        /\ \A j \in 1..n : s[j] = IF j = n THEN call ELSE stacks[t][j]
    BY <1>1, ExceptSeq
  <1>3. stacks' = [stacks EXCEPT ![t] = s]
    BY DEF SetTop
  <1> HIDE DEF s
  <1>4. \A u \in Thread : stacks'[u] = IF u = t THEN s ELSE stacks[u]
    BY <1>3 DEF TypeInv
  <1>5. stacks' \in [Thread -> Seq(CallRecord)]
    BY <1>2, <1>3 DEF TypeInv
  <1> QED
    BY <1>2, <1>4, <1>5

----------------------------------------------------------------------------
(* Steps that leave frames and references alone.                           *)

\* The iterators that were open before are what they were.
OpenedGrows ==
  /\ opened' \in Seq(Opened)
  /\ Len(opened) <= Len(opened')
  /\ \A it \in 1..Len(opened) :
       opened'[it].call = opened[it].call /\ (opened'[it].open <=> opened[it].open)

\* A step of the innermost call that changes neither its references nor the
\* table keeps the invariant, as long as the vectors are in order.
LEMMA QuietStep ==
  ASSUME IInv, NEW t \in Thread, stacks[t] # << >>,
         NEW call \in CallRecord, SetTop(t, call),
         call.id = Top(t).id, call.refs = Top(t).refs,
         Top(t).pc # "closing", call.pc # "closing", VecInv(call),
         OpenedGrows, UNCHANGED <<latestCallID, iteratorFrames>>
  PROVE  IInv'
  <1> DEFINE n == Len(stacks[t])
  <1>0. TypeInv /\ CallsInv /\ IdsInv /\ FramesInv
    BY DEF IInv
  <1>1. /\ n \in 1..n
        /\ call.id = stacks[t][n].id /\ call.refs = stacks[t][n].refs
        /\ stacks[t][n].pc # "closing"
    BY <1>0, TopCall
  <1>2. /\ stacks' \in [Thread -> Seq(CallRecord)]
        /\ \A u \in Thread : Len(stacks'[u]) = Len(stacks[u])
        /\ \A u \in Thread : \A i \in 1..Len(stacks[u]) :
             stacks'[u][i] = IF u = t /\ i = n THEN call ELSE stacks[u][i]
    BY <1>0, SetTopEffect
  <1> HIDE DEF n
  <1>3. TypeInv'
    BY <1>0, <1>2 DEF TypeInv, OpenedGrows
  <1>4. \A f, id : Owned(f, id) => Owned(f, id)'
    <2> SUFFICES ASSUME NEW f, NEW id, Owned(f, id)
                 PROVE  Owned(f, id)'
      OBVIOUS
    <2>1. Len(opened) \in Nat /\ Len(opened') \in Nat
      BY <1>0, LenProperties DEF TypeInv, OpenedGrows
    <2> QED
      BY <2>1 DEF Owned, OpenedGrows
  <1>5. IdsInv'
    <2>1. \A u \in Thread : \A i \in 1..Len(stacks[u]) : stacks'[u][i].id = stacks[u][i].id
      BY <1>1, <1>2
    <2> QED
      BY <1>0, <1>2, <2>1 DEF IdsInv
  <1>6. FramesInv'
    <2> SUFFICES ASSUME NEW id \in DOMAIN iteratorFrames
                 PROVE  /\ Owned(iteratorFrames[id], id)'
                        /\ \E u \in Thread : \E i \in 1..Len(stacks'[u]) :
                             stacks'[u][i].id = id /\ stacks'[u][i].pc # "closing"
      BY DEF FramesInv
    <2>1. Owned(iteratorFrames[id], id)'
      BY <1>0, <1>4 DEF FramesInv
    <2>2. PICK u \in Thread : \E i \in 1..Len(stacks[u]) :
                 stacks[u][i].id = id /\ stacks[u][i].pc # "closing"
      BY <1>0 DEF FramesInv
    <2>3. PICK i \in 1..Len(stacks[u]) :
                 stacks[u][i].id = id /\ stacks[u][i].pc # "closing"
      BY <2>2
    <2>4. stacks'[u][i].id = id /\ stacks'[u][i].pc # "closing"
      BY <1>1, <1>2, <2>3
    <2> QED
      BY <1>2, <2>1, <2>4, Zenon
  <1>7. CallsInv'
    <2> SUFFICES ASSUME NEW u \in Thread, NEW i \in 1..Len(stacks[u]),
                        NEW c, c = stacks'[u][i]
                 PROVE  CallInv(c)'
      BY <1>2 DEF CallsInv
    <2>1. CallInv(stacks[u][i])
      BY <1>0 DEF CallsInv
    <2>2. CASE u = t /\ i = n
      <3>1. c = call
        BY <1>2, <2>2
      <3>2. RefsInv(call)'
        <4>1. RefsInv(stacks[u][i])
          BY <1>1, <2>1, <2>2, Zenon DEF CallInv
        <4>2. RefsInv(call)
          BY <1>1, <2>2, <4>1, Zenon DEF RefsInv
        <4>3. Frame(call.id)' = Frame(call.id)
          BY Zenon DEF Frame
        <4> QED
          BY <4>2, <4>3, Zenon DEF RefsInv
      <3>3. call.id <= latestCallID
        BY <1>1, <2>1, <2>2 DEF CallInv
      <3> QED
        BY <3>1, <3>2, <3>3 DEF CallInv, VecInv
    <2>3. CASE ~(u = t /\ i = n)
      <3>1. CallInv(c)
        BY <1>2, <2>1, <2>3
      <3>2. c.pc # "closing" => RefsInv(c)'
        BY <3>1 DEF CallInv, RefsInv, Frame
      <3>3. c.pc = "closing" => ClosingInv(c)'
        <4> SUFFICES ASSUME c.pc = "closing" PROVE ClosingInv(c)'
          OBVIOUS
        <4>1. Owned(c.closing, c.id)'
          BY <1>4, <3>1, Zenon DEF CallInv, ClosingInv
        <4>2. Len(opened) \in Nat /\ Len(opened') \in Nat /\ Len(opened) <= Len(opened')
          BY <1>0, LenProperties DEF TypeInv, OpenedGrows
        <4>3. c.id \notin DOMAIN iteratorFrames'
          BY <3>1, Zenon DEF CallInv, ClosingInv
        <4>4. ASSUME NEW k \in 1..Len(c.refs)
              PROVE  /\ c.refs[k].stands \in 1..Len(opened')
                     /\ opened'[c.refs[k].stands].call = c.id
                     /\ opened'[c.refs[k].stands].open =>
                          \E j \in 1..Len(c.closing) : c.closing[j] = c.refs[k].stands
          <5> DEFINE it == c.refs[k].stands
          <5>1. /\ it \in 1..Len(opened)
                /\ opened[it].call = c.id
                /\ opened[it].open => \E j \in 1..Len(c.closing) : c.closing[j] = it
            BY <3>1, Zenon DEF CallInv, ClosingInv
          <5>2. opened'[it].call = opened[it].call /\ (opened'[it].open <=> opened[it].open)
            BY <5>1, Zenon DEF OpenedGrows
          <5> HIDE DEF it
          <5>3. it \in 1..Len(opened')
            BY <4>2, <5>1
          <5> QED
            BY <5>1, <5>2, <5>3, Zenon DEF it
        <4> QED
          BY <4>1, <4>3, <4>4, Zenon DEF ClosingInv
      <3> QED
        BY <3>1, <3>2, <3>3 DEF CallInv, VecInv
    <2> QED
      BY <2>2, <2>3
  <1> QED
    BY <1>3, <1>5, <1>6, <1>7 DEF IInv

----------------------------------------------------------------------------
(* The quiet steps, one by one.                                            *)

\* The innermost call satisfies the invariant of calls.
LEMMA TopInv ==
  ASSUME IInv, NEW t \in Thread, stacks[t] # << >>
  PROVE  Top(t) \in CallRecord /\ CallInv(Top(t))
  BY TopCall DEF IInv, CallsInv

\* Iterators that are left alone are what they were.
LEMMA OpenedSame ==
  ASSUME TypeInv, UNCHANGED opened
  PROVE  OpenedGrows
  <1>1. Len(opened) \in Nat
    BY LenProperties DEF TypeInv
  <1> QED
    BY <1>1 DEF TypeInv, OpenedGrows

\* Go fills only vectors that are empty.
LEMMA ReturnsFills ==
  ASSUME NEW call \in CallRecord, VecInv(call),
         call.pc \in {"wasm", "querying", "queried"},
         NEW e \in GoError, NEW roles \in SUBSET {"output", "value", "error"},
         NEW new, new = Returns(call, e, roles)
  PROVE  /\ new \in CallRecord
         /\ new.id = call.id /\ new.refs = call.refs /\ new.pc = "back"
         /\ VecInv(new)
  <1> DEFINE vec == [r \in Role |-> call.vec[r] + IF r \in roles THEN 1 ELSE 0]
  <1>1. call.vec \in [Role -> Int] /\ call.gas \in Int /\ call.errno = "Success"
        /\ \A r \in Role : call.vec[r] = 0
    BY DEF CallRecord, VecInv
  <1>2. /\ vec \in [Role -> Int]
        /\ \A r \in Role : vec[r] \in 0..1
        /\ vec["result"] = 0 /\ vec["errmsg"] = 0
    BY <1>1 DEF Role
  <1>3. new = [call EXCEPT !.pc = "back", !.goError = e, !.gas = call.gas - 1, !.vec = vec]
    BY DEF Returns
  <1> HIDE DEF vec
  <1>4. /\ new \in CallRecord
        /\ new.id = call.id /\ new.refs = call.refs /\ new.pc = "back"
        /\ new.vec = vec /\ new.errno = call.errno
    <2>1. call.gas - 1 \in Int
      BY <1>1
    <2>2. "back" \in Stage
      BY DEF Stage
    <2> QED
      BY <1>2, <1>3, <2>1, <2>2, ZenonT(60) DEF CallRecord
  <1> QED
    BY <1>1, <1>2, <1>4 DEF VecInv

\* A callback that returns.
LEMMA ReturnsStep ==
  ASSUME IInv, NEW t \in Thread, stacks[t] # << >>,
         Top(t).pc \in {"wasm", "querying", "queried"},
         NEW e \in GoError, NEW roles \in SUBSET {"output", "value", "error"},
         SetTop(t, Returns(Top(t), e, roles)),
         OpenedGrows, UNCHANGED <<latestCallID, iteratorFrames>>
  PROVE  IInv'
  <1> DEFINE call == Top(t)
             new == Returns(call, e, roles)
  <1>1. call \in CallRecord /\ VecInv(call)
    BY TopInv DEF CallInv
  <1>2. /\ new \in CallRecord
        /\ new.id = call.id /\ new.refs = call.refs /\ new.pc = "back"
        /\ VecInv(new)
    BY <1>1, ReturnsFills
  <1> HIDE DEF new
  <1>3. SetTop(t, new) /\ call.pc # "closing" /\ new.pc # "closing"
    BY <1>2 DEF new
  <1> QED
    BY <1>2, <1>3, QuietStep

\* A read or write of the store: the value goes to Rust in one vector.
LEMMA StorageAccessStep ==
  ASSUME IInv, NEW t \in Thread, StorageAccess(t)
  PROVE  IInv'
  <1>1. PICK result \in {<<"None", {"output"}>>, <<"None", {}>>, <<"OutOfGas", {}>>, <<"Panic", {}>>} :
               SetTop(t, Returns(Top(t), result[1], result[2]))
    BY DEF StorageAccess
  <1>2. result[1] \in GoError /\ result[2] \in SUBSET {"output", "value", "error"}
    BY <1>1 DEF GoError
  <1>3. stacks[t] # << >> /\ Top(t).pc = "wasm"
    BY DEF StorageAccess, InWasm
  <1>4. OpenedGrows /\ UNCHANGED <<latestCallID, iteratorFrames>>
    BY OpenedSame DEF StorageAccess, IInv
  <1> QED
    BY <1>1, <1>2, <1>3, <1>4, ReturnsStep, Zenon

\* A callback of the address API: an address or an error goes to Rust.
LEMMA AddressAccessStep ==
  ASSUME IInv, NEW t \in Thread, AddressAccess(t)
  PROVE  IInv'
  <1>1. PICK result \in {<<"None", {"output"}>>, <<"None", {}>>, <<"User", {"error"}>>, <<"Panic", {}>>} :
               SetTop(t, Returns(Top(t), result[1], result[2]))
    BY DEF AddressAccess
  <1>2. result[1] \in GoError /\ result[2] \in SUBSET {"output", "value", "error"}
    BY <1>1 DEF GoError
  <1>3. stacks[t] # << >> /\ Top(t).pc = "wasm"
    BY DEF AddressAccess, InWasm
  <1>4. OpenedGrows /\ UNCHANGED <<latestCallID, iteratorFrames>>
    BY OpenedSame DEF AddressAccess, IInv
  <1> QED
    BY <1>1, <1>2, <1>3, <1>4, ReturnsStep, Zenon

\* The querier returns to Rust, whether it called a contract or not.
LEMMA QueryReturnsStep ==
  ASSUME IInv, NEW t \in Thread, QueryReturns(t)
  PROVE  IInv'
  <1>1. PICK result \in {<<"None", {"output"}>>, <<"CannotSerialize", {"error"}>>,
                         <<"OutOfGas", {}>>, <<"Panic", {}>>} :
               SetTop(t, Returns(Top(t), result[1], result[2]))
    BY Zenon DEF QueryReturns
  <1>2. result[1] \in GoError /\ result[2] \in SUBSET {"output", "value", "error"}
    BY <1>1 DEF GoError
  <1>3. stacks[t] # << >> /\ Top(t).pc \in {"wasm", "querying", "queried"}
    BY DEF QueryReturns
  <1>4. OpenedGrows /\ UNCHANGED <<latestCallID, iteratorFrames>>
    BY OpenedSame DEF QueryReturns, IInv
  <1> QED
    BY <1>1, <1>2, <1>3, <1>4, ReturnsStep, Zenon

\* A query starts: no vector is there and none is made.
LEMMA cQueryExternalStep ==
  ASSUME IInv, NEW t \in Thread, cQueryExternal(t)
  PROVE  IInv'
  <1> DEFINE call == Top(t)
             new == [call EXCEPT !.pc = "querying"]
  <1>1. call \in CallRecord /\ VecInv(call) /\ stacks[t] # << >> /\ call.pc = "wasm"
    BY TopInv DEF CallInv, cQueryExternal, InWasm
  <1>2. /\ new \in CallRecord /\ new.id = call.id /\ new.refs = call.refs
        /\ new.pc = "querying" /\ new.vec = call.vec /\ new.errno = call.errno
    BY <1>1, Zenon DEF CallRecord, Stage
  <1>3. SetTop(t, new) /\ OpenedGrows /\ UNCHANGED <<latestCallID, iteratorFrames>>
    BY OpenedSame DEF cQueryExternal, IInv
  <1> HIDE DEF new
  <1>4. VecInv(new)
    BY <1>1, <1>2 DEF VecInv
  <1> QED
    BY <1>1, <1>2, <1>3, <1>4, QuietStep

\* A step of Rust or Go on the innermost call alone: its stage, its error and
\* its vectors change.
LEMMA StageStep ==
  ASSUME IInv, NEW t \in Thread, stacks[t] # << >>,
         NEW new \in CallRecord, SetTop(t, new),
         new.id = Top(t).id, new.refs = Top(t).refs,
         Top(t).pc # "closing", new.pc # "closing", VecInv(new),
         UNCHANGED <<latestCallID, iteratorFrames, opened>>
  PROVE  IInv'
  <1>1. OpenedGrows
    BY OpenedSame DEF IInv
  <1> QED
    BY <1>1, QuietStep

\* What Rust consumes is all that a callback has filled.
LEMMA ConsumedAll ==
  ASSUME NEW call \in CallRecord, VecInv(call), call.pc = "back"
  PROVE  Consumed(call) \in [Role -> Int] /\ \A r \in Role : Consumed(call)[r] = 0
  <1>1. call.vec \in [Role -> Int]
    BY DEF CallRecord
  <1>2. /\ \A r \in Role : call.vec[r] \in 0..1
        /\ call.vec["result"] = 0 /\ call.vec["errmsg"] = 0
    BY DEF VecInv
  <1> QED
    BY <1>1, <1>2 DEF Consumed, Destroyed, Role

\* Rust consumes what the callback gave, whatever the code says.
LEMMA ToContractStep ==
  ASSUME IInv, NEW t \in Thread, ToContract(t)
  PROVE  IInv'
  <1> DEFINE call == Top(t)
  <1>1. call \in CallRecord /\ VecInv(call) /\ stacks[t] # << >> /\ call.pc = "back"
    BY TopInv DEF CallInv, ToContract
  <1>2. PICK pc \in {"wasm", "trapped"} :
          SetTop(t, [call EXCEPT !.pc = pc, !.vec = Consumed(call),
                       !.goError = IF pc = "wasm" THEN "None" ELSE call.goError])
    BY Zenon DEF ToContract
  <1>3. PICK e : e = IF pc = "wasm" THEN "None" ELSE call.goError
    OBVIOUS
  <1> DEFINE new == [call EXCEPT !.pc = pc, !.vec = Consumed(call), !.goError = e]
  <1>4. pc \in Stage /\ e \in GoError /\ call.errno = "Success"
    BY <1>1, <1>3 DEF CallRecord, Stage, GoError, VecInv
  <1>5. Consumed(call) \in [Role -> Int] /\ \A r \in Role : Consumed(call)[r] = 0
    BY <1>1, ConsumedAll
  <1>6. /\ new \in CallRecord /\ new.id = call.id /\ new.refs = call.refs
        /\ new.pc = pc /\ new.vec = Consumed(call) /\ new.errno = call.errno
    BY <1>1, <1>4, <1>5, Zenon DEF CallRecord
  <1>7. SetTop(t, new) /\ UNCHANGED <<latestCallID, iteratorFrames, opened>>
    BY <1>2, <1>3 DEF ToContract
  <1> HIDE DEF new
  <1>8. VecInv(new) /\ new.pc # "closing"
    BY <1>4, <1>5, <1>6 DEF VecInv
  <1> QED
    BY <1>1, <1>6, <1>7, <1>8, StageStep

\* The contract returns: its data is the one vector of the call.
LEMMA ContractReturnsStep ==
  ASSUME IInv, NEW t \in Thread, ContractReturns(t)
  PROVE  IInv'
  <1> DEFINE call == Top(t)
             vec == [call.vec EXCEPT !["result"] = call.vec["result"] + 1]
             new == [call EXCEPT !.pc = "done", !.vec = vec]
  <1>1. call \in CallRecord /\ VecInv(call) /\ stacks[t] # << >> /\ call.pc = "wasm"
    BY TopInv DEF CallInv, ContractReturns
  <1>2. /\ call.vec \in [Role -> Int] /\ call.errno = "Success"
        /\ \A r \in Role : call.vec[r] = 0
    BY <1>1 DEF CallRecord, VecInv
  <1>3. /\ vec \in [Role -> Int]
        /\ \A r \in Role : vec[r] = IF r = "result" THEN 1 ELSE 0
    BY <1>2 DEF Role
  <1>4. SetTop(t, new) /\ UNCHANGED <<latestCallID, iteratorFrames, opened>>
    BY DEF ContractReturns
  <1> HIDE DEF vec
  <1>5. "done" \in Stage
    BY DEF Stage
  <1>6. /\ new \in CallRecord /\ new.id = call.id /\ new.refs = call.refs
        /\ new.pc = "done" /\ new.vec = vec /\ new.errno = call.errno
    BY <1>1, <1>3, <1>5, Zenon DEF CallRecord
  <1> HIDE DEF new
  <1>7. VecInv(new)
    BY <1>2, <1>3, <1>6 DEF VecInv
  <1> QED
    BY <1>1, <1>4, <1>6, <1>7, StageStep

\* The contract fails: the message is the one vector of the call.
LEMMA ContractFailsStep ==
  ASSUME IInv, NEW t \in Thread, ContractFails(t)
  PROVE  IInv'
  <1> DEFINE call == Top(t)
             vec == [call.vec EXCEPT !["errmsg"] = call.vec["errmsg"] + 1]
  <1>1. /\ call \in CallRecord /\ VecInv(call) /\ stacks[t] # << >>
        /\ call.pc \in {"wasm", "trapped"}
    BY TopInv DEF CallInv, ContractFails
  <1>2. call.vec \in [Role -> Int] /\ \A r \in Role : call.vec[r] = 0
    BY <1>1 DEF CallRecord, VecInv
  <1>3. /\ vec \in [Role -> Int]
        /\ \A r \in Role : vec[r] = IF r = "errmsg" THEN 1 ELSE 0
    BY <1>2 DEF Role
  <1>4. PICK errno \in {"Other", "OutOfGas"} :
          SetTop(t, [call EXCEPT !.pc = "done", !.errno = errno, !.goError = "None",
                                 !.vec = vec])
    BY Zenon DEF ContractFails
  <1> DEFINE new == [call EXCEPT !.pc = "done", !.errno = errno, !.goError = "None",
                                 !.vec = vec]
  <1> HIDE DEF vec
  <1>5. /\ "done" \in Stage /\ "None" \in GoError
        /\ errno \in {"Success", "Other", "OutOfGas"} /\ errno # "Success"
    BY DEF Stage, GoError
  <1>6. /\ new \in CallRecord /\ new.id = call.id /\ new.refs = call.refs
        /\ new.pc = "done" /\ new.vec = vec /\ new.errno = errno
    BY <1>1, <1>3, <1>5, Zenon DEF CallRecord
  <1>7. SetTop(t, new) /\ UNCHANGED <<latestCallID, iteratorFrames, opened>>
    BY <1>4 DEF ContractFails
  <1> HIDE DEF new
  <1>8. VecInv(new)
    BY <1>3, <1>5, <1>6 DEF VecInv
  <1> QED
    BY <1>1, <1>6, <1>7, <1>8, StageStep

\* Go destroys the data or the message, and no vector is left.
LEMMA TakeResultStep ==
  ASSUME IInv, NEW t \in Thread, TakeResult(t)
  PROVE  IInv'
  <1> DEFINE call == Top(t)
             vec == Taken(call)
             new == [call EXCEPT !.pc = "ending", !.errno = "Success", !.gas = 0,
                                 !.vec = vec]
  <1>1. call \in CallRecord /\ VecInv(call) /\ stacks[t] # << >> /\ call.pc = "done"
    BY TopInv DEF CallInv, TakeResult
  <1>2. /\ call.vec \in [Role -> Int]
        /\ \A r \in Role :
             call.vec[r] = IF r = (IF call.errno = "Success" THEN "result" ELSE "errmsg")
                           THEN 1 ELSE 0
    BY <1>1 DEF CallRecord, VecInv
  <1>3. vec \in [Role -> Int] /\ \A r \in Role : vec[r] = 0
    BY <1>2 DEF Taken, Destroyed, Role
  <1>4. SetTop(t, new) /\ UNCHANGED <<latestCallID, iteratorFrames, opened>>
    BY DEF TakeResult
  <1> HIDE DEF vec
  <1>5. "ending" \in Stage /\ 0 \in Int
    BY DEF Stage
  <1>6. /\ new \in CallRecord /\ new.id = call.id /\ new.refs = call.refs
        /\ new.pc = "ending" /\ new.vec = vec /\ new.errno = "Success"
    BY <1>1, <1>3, <1>5, Zenon DEF CallRecord
  <1> HIDE DEF new
  <1>7. VecInv(new)
    BY <1>3, <1>6 DEF VecInv
  <1> QED
    BY <1>1, <1>4, <1>6, <1>7, StageStep

----------------------------------------------------------------------------
(* Iterators.                                                              *)

\* A reference of a call leads through the table to its open iterator.
LEMMA Resolve ==
  ASSUME TypeInv, FramesInv, NEW call \in CallRecord, CallInv(call),
         call.pc # "closing", NEW k \in DOMAIN call.refs
  PROVE  /\ retrieveIterator(call.refs[k]) = call.refs[k].stands
         /\ call.refs[k].stands \in 1..Len(opened)
         /\ opened[call.refs[k].stands].call = call.id
         /\ opened[call.refs[k].stands].open
  <1>1. call.refs \in Seq(Ref)
    BY DEF CallRecord
  <1>2. DOMAIN call.refs = 1..Len(call.refs)
    BY <1>1, LenProperties
  <1>3. /\ Len(call.refs) = Len(Frame(call.id))
        /\ call.refs[k] = [call_id |-> call.id, iterator_id |-> k,
                           stands |-> Frame(call.id)[k]]
    BY <1>2 DEF CallInv, RefsInv
  <1>4. call.id \in DOMAIN iteratorFrames
    <2>1. SUFFICES ASSUME call.id \notin DOMAIN iteratorFrames PROVE FALSE
      OBVIOUS
    <2>2. Len(call.refs) = 0
      BY <1>3, <2>1 DEF Frame
    <2> QED
      BY <1>2, <2>2
  <1>5. Frame(call.id) = iteratorFrames[call.id] /\ Frame(call.id) \in Seq(Nat)
    BY <1>4 DEF Frame, TypeInv
  <1>6. k \in 1..Len(Frame(call.id)) /\ DOMAIN Frame(call.id) = 1..Len(Frame(call.id))
    BY <1>2, <1>3, <1>5, LenProperties
  <1>7. Owned(Frame(call.id), call.id)
    BY <1>4, <1>5 DEF FramesInv
  <1>8. /\ Frame(call.id)[k] \in 1..Len(opened)
        /\ opened[Frame(call.id)[k]].call = call.id
        /\ opened[Frame(call.id)[k]].open
    BY <1>6, <1>7 DEF Owned
  <1>9. retrieveIterator(call.refs[k]) = Frame(call.id)[k]
    BY <1>3, <1>6 DEF retrieveIterator
  <1> QED
    BY <1>3, <1>8, <1>9

\* An iterator moves on.
LEMMA MovedGrows ==
  ASSUME TypeInv, NEW it \in 1..Len(opened),
         opened' = [opened EXCEPT ![it].left = @ - 1]
  PROVE  OpenedGrows
  <1> DEFINE o == [opened[it] EXCEPT !.left = opened[it].left - 1]
  <1>1. opened \in Seq(Opened) /\ Len(opened) \in Nat
    BY LenProperties DEF TypeInv
  <1>2. opened[it] \in Opened
    BY <1>1, ElementOfSeq
  <1>3. o \in Opened /\ o.call = opened[it].call /\ o.open = opened[it].open
    BY <1>2 DEF Opened
  <1>4. opened' = [opened EXCEPT ![it] = o]
    OBVIOUS
  <1> HIDE DEF o
  <1>5. /\ opened' \in Seq(Opened) /\ Len(opened') = Len(opened)
        /\ \A j \in 1..Len(opened) : opened'[j] = IF j = it THEN o ELSE opened[j]
    BY <1>1, <1>3, <1>4, ExceptSeq
  <1> QED
    BY <1>1, <1>3, <1>5 DEF OpenedGrows

\* An iterator moves on: it is one of the call, and stays open.
LEMMA cNextStep ==
  ASSUME IInv, NEW t \in Thread, cNext(t)
  PROVE  IInv'
  <1> DEFINE call == Top(t)
             It(k) == IF k \in DOMAIN call.refs THEN retrieveIterator(call.refs[k]) ELSE 0
             Returned(results) ==
               \E result \in results : SetTop(t, Returns(call, result[1], result[2]))
             Plain == {<<"Unknown", {}>>, <<"Panic", {}>>, <<"None", {}>>}
             Item == {<<"None", {"output", "value"}>>, <<"None", {"output"}>>, <<"OutOfGas", {}>>}
  <1>1. /\ call \in CallRecord /\ CallInv(call) /\ TypeInv /\ FramesInv
        /\ stacks[t] # << >> /\ call.pc = "wasm"
        /\ UNCHANGED <<latestCallID, iteratorFrames>>
    BY TopInv DEF cNext, InWasm, IInv
  <1>2. PICK k \in 1..(Len(call.refs) + 1) :
          \/ Returned(Plain) /\ UNCHANGED opened
          \/ /\ It(k) # 0
             /\ Returned(Item)
             /\ opened' = [opened EXCEPT ![It(k)].left = @ - 1]
    BY Zenon DEF cNext
  <1>3. OpenedGrows
    <2>1. CASE UNCHANGED opened
      BY <1>1, <2>1, OpenedSame
    <2>2. CASE It(k) # 0 /\ opened' = [opened EXCEPT ![It(k)].left = @ - 1]
      <3>1. k \in DOMAIN call.refs
        BY <2>2
      <3>2. It(k) \in 1..Len(opened)
        BY <1>1, <3>1, Resolve
      <3> HIDE DEF It
      <3> QED
        BY <1>1, <2>2, <3>2, MovedGrows, Zenon
    <2> QED
      BY <1>2, <2>1, <2>2
  <1>4. PICK result \in Plain \cup Item : SetTop(t, Returns(call, result[1], result[2]))
    BY <1>2
  <1>5. result[1] \in GoError /\ result[2] \in SUBSET {"output", "value", "error"}
    BY <1>4 DEF GoError
  <1> QED
    BY <1>1, <1>3, <1>4, <1>5, ReturnsStep, Zenon

\* A step of the call with id x leaves the other calls alone, if it leaves
\* their frames and iterators alone.
OthersAlone(x) ==
  /\ opened' \in Seq(Opened) /\ Len(opened) <= Len(opened')
  /\ \A it \in 1..Len(opened) : opened[it].call # x =>
       opened'[it].call = opened[it].call /\ (opened'[it].open <=> opened[it].open)
  /\ \A id : id # x => (id \in DOMAIN iteratorFrames' <=> id \in DOMAIN iteratorFrames)
  /\ \A id \in DOMAIN iteratorFrames : id # x => iteratorFrames'[id] = iteratorFrames[id]

\* What another call owns stays its own.
LEMMA OwnedKept ==
  ASSUME TypeInv, NEW x, OthersAlone(x), NEW f, NEW id, id # x, Owned(f, id)
  PROVE  Owned(f, id)'
  <1>1. Len(opened) \in Nat /\ Len(opened') \in Nat /\ Len(opened) <= Len(opened')
    BY LenProperties DEF TypeInv, OthersAlone
  <1>2. ASSUME NEW k \in 1..Len(f)
        PROVE  f[k] \in 1..Len(opened') /\ opened'[f[k]].call = id /\ opened'[f[k]].open
    <2>1. f[k] \in 1..Len(opened) /\ opened[f[k]].call = id /\ opened[f[k]].open
      BY DEF Owned
    <2>2. opened'[f[k]].call = opened[f[k]].call /\ (opened'[f[k]].open <=> opened[f[k]].open)
      BY <2>1 DEF OthersAlone
    <2>3. f[k] \in 1..Len(opened')
      BY <1>1, <2>1
    <2> QED
      BY <2>1, <2>2, <2>3
  <1> QED
    BY <1>2 DEF Owned

\* The invariant of another call is kept.
LEMMA OtherKept ==
  ASSUME TypeInv, NEW x, OthersAlone(x), latestCallID' = latestCallID,
         NEW c, CallInv(c), c.id # x
  PROVE  CallInv(c)'
  <1>1. Frame(c.id)' = Frame(c.id)
    BY DEF OthersAlone, Frame
  <1>2. c.pc # "closing" => RefsInv(c)'
    BY <1>1 DEF CallInv, RefsInv
  <1>3. c.pc = "closing" => ClosingInv(c)'
    <2> SUFFICES ASSUME c.pc = "closing" PROVE ClosingInv(c)'
      OBVIOUS
    <2>1. Owned(c.closing, c.id)'
      BY OwnedKept DEF CallInv, ClosingInv
    <2>2. Len(opened) \in Nat /\ Len(opened') \in Nat /\ Len(opened) <= Len(opened')
      BY LenProperties DEF TypeInv, OthersAlone
    <2>3. c.id \notin DOMAIN iteratorFrames'
      BY DEF CallInv, ClosingInv, OthersAlone
    <2>4. ASSUME NEW k \in 1..Len(c.refs)
          PROVE  /\ c.refs[k].stands \in 1..Len(opened')
                 /\ opened'[c.refs[k].stands].call = c.id
                 /\ opened'[c.refs[k].stands].open =>
                      \E j \in 1..Len(c.closing) : c.closing[j] = c.refs[k].stands
      <3> DEFINE it == c.refs[k].stands
      <3>1. /\ it \in 1..Len(opened)
            /\ opened[it].call = c.id
            /\ opened[it].open => \E j \in 1..Len(c.closing) : c.closing[j] = it
        BY DEF CallInv, ClosingInv
      <3>2. opened'[it].call = opened[it].call /\ (opened'[it].open <=> opened[it].open)
        BY <3>1 DEF OthersAlone
      <3> HIDE DEF it
      <3>3. it \in 1..Len(opened')
        BY <2>2, <3>1
      <3> QED
        BY <3>1, <3>2, <3>3 DEF it
    <2> QED
      BY <2>1, <2>3, <2>4 DEF ClosingInv
  <1> QED
    BY <1>2, <1>3 DEF CallInv, VecInv

\* A step of the innermost call that leaves the others alone, and after which
\* this call and its frame are in order, keeps the invariant.
LEMMA OwnStep ==
  ASSUME IInv, NEW t \in Thread, stacks[t] # << >>,
         NEW new \in CallRecord, SetTop(t, new), new.id = Top(t).id,
         OthersAlone(new.id), latestCallID' = latestCallID, CallInv(new)',
         DOMAIN iteratorFrames' \subseteq Nat,
         iteratorFrames' \in [DOMAIN iteratorFrames' -> Seq(Nat)],
         new.id \in DOMAIN iteratorFrames' =>
           Owned(iteratorFrames[new.id], new.id)' /\ new.pc # "closing"
  PROVE  IInv'
  <1> DEFINE n == Len(stacks[t])
  <1>0. TypeInv /\ CallsInv /\ IdsInv /\ FramesInv
    BY DEF IInv
  <1>1. n \in 1..n /\ new.id = stacks[t][n].id
    BY <1>0, TopCall
  <1>2. /\ stacks' \in [Thread -> Seq(CallRecord)]
        /\ \A u \in Thread : Len(stacks'[u]) = Len(stacks[u])
        /\ \A u \in Thread : \A i \in 1..Len(stacks[u]) :
             stacks'[u][i] = IF u = t /\ i = n THEN new ELSE stacks[u][i]
    BY <1>0, SetTopEffect
  <1> HIDE DEF n
  <1>3. TypeInv'
    BY <1>0, <1>2 DEF TypeInv, OthersAlone
  <1>4. IdsInv'
    <2>1. \A u \in Thread : \A i \in 1..Len(stacks[u]) : stacks'[u][i].id = stacks[u][i].id
      BY <1>1, <1>2
    <2> QED
      BY <1>0, <1>2, <2>1 DEF IdsInv
  <1>5. CallsInv'
    <2> SUFFICES ASSUME NEW u \in Thread, NEW i \in 1..Len(stacks[u]),
                        NEW c, c = stacks'[u][i]
                 PROVE  CallInv(c)'
      BY <1>2 DEF CallsInv
    <2>1. CASE u = t /\ i = n
      BY <1>2, <2>1
    <2>2. CASE ~(u = t /\ i = n)
      <3>1. c = stacks[u][i] /\ CallInv(c)
        BY <1>0, <1>2, <2>2 DEF CallsInv
      <3>2. n \in 1..Len(stacks[t])
        BY <1>1 DEF n
      <3>3. c.id # new.id
        BY <1>0, <1>1, <2>2, <3>1, <3>2 DEF IdsInv
      <3> QED
        BY <1>0, <3>1, <3>3, OtherKept
    <2> QED
      BY <2>1, <2>2
  <1>6. FramesInv'
    <2> SUFFICES ASSUME NEW id \in DOMAIN iteratorFrames'
                 PROVE  /\ Owned(iteratorFrames[id], id)'
                        /\ \E u \in Thread : \E i \in 1..Len(stacks'[u]) :
                             stacks'[u][i].id = id /\ stacks'[u][i].pc # "closing"
      BY Zenon DEF FramesInv
    <2>1. CASE id = new.id
      <3>1. n \in 1..Len(stacks'[t]) /\ stacks'[t][n] = new
        BY <1>1, <1>2 DEF n
      <3> QED
        BY <2>1, <3>1
    <2>2. CASE id # new.id
      <3>1. id \in DOMAIN iteratorFrames /\ iteratorFrames'[id] = iteratorFrames[id]
        BY <2>2 DEF OthersAlone
      <3>2. Owned(iteratorFrames'[id], id)
        BY <1>0, <3>1 DEF FramesInv
      <3>3. Owned(iteratorFrames[id], id)'
        <4>1. PICK f : f = iteratorFrames'[id]
          OBVIOUS
        <4>2. Owned(f, id)'
          BY <1>0, <2>2, <3>2, <4>1, OwnedKept
        <4> QED
          BY <4>1, <4>2
      <3>4. PICK u \in Thread : \E i \in 1..Len(stacks[u]) :
                   stacks[u][i].id = id /\ stacks[u][i].pc # "closing"
        BY <1>0, <3>1, Zenon DEF FramesInv
      <3>5. PICK i \in 1..Len(stacks[u]) :
                   stacks[u][i].id = id /\ stacks[u][i].pc # "closing"
        BY <3>4
      <3>6. stacks'[u][i] = stacks[u][i]
        BY <1>1, <1>2, <2>2, <3>5
      <3> QED
        BY <1>2, <3>3, <3>5, <3>6
    <2> QED
      BY <2>1, <2>2
  <1> QED
    BY <1>3, <1>4, <1>5, <1>6 DEF IInv

\* The frame of a call that has not taken it out.
LEMMA FrameOwned ==
  ASSUME TypeInv, FramesInv, NEW id
  PROVE  Frame(id) \in Seq(Nat) /\ Owned(Frame(id), id)
  <1>1. CASE id \in DOMAIN iteratorFrames
    BY <1>1 DEF TypeInv, FramesInv, Frame
  <1>2. CASE id \notin DOMAIN iteratorFrames
    <2>1. Frame(id) = << >> /\ << >> \in Seq(Nat) /\ Len(<< >>) = 0
      BY <1>2, EmptySeq DEF Frame
    <2> QED
      BY <2>1 DEF Owned
  <1> QED
    BY <1>1, <1>2

\* A finished call takes its own frame out of the shared table.
LEMMA removeFrameStep ==
  ASSUME IInv, NEW t \in Thread, removeFrame(t)
  PROVE  IInv'
  <1> DEFINE call == Top(t)
             new == [call EXCEPT !.pc = "closing", !.closing = Frame(call.id)]
  <1>1. /\ call \in CallRecord /\ CallInv(call) /\ TypeInv /\ FramesInv
        /\ stacks[t] # << >> /\ call.pc = "ending"
    BY TopInv DEF removeFrame, IInv
  <1>2. /\ SetTop(t, new) /\ iteratorFrames' = Removed(call.id)
        /\ latestCallID' = latestCallID /\ opened' = opened
    BY DEF removeFrame
  <1>3. Frame(call.id) \in Seq(Nat) /\ Owned(Frame(call.id), call.id) /\ "closing" \in Stage
    BY <1>1, FrameOwned DEF Stage
  <1>4. /\ new \in CallRecord /\ new.id = call.id /\ new.refs = call.refs
        /\ new.pc = "closing" /\ new.closing = Frame(call.id)
        /\ new.vec = call.vec /\ new.errno = call.errno
    BY <1>1, <1>3, Zenon DEF CallRecord
  <1> HIDE DEF new
  <1>5. Len(opened) \in Nat
    BY <1>1, LenProperties DEF TypeInv
  <1>6. OthersAlone(new.id)
    BY <1>1, <1>2, <1>4, <1>5 DEF OthersAlone, Removed, TypeInv
  <1>7. /\ DOMAIN iteratorFrames' \subseteq Nat /\ new.id \notin DOMAIN iteratorFrames'
        /\ iteratorFrames' \in [DOMAIN iteratorFrames' -> Seq(Nat)]
    BY <1>1, <1>2, <1>4 DEF Removed, TypeInv
  <1>8. PICK c : c = new
    OBVIOUS
  <1>9. CallInv(c)'
    <2>1. Owned(c.closing, c.id)'
      <3>1. PICK f : f = Frame(call.id)
        OBVIOUS
      <3>2. PICK id : id = call.id
        OBVIOUS
      <3>3. Owned(f, id)'
        BY <1>2, <1>3, <3>1, <3>2, Zenon DEF Owned
      <3>4. c.closing = f /\ c.id = id
        BY <1>4, <1>8, <3>1, <3>2
      <3> QED
        BY <3>3, <3>4
    <2>2. ASSUME NEW k \in 1..Len(c.refs)
          PROVE  /\ c.refs[k].stands \in 1..Len(opened)
                 /\ opened[c.refs[k].stands].call = c.id
                 /\ \E j \in 1..Len(c.closing) : c.closing[j] = c.refs[k].stands
      <3>0. c.refs = call.refs /\ c.closing = Frame(call.id) /\ RefsInv(call)
        BY <1>1, <1>4, <1>8 DEF CallInv
      <3>1. Len(c.refs) = Len(c.closing) /\ c.refs[k].stands = c.closing[k]
        <4>1. /\ Len(call.refs) = Len(Frame(call.id))
              /\ call.refs[k] = [call_id |-> call.id, iterator_id |-> k,
                                 stands |-> Frame(call.id)[k]]
          BY <3>0 DEF RefsInv
        <4> QED
          BY <3>0, <4>1
      <3>2. c.closing[k] \in 1..Len(opened) /\ opened[c.closing[k]].call = c.id
        BY <1>3, <1>4, <1>8, <3>1 DEF Owned
      <3> QED
        BY <3>1, <3>2
    <2>3. ClosingInv(c)'
      BY <1>2, <1>7, <1>8, <2>1, <2>2 DEF ClosingInv
    <2>4. c.id <= latestCallID'
      BY <1>1, <1>2, <1>4, <1>8 DEF CallInv
    <2>5. VecInv(c)
      BY <1>1, <1>4, <1>8 DEF CallInv, VecInv
    <2> QED
      BY <1>4, <1>8, <2>3, <2>4, <2>5 DEF CallInv, VecInv
  <1> QED
    BY <1>1, <1>2, <1>4, <1>6, <1>7, <1>8, <1>9, OwnStep, Zenon

\* An iterator is opened at the next place.
LEMMA OpenedAppend ==
  ASSUME TypeInv, NEW id \in Nat,
         opened' = Append(opened, [call |-> id, open |-> TRUE, left |-> Items])
  PROVE  /\ OpenedGrows
         /\ Len(opened) \in Nat /\ Len(opened') = Len(opened) + 1
         /\ opened'[Len(opened) + 1].call = id /\ opened'[Len(opened) + 1].open
  <1> DEFINE o == [call |-> id, open |-> TRUE, left |-> Items]
  <1>1. opened \in Seq(Opened) /\ Len(opened) \in Nat
    BY LenProperties DEF TypeInv
  <1>2. o \in Opened /\ o.call = id /\ o.open = TRUE
    BY VmCallsAssumption DEF Opened
  <1> HIDE DEF o
  <1>3. opened' = Append(opened, o)
    BY DEF o
  <1>4. /\ opened' \in Seq(Opened) /\ Len(opened') = Len(opened) + 1
        /\ \A i \in 1..Len(opened) : opened'[i] = opened[i]
        /\ opened'[Len(opened) + 1] = o
    BY <1>1, <1>2, <1>3, AppendProperties
  <1>5. OpenedGrows
    BY <1>1, <1>4 DEF OpenedGrows
  <1> QED
    BY <1>1, <1>2, <1>4, <1>5

\* storeIterator puts the new iterator at the end of the call's own frame.
LEMMA StoredFrame ==
  ASSUME TypeInv, FramesInv, NEW id \in Nat, NEW it \in Nat,
         iteratorFrames' = storeIterator(id, it)
  PROVE  /\ DOMAIN iteratorFrames' = DOMAIN iteratorFrames \cup {id}
         /\ iteratorFrames' \in [DOMAIN iteratorFrames' -> Seq(Nat)]
         /\ iteratorFrames'[id] = Append(Frame(id), it)
         /\ \A i \in DOMAIN iteratorFrames : i # id => iteratorFrames'[i] = iteratorFrames[i]
  <1>1. Append(Frame(id), it) \in Seq(Nat)
    BY FrameOwned, AppendProperties
  <1> QED
    BY <1>1 DEF storeIterator, TypeInv

\* An iterator is stored in the frame of its call, and Rust refers to it.
LEMMA StoreStep ==
  ASSUME IInv, NEW t \in Thread, stacks[t] # << >>, Top(t).pc = "wasm",
         NEW call, call = Top(t), NEW it, it = Len(opened) + 1,
         opened' = Append(opened, [call |-> call.id, open |-> TRUE, left |-> Items]),
         iteratorFrames' = storeIterator(call.id, it),
         SetTop(t, [Returns(call, "None", {}) EXCEPT !.refs =
                      Append(@, [call_id |-> call.id,
                                 iterator_id |-> Len(Frame(call.id)) + 1,
                                 stands |-> it])]),
         latestCallID' = latestCallID
  PROVE  IInv'
  <1> DEFINE f == Frame(call.id)
             ref == [call_id |-> call.id, iterator_id |-> Len(f) + 1, stands |-> it]
             back == Returns(call, "None", {})
             new == [back EXCEPT !.refs = Append(call.refs, ref)]
  <1>1. /\ call \in CallRecord /\ CallInv(call) /\ VecInv(call) /\ call.id \in Nat
        /\ RefsInv(call) /\ TypeInv /\ FramesInv
    BY TopInv DEF CallInv, IInv, CallRecord
  <1>2. /\ back \in CallRecord /\ back.id = call.id /\ back.refs = call.refs
        /\ back.pc = "back" /\ VecInv(back)
    BY <1>1, ReturnsFills DEF GoError
  <1>3. /\ OpenedGrows /\ Len(opened) \in Nat /\ Len(opened') = Len(opened) + 1
        /\ opened'[it].call = call.id /\ opened'[it].open /\ it \in Nat
    BY <1>1, OpenedAppend
  <1>4. f \in Seq(Nat) /\ Owned(f, call.id) /\ Len(f) \in Nat
    BY <1>1, FrameOwned, LenProperties
  <1>5. /\ Append(f, it) \in Seq(Nat) /\ Len(Append(f, it)) = Len(f) + 1
        /\ \A k \in 1..Len(f) : Append(f, it)[k] = f[k]
        /\ Append(f, it)[Len(f) + 1] = it
    BY <1>3, <1>4, AppendProperties
  <1>6. ref \in Ref
    BY <1>1, <1>3, <1>4 DEF Ref
  <1>7. /\ Append(call.refs, ref) \in Seq(Ref)
        /\ Len(call.refs) \in Nat /\ Len(Append(call.refs, ref)) = Len(call.refs) + 1
        /\ \A k \in 1..Len(call.refs) : Append(call.refs, ref)[k] = call.refs[k]
        /\ Append(call.refs, ref)[Len(call.refs) + 1] = ref
    <2>1. call.refs \in Seq(Ref)
      BY <1>1 DEF CallRecord
    <2> HIDE DEF ref
    <2> QED
      BY <1>6, <2>1, AppendProperties, LenProperties
  <1>8. SetTop(t, new)
    BY <1>2, Zenon
  <1> HIDE DEF ref, back
  <1>9. /\ new \in CallRecord /\ new.id = call.id /\ new.refs = Append(call.refs, ref)
        /\ new.pc = "back" /\ new.vec = back.vec /\ new.errno = back.errno
    BY <1>2, <1>7, Zenon DEF CallRecord
  <1> HIDE DEF new, f
  <1>10. VecInv(new)
    BY <1>2, <1>9 DEF VecInv
  <1>11. /\ DOMAIN iteratorFrames' = DOMAIN iteratorFrames \cup {call.id}
         /\ iteratorFrames' \in [DOMAIN iteratorFrames' -> Seq(Nat)]
         /\ iteratorFrames'[call.id] = Append(f, it)
         /\ \A i \in DOMAIN iteratorFrames : i # call.id => iteratorFrames'[i] = iteratorFrames[i]
    <2>1. PICK id : id = call.id
      OBVIOUS
    <2>2. id \in Nat /\ it \in Nat /\ iteratorFrames' = storeIterator(id, it) /\ f = Frame(id)
      BY <1>1, <1>3, <2>1 DEF f
    <2> QED
      BY <1>1, <2>1, <2>2, StoredFrame, Zenon
  <1>14. PICK c : c = new
    OBVIOUS
  <1>12. OthersAlone(c.id)
    BY <1>3, <1>9, <1>11, <1>14 DEF OthersAlone, OpenedGrows
  <1>13. Owned(iteratorFrames[c.id], c.id)'
    <2>1. PICK g : g = Append(f, it)
      BY Zenon
    <2>2. PICK id : id = call.id
      OBVIOUS
    <2>3. ASSUME NEW k \in 1..Len(g)
          PROVE  g[k] \in 1..Len(opened') /\ opened'[g[k]].call = id /\ opened'[g[k]].open
      <3>1. CASE k \in 1..Len(f)
        <4>1. g[k] = f[k]
          BY <1>5, <2>1, <3>1
        <4>2. f[k] \in 1..Len(opened) /\ opened[f[k]].call = id /\ opened[f[k]].open
          BY <1>4, <2>2, <3>1 DEF Owned
        <4>3. opened'[f[k]].call = opened[f[k]].call /\ (opened'[f[k]].open <=> opened[f[k]].open)
          BY <1>3, <4>2, Zenon DEF OpenedGrows
        <4>4. f[k] \in 1..Len(opened')
          BY <1>3, <4>2
        <4> QED
          BY <4>1, <4>2, <4>3, <4>4
      <3>2. CASE k = Len(f) + 1
        <4>1. g[k] = it
          BY <1>5, <2>1, <3>2
        <4> QED
          BY <1>3, <2>2, <4>1
      <3> QED
        BY <1>4, <1>5, <2>1, <3>1, <3>2
    <2>4. ASSUME NEW j \in 1..Len(g), NEW k \in 1..Len(g), g[j] = g[k]
          PROVE  j = k
      <3>1. \A i \in 1..Len(f) : f[i] \in 1..Len(opened)
        BY <1>4 DEF Owned
      <3>2. \A i \in 1..Len(g) : i \in 1..Len(f) \/ i = Len(f) + 1
        <4>1. Len(g) = Len(f) + 1 /\ Len(f) \in Nat
          BY <1>4, <1>5, <2>1, Zenon
        <4> QED
          BY <4>1
      <3>3. \A i \in 1..Len(f) : g[i] = f[i] /\ g[i] # it
        BY <1>3, <1>5, <2>1, <3>1
      <3>4. g[Len(f) + 1] = it
        BY <1>5, <2>1
      <3>5. \A m, i \in 1..Len(f) : f[m] = f[i] => m = i
        BY <1>4 DEF Owned
      <3>6. CASE j \in 1..Len(f) /\ k \in 1..Len(f)
        BY <2>4, <3>3, <3>5, <3>6
      <3>7. CASE j = Len(f) + 1 \/ k = Len(f) + 1
        BY <2>4, <3>2, <3>3, <3>4, <3>7
      <3> QED
        BY <3>2, <3>6, <3>7
    <2>5. Owned(g, id)'
      BY <2>3, <2>4 DEF Owned
    <2> QED
      BY <1>9, <1>11, <1>14, <2>1, <2>2, <2>5, Zenon
  <1>15. RefsInv(c)'
    <2>1. Frame(c.id)' = Append(f, it)
      BY <1>9, <1>11, <1>14 DEF Frame
    <2>2. Len(call.refs) = Len(f) /\ Len(c.refs) = Len(Append(f, it))
      BY <1>1, <1>5, <1>7, <1>9, <1>14 DEF RefsInv, f
    <2>3. ASSUME NEW k \in 1..Len(c.refs)
          PROVE  c.refs[k] = [call_id |-> c.id, iterator_id |-> k,
                              stands |-> Append(f, it)[k]]
      <3>1. CASE k \in 1..Len(f)
        <4>1. c.refs[k] = call.refs[k]
          BY <1>7, <1>9, <1>14, <2>2, <3>1
        <4>2. call.refs[k] = [call_id |-> call.id, iterator_id |-> k, stands |-> f[k]]
          BY <1>1, <2>2, <3>1 DEF RefsInv, f
        <4>3. Append(f, it)[k] = f[k]
          BY <1>5, <3>1
        <4> QED
          BY <1>9, <1>14, <4>1, <4>2, <4>3, Zenon
      <3>2. CASE k = Len(f) + 1
        <4>1. c.refs[k] = ref
          BY <1>7, <1>9, <1>14, <2>2, <3>2
        <4> QED
          BY <1>5, <1>9, <1>14, <3>2, <4>1 DEF ref
      <3>3. k \in 1..Len(f) \/ k = Len(f) + 1
        BY <1>4, <1>5, <2>2
      <3> QED
        BY <3>1, <3>2, <3>3
    <2> QED
      BY <2>1, <2>2, <2>3 DEF RefsInv
  <1>16. CallInv(c)'
    <2>1. c.id <= latestCallID'
      BY <1>1, <1>9, <1>14 DEF CallInv
    <2> QED
      BY <1>9, <1>10, <1>14, <1>15, <2>1 DEF CallInv, VecInv
  <1>17. DOMAIN iteratorFrames' \subseteq Nat
    BY <1>1, <1>11 DEF TypeInv
  <1>18. /\ c \in CallRecord /\ SetTop(t, c) /\ c.id = Top(t).id
         /\ c.pc # "closing"
    BY <1>8, <1>9, <1>14
  <1> QED
    BY <1>11, <1>12, <1>13, <1>16, <1>17, <1>18, OwnStep, Zenon

\* A scan, whether the table takes the iterator, refuses it, or gas runs out.
LEMMA cScanStep ==
  ASSUME IInv, NEW t \in Thread, cScan(t)
  PROVE  IInv'
  <1>1. PICK call : call = Top(t)
    OBVIOUS
  <1>2. PICK it : it = Len(opened) + 1
    OBVIOUS
  <1>3. /\ call \in CallRecord /\ CallInv(call) /\ TypeInv /\ call.id \in Nat
        /\ stacks[t] # << >> /\ Top(t).pc = "wasm"
        /\ latestCallID' = latestCallID
    BY <1>1, TopInv DEF cScan, InWasm, IInv, CallRecord
  <1>4. /\ "OutOfGas" \in GoError /\ "User" \in GoError
        /\ {} \in SUBSET {"output", "value", "error"}
        /\ {"error"} \in SUBSET {"output", "value", "error"}
    BY DEF GoError
  <1>5. CASE /\ opened' = Append(opened, [call |-> call.id, open |-> TRUE, left |-> Items])
             /\ \/ SetTop(t, Returns(call, "OutOfGas", {}))
                \/ SetTop(t, Returns(call, "User", {"error"}))
             /\ UNCHANGED iteratorFrames
    <2>1. OpenedGrows /\ UNCHANGED <<latestCallID, iteratorFrames>>
      BY <1>3, <1>5, OpenedAppend
    <2> QED
      BY <1>1, <1>3, <1>4, <1>5, <2>1, ReturnsStep, Zenon
  <1>7. CASE /\ opened' = Append(opened, [call |-> call.id, open |-> TRUE, left |-> Items])
             /\ iteratorFrames' = storeIterator(call.id, it)
             /\ SetTop(t, [Returns(call, "None", {}) EXCEPT !.refs =
                             Append(@, [call_id |-> call.id,
                                        iterator_id |-> Len(Frame(call.id)) + 1,
                                        stands |-> it])])
    BY <1>1, <1>2, <1>3, <1>7, StoreStep, Zenon
  <1> QED
    BY <1>1, <1>2, <1>5, <1>7, Zenon DEF cScan

----------------------------------------------------------------------------
(* endCall.                                                                *)

\* What is left after the first of some iterators.
LEMMA RestOf ==
  ASSUME NEW s \in Seq(Nat), s # << >>
  PROVE  /\ Tail(s) \in Seq(Nat) /\ Len(Tail(s)) \in Nat /\ Len(s) = Len(Tail(s)) + 1
         /\ \A i \in 1..Len(Tail(s)) : Tail(s)[i] = s[i + 1]
         /\ Head(s) = s[1]
  <1>1. Len(s) \in Nat
    BY LenProperties
  <1>2. /\ Tail(s) \in Seq(Nat) /\ Len(Tail(s)) = Len(s) - 1
        /\ \A i \in 1..Len(Tail(s)) : Tail(s)[i] = s[i + 1]
    BY HeadTailProperties
  <1>3. Len(Tail(s)) \in Nat
    BY <1>2, LenProperties
  <1>4. Head(s) = s[1]
    OBVIOUS
  <1> QED
    BY <1>1, <1>2, <1>3, <1>4

\* The iterator at h is closed, and the others are what they were.
ClosesOnly(h) ==
  /\ opened' \in Seq(Opened) /\ Len(opened') = Len(opened) /\ Len(opened) \in Nat
  /\ \A it \in 1..Len(opened) :
       /\ opened'[it].call = opened[it].call
       /\ it # h => (opened'[it].open <=> opened[it].open)
  /\ ~opened'[h].open

\* Closing the iterator at h does that.
LEMMA ClosedIterator ==
  ASSUME TypeInv, NEW h \in 1..Len(opened), opened' = [opened EXCEPT ![h].open = FALSE]
  PROVE  ClosesOnly(h)
  <1> DEFINE o == [opened[h] EXCEPT !.open = FALSE]
  <1>1. opened \in Seq(Opened) /\ Len(opened) \in Nat
    BY LenProperties DEF TypeInv
  <1>2. opened[h] \in Opened
    BY <1>1, ElementOfSeq
  <1>3. o \in Opened /\ o.call = opened[h].call /\ o.open = FALSE
    BY <1>2, Zenon DEF Opened
  <1>4. opened' = [opened EXCEPT ![h] = o]
    OBVIOUS
  <1> HIDE DEF o
  <1> DEFINE s == [opened EXCEPT ![h] = o]
  <1>5. /\ s \in Seq(Opened) /\ Len(s) = Len(opened)
        /\ \A j \in 1..Len(opened) : s[j] = IF j = h THEN o ELSE opened[j]
    BY <1>1, <1>3, ExceptSeq
  <1>6. opened' = s
    BY <1>4, Zenon
  <1> HIDE DEF s
  <1> QED
    BY <1>1, <1>3, <1>5, <1>6, Zenon DEF ClosesOnly

\* It closes the first of the iterators that are left.
LEMMA CloseStep ==
  ASSUME IInv, NEW t \in Thread, stacks[t] # << >>,
         NEW call, call = Top(t), call.pc = "closing",
         NEW rest \in Seq(Nat), Len(rest) \in Nat, Len(call.closing) = Len(rest) + 1,
         \A i \in 1..Len(rest) : rest[i] = call.closing[i + 1],
         NEW h, h = call.closing[1], ClosesOnly(h),
         NEW c \in CallRecord, SetTop(t, c),
         c.id = call.id, c.refs = call.refs, c.pc = "closing",
         c.vec = call.vec, c.errno = call.errno, c.closing = rest,
         UNCHANGED <<latestCallID, iteratorFrames>>
  PROVE  IInv'
  <1>1. CallInv(call) /\ ClosingInv(call) /\ TypeInv
    BY TopInv DEF CallInv, IInv
  <1>6. /\ \A k \in 1..Len(call.closing) :
             /\ call.closing[k] \in 1..Len(opened)
             /\ opened[call.closing[k]].call = call.id
             /\ opened[call.closing[k]].open
        /\ \A j, k \in 1..Len(call.closing) : call.closing[j] = call.closing[k] => j = k
    BY <1>1, Zenon DEF ClosingInv, Owned
  <1>7. h \in 1..Len(opened) /\ opened[h].call = call.id
    <2>1. 1 \in 1..Len(call.closing)
      OBVIOUS
    <2> QED
      BY <1>6, <2>1
  <1>8. /\ opened' \in Seq(Opened) /\ Len(opened') = Len(opened) /\ Len(opened) \in Nat
        /\ \A it \in 1..Len(opened) : /\ opened'[it].call = opened[it].call
                                      /\ it # h => (opened'[it].open <=> opened[it].open)
        /\ ~opened'[h].open
    BY DEF ClosesOnly
  <1>9. OthersAlone(c.id)
    <2>1. \A it \in 1..Len(opened) : opened[it].call # c.id => it # h
      BY <1>7
    <2>2. \A it \in 1..Len(opened) : opened[it].call # c.id =>
            opened'[it].call = opened[it].call /\ (opened'[it].open <=> opened[it].open)
      BY <1>8, <2>1, Zenon
    <2>3. Len(opened) <= Len(opened')
      BY <1>8
    <2> QED
      BY <1>8, <2>2, <2>3, Zenon DEF OthersAlone
  <1>10. c.id \notin DOMAIN iteratorFrames'
    BY <1>1 DEF ClosingInv
  <1>11. Owned(c.closing, c.id)'
    <2>1. ASSUME NEW k \in 1..Len(rest)
          PROVE  /\ rest[k] \in 1..Len(opened') /\ opened'[rest[k]].call = c.id
                 /\ opened'[rest[k]].open
      <3>1. k + 1 \in 1..Len(call.closing) /\ 1 \in 1..Len(call.closing) /\ k + 1 # 1
        OBVIOUS
      <3>2. rest[k] = call.closing[k + 1]
        OBVIOUS
      <3>3. rest[k] \in 1..Len(opened) /\ opened[rest[k]].call = c.id /\ opened[rest[k]].open
        <4>1. /\ call.closing[k + 1] \in 1..Len(opened)
              /\ opened[call.closing[k + 1]].call = call.id
              /\ opened[call.closing[k + 1]].open
          BY <1>6, <3>1, Zenon
        <4> QED
          BY <3>2, <4>1, Zenon
      <3>4. rest[k] # h
        <4>1. call.closing[k + 1] # call.closing[1]
          BY <1>6, <3>1, Zenon
        <4> QED
          BY <3>2, <4>1, Zenon
      <3>5. /\ opened'[rest[k]].call = opened[rest[k]].call
            /\ opened'[rest[k]].open <=> opened[rest[k]].open
        BY <1>8, <3>3, <3>4, Zenon
      <3> QED
        BY <1>8, <3>3, <3>5, Zenon
    <2>2. ASSUME NEW j \in 1..Len(rest), NEW k \in 1..Len(rest), rest[j] = rest[k]
          PROVE  j = k
      <3>1. j + 1 \in 1..Len(call.closing) /\ k + 1 \in 1..Len(call.closing)
        OBVIOUS
      <3>2. call.closing[j + 1] = call.closing[k + 1]
        BY <2>2, Zenon
      <3>3. j + 1 = k + 1
        BY <1>6, <3>1, <3>2, Zenon
      <3> QED
        BY <3>3
    <2>3. PICK g : g = rest
      OBVIOUS
    <2>4. Owned(g, c.id)'
      BY <2>1, <2>2, <2>3 DEF Owned
    <2> QED
      BY <2>3, <2>4
  <1>12. ASSUME NEW k \in 1..Len(c.refs)
         PROVE  /\ c.refs[k].stands \in 1..Len(opened')
                /\ opened'[c.refs[k].stands].call = c.id
                /\ opened'[c.refs[k].stands].open =>
                     \E j \in 1..Len(c.closing) : c.closing[j] = c.refs[k].stands
    <2>1. PICK it : it = c.refs[k].stands
      OBVIOUS
    <2>2. /\ it \in 1..Len(opened) /\ opened[it].call = c.id
          /\ opened[it].open => \E j \in 1..Len(call.closing) : call.closing[j] = it
      <3>1. k \in 1..Len(call.refs) /\ it = call.refs[k].stands
        BY <2>1, Zenon
      <3>2. /\ call.refs[k].stands \in 1..Len(opened)
            /\ opened[call.refs[k].stands].call = call.id
            /\ opened[call.refs[k].stands].open =>
                 \E j \in 1..Len(call.closing) : call.closing[j] = call.refs[k].stands
        BY <1>1, <3>1, Zenon DEF ClosingInv
      <3> QED
        BY <3>1, <3>2, Zenon
    <2>3. it \in 1..Len(opened') /\ opened'[it].call = c.id
      BY <1>8, <2>2, Zenon
    <2>4. ASSUME opened'[it].open
          PROVE  \E j \in 1..Len(rest) : rest[j] = it
      <3>1. it # h
        BY <1>8, <2>4
      <3>2. opened'[it].open <=> opened[it].open
        BY <1>8, <2>2, <3>1, Zenon
      <3>3. PICK j \in 1..Len(call.closing) : call.closing[j] = it
        BY <2>2, <2>4, <3>2
      <3>4. j # 1
        BY <3>1, <3>3
      <3>5. j - 1 \in 1..Len(rest)
        BY <3>3, <3>4
      <3>6. rest[j - 1] = it
        <4>1. rest[j - 1] = call.closing[(j - 1) + 1] /\ (j - 1) + 1 = j
          BY <3>5
        <4> QED
          BY <3>3, <4>1, Zenon
      <3> QED
        BY <3>5, <3>6
    <2> QED
      BY <2>1, <2>3, <2>4, Zenon
  <1>13. CallInv(c)'
    <2>1. ClosingInv(c)'
      BY <1>10, <1>11, <1>12, Zenon DEF ClosingInv
    <2>2. c.id <= latestCallID' /\ VecInv(c)
      BY <1>1 DEF CallInv, VecInv
    <2> QED
      BY <2>1, <2>2 DEF CallInv, VecInv
  <1>14. DOMAIN iteratorFrames' \subseteq Nat
         /\ iteratorFrames' \in [DOMAIN iteratorFrames' -> Seq(Nat)]
    BY <1>1 DEF TypeInv
  <1> QED
    BY <1>9, <1>10, <1>13, <1>14, OwnStep, Zenon

----------------------------------------------------------------------------
(* Calls that start and end.                                               *)

\* A call that goes on as it was, or whose query now runs another call.
Continues(d, c) ==
  /\ c.id = d.id /\ c.refs = d.refs /\ c.vec = d.vec
  /\ c.errno = d.errno /\ c.closing = d.closing
  /\ c.pc = d.pc \/ (d.pc = "querying" /\ c.pc = "queried")

\* The invariant of a call that goes on is kept.
LEMMA ContinuesKept ==
  ASSUME UNCHANGED <<iteratorFrames, opened>>, NEW d, NEW c, Continues(d, c),
         CallInv(d), c.id <= latestCallID'
  PROVE  CallInv(c)'
  <1>1. VecInv(c)
    BY DEF CallInv, VecInv, Continues
  <1>2. c.pc # "closing" => RefsInv(c)'
    <2> SUFFICES ASSUME c.pc # "closing" PROVE RefsInv(c)'
      OBVIOUS
    <2>1. RefsInv(d)
      BY DEF CallInv, Continues
    <2>2. Frame(c.id)' = Frame(d.id)
      BY DEF Frame, Continues
    <2> QED
      BY <2>1, <2>2 DEF RefsInv, Continues
  <1>3. c.pc = "closing" => ClosingInv(c)'
    <2> SUFFICES ASSUME c.pc = "closing" PROVE ClosingInv(c)'
      OBVIOUS
    <2>1. ClosingInv(d)
      BY DEF CallInv, Continues
    <2>2. Owned(c.closing, c.id)'
      BY <2>1, SMTT(60) DEF ClosingInv, Owned, Continues
    <2>3. /\ c.id \notin DOMAIN iteratorFrames'
          /\ c.refs = d.refs /\ c.closing = d.closing /\ c.id = d.id
      BY <2>1 DEF ClosingInv, Continues
    <2>4. ASSUME NEW k \in 1..Len(c.refs)
          PROVE  /\ c.refs[k].stands \in 1..Len(opened')
                 /\ opened'[c.refs[k].stands].call = c.id
                 /\ opened'[c.refs[k].stands].open =>
                      \E j \in 1..Len(c.closing) : c.closing[j] = c.refs[k].stands
      <3>1. /\ d.refs[k].stands \in 1..Len(opened)
            /\ opened[d.refs[k].stands].call = d.id
            /\ opened[d.refs[k].stands].open =>
                 \E j \in 1..Len(d.closing) : d.closing[j] = d.refs[k].stands
        BY <2>1, <2>3, Zenon DEF ClosingInv
      <3> QED
        BY <2>3, <3>1, Zenon
    <2> QED
      BY <2>2, <2>3, <2>4, Zenon DEF ClosingInv
  <1> QED
    BY <1>1, <1>2, <1>3 DEF CallInv, VecInv

\* The innermost call returns.
LEMMA PopStep ==
  ASSUME IInv, NEW t \in Thread, stacks[t] # << >>, Top(t).pc = "closing",
         stacks' = [stacks EXCEPT ![t] = SubSeq(@, 1, Len(@) - 1)],
         UNCHANGED <<latestCallID, iteratorFrames, opened>>
  PROVE  IInv'
  <1> DEFINE n == Len(stacks[t])
             s == SubSeq(stacks[t], 1, Len(stacks[t]) - 1)
  <1>0. TypeInv /\ CallsInv /\ IdsInv /\ FramesInv
    BY DEF IInv
  <1>1. n \in 1..n /\ stacks[t][n].pc = "closing"
    BY <1>0, TopCall
  <1>2. /\ s \in Seq(CallRecord) /\ Len(s) = n - 1 /\ n \in Nat
        /\ \A i \in 1..(n - 1) : s[i] = stacks[t][i]
    <2>1. stacks[t] \in Seq(CallRecord) /\ n \in Nat \ {0}
      BY <1>0, <1>1, LenProperties DEF TypeInv
    <2>2. \A i \in 1..(n - 1) : stacks[t][i] \in CallRecord
      BY <2>1, ElementOfSeq
    <2>3. s = SubSeq(stacks[t], 1, n - 1)
      OBVIOUS
    <2> HIDE DEF s, n
    <2>4. PICK m \in Int : m = n - 1
      BY <2>1
    <2>5. PICK q : q = stacks[t]
      OBVIOUS
    <2>6. /\ SubSeq(q, 1, m) \in Seq(CallRecord)
          /\ Len(SubSeq(q, 1, m)) = IF 1 <= m THEN m - 1 + 1 ELSE 0
          /\ \A i \in 1..(m - 1 + 1) : SubSeq(q, 1, m)[i] = q[1 + i - 1]
      <3>1. \A i \in 1..m : q[i] \in CallRecord
        BY <2>2, <2>4, <2>5
      <3> QED
        BY <3>1, SubSeqProperties, SMT
    <2>7. s = SubSeq(q, 1, m)
      BY <2>3, <2>4, <2>5
    <2>8. ASSUME NEW i \in 1..(n - 1)
          PROVE  s[i] = stacks[t][i]
      <3>1. i \in 1..(m - 1 + 1) /\ 1 + i - 1 = i
        BY <2>1, <2>4
      <3> QED
        BY <2>5, <2>6, <2>7, <3>1
    <2>9. s \in Seq(CallRecord) /\ Len(s) = m
      BY <2>1, <2>4, <2>6, <2>7
    <2> QED
      BY <2>1, <2>4, <2>8, <2>9
  <1> HIDE DEF s
  <1>3. \A u \in Thread : stacks'[u] = IF u = t THEN s ELSE stacks[u]
    BY <1>0 DEF TypeInv, s
  <1>4. stacks' \in [Thread -> Seq(CallRecord)]
    <2>1. stacks' = [stacks EXCEPT ![t] = s]
      BY DEF s
    <2> QED
      BY <1>0, <1>2, <2>1 DEF TypeInv
  <1> HIDE DEF n
  <1>5. ASSUME NEW u \in Thread, NEW i \in 1..Len(stacks'[u])
        PROVE  i \in 1..Len(stacks[u]) /\ stacks'[u][i] = stacks[u][i]
    <2>1. CASE u = t
      BY <1>2, <1>3, <2>1 DEF n
    <2>2. CASE u # t
      BY <1>3, <2>2
    <2> QED
      BY <2>1, <2>2
  <1>6. TypeInv'
    BY <1>0, <1>4 DEF TypeInv
  <1>7. CallsInv'
    <2> SUFFICES ASSUME NEW u \in Thread, NEW i \in 1..Len(stacks'[u]),
                        NEW c, c = stacks'[u][i]
                 PROVE  CallInv(c)'
      BY DEF CallsInv
    <2>1. CallInv(c)
      BY <1>0, <1>5 DEF CallsInv
    <2>2. Continues(c, c) /\ c.id <= latestCallID'
      BY <2>1 DEF Continues, CallInv
    <2> QED
      BY <2>1, <2>2, ContinuesKept
  <1>8. IdsInv'
    <2> SUFFICES ASSUME NEW u \in Thread, NEW v \in Thread,
                        NEW i \in 1..Len(stacks'[u]), NEW j \in 1..Len(stacks'[v]),
                        stacks'[u][i].id = stacks'[v][j].id
                 PROVE  u = v /\ i = j
      BY DEF IdsInv
    <2>1. /\ i \in 1..Len(stacks[u]) /\ j \in 1..Len(stacks[v])
          /\ stacks[u][i].id = stacks[v][j].id
      BY <1>5, Zenon
    <2> QED
      BY <1>0, <2>1 DEF IdsInv
  <1>9. FramesInv'
    <2> SUFFICES ASSUME NEW id \in DOMAIN iteratorFrames
                 PROVE  /\ Owned(iteratorFrames[id], id)'
                        /\ \E u \in Thread : \E i \in 1..Len(stacks'[u]) :
                             stacks'[u][i].id = id /\ stacks'[u][i].pc # "closing"
      BY DEF FramesInv
    <2>1. Owned(iteratorFrames[id], id)
      BY <1>0 DEF FramesInv
    <2>2. Owned(iteratorFrames[id], id)'
      BY <2>1, Zenon DEF Owned
    <2>6. PICK u \in Thread : \E i \in 1..Len(stacks[u]) :
            stacks[u][i].id = id /\ stacks[u][i].pc # "closing"
      BY <1>0 DEF FramesInv
    <2>3. PICK i \in 1..Len(stacks[u]) :
            stacks[u][i].id = id /\ stacks[u][i].pc # "closing"
      BY <2>6
    <2>4. i \in 1..Len(stacks'[u])
      <3>1. CASE u = t
        <4>1. i # n
          BY <1>1, <2>3, <3>1
        <4> QED
          BY <1>2, <1>3, <3>1, <4>1 DEF n
      <3>2. CASE u # t
        BY <1>3, <3>2
      <3> QED
        BY <3>1, <3>2
    <2>5. stacks'[u][i].id = id /\ stacks'[u][i].pc # "closing"
      BY <1>5, <2>3, <2>4
    <2> QED
      BY <2>2, <2>4, <2>5
  <1> QED
    BY <1>6, <1>7, <1>8, <1>9 DEF IInv

\* endCall closes one iterator after the other and lets the call return.
LEMMA endCallStep ==
  ASSUME IInv, NEW t \in Thread, endCall(t)
  PROVE  IInv'
  <1>1. PICK call : call = Top(t)
    OBVIOUS
  <1>2. stacks[t] # << >> /\ call.pc = "closing" /\ UNCHANGED <<latestCallID, iteratorFrames>>
    BY <1>1 DEF endCall
  <1>3. CASE call.closing = << >>
    <2>1. stacks' = [stacks EXCEPT ![t] = SubSeq(@, 1, Len(@) - 1)] /\ UNCHANGED opened
      BY <1>1, <1>3 DEF endCall
    <2> QED
      BY <1>1, <1>2, <2>1, PopStep, Zenon
  <1>4. CASE call.closing # << >>
    <2>1. PICK rest : rest = Tail(call.closing)
      BY Zenon
    <2>2. PICK h : h = Head(call.closing)
      OBVIOUS
    <2>3. PICK c : c = [call EXCEPT !.closing = rest]
      BY Zenon
    <2>4. call \in CallRecord /\ call.closing \in Seq(Nat) /\ TypeInv
      BY <1>1, <1>2, TopCall DEF IInv, CallRecord
    <2>5. /\ rest \in Seq(Nat) /\ Len(rest) \in Nat /\ Len(call.closing) = Len(rest) + 1
          /\ \A i \in 1..Len(rest) : rest[i] = call.closing[i + 1]
          /\ h = call.closing[1]
      BY <1>4, <2>1, <2>2, <2>4, RestOf, Zenon
    <2>6. /\ c \in CallRecord /\ c.id = call.id /\ c.refs = call.refs /\ c.pc = "closing"
          /\ c.vec = call.vec /\ c.errno = call.errno /\ c.closing = rest
      BY <1>2, <2>3, <2>4, <2>5, Zenon DEF CallRecord
    <2>7. opened' = [opened EXCEPT ![h].open = FALSE] /\ SetTop(t, c)
      BY <1>1, <1>4, <2>1, <2>2, <2>3 DEF endCall
    <2>8. h \in 1..Len(opened)
      <3>1. CallInv(call)
        BY <1>1, <1>2, TopInv
      <3>2. \A k \in 1..Len(call.closing) : call.closing[k] \in 1..Len(opened)
        BY <1>2, <3>1 DEF CallInv, ClosingInv, Owned
      <3>3. 1 \in 1..Len(call.closing)
        BY <2>5
      <3> QED
        BY <2>5, <3>2, <3>3, Zenon
    <2>9. ClosesOnly(h)
      BY <2>4, <2>7, <2>8, ClosedIterator, Zenon
    <2> QED
      BY <1>1, <1>2, <2>5, <2>6, <2>7, <2>9, CloseStep, Zenon
  <1> QED
    BY <1>3, <1>4

\* A record with the fields of a call that starts.
LEMMA StartedRecord ==
  ASSUME NEW id \in Nat, NEW gas \in Int, NEW vec \in [Role -> Int],
         NEW refs \in Seq(Ref), NEW closing \in Seq(Nat)
  PROVE  [id |-> id, pc |-> "wasm", gas |-> gas, refs |-> refs, goError |-> "None",
          errno |-> "Success", vec |-> vec, closing |-> closing] \in CallRecord
  <1>1. "wasm" \in Stage /\ "None" \in GoError /\ "Success" \in {"Success", "Other", "OutOfGas"}
    BY DEF Stage, GoError
  <1> QED
    BY <1>1 DEF CallRecord

\* The call that starts.
LEMMA StartedCall ==
  ASSUME IInv, latestCallID < MaxCall, NEW c, c = Call(latestCallID + 1)
  PROVE  /\ c \in CallRecord /\ c.id = latestCallID + 1 /\ c.pc = "wasm" /\ c.refs = << >>
         /\ VecInv(c)
  <1>1. latestCallID \in Nat /\ Gas[latestCallID + 1] \in Int
    BY VmCallsAssumption DEF IInv, TypeInv
  <1>2. << >> \in Seq(Ref) /\ << >> \in Seq(Nat)
    OBVIOUS
  <1>3. [r \in Role |-> 0] \in [Role -> Int] /\ latestCallID + 1 \in Nat
    BY <1>1
  <1>5. c = [id |-> latestCallID + 1, pc |-> "wasm", gas |-> Gas[latestCallID + 1],
             refs |-> << >>, goError |-> "None", errno |-> "Success",
             vec |-> [r \in Role |-> 0], closing |-> << >>]
    BY DEF Call
  <1>6. c \in CallRecord
    <2>1. PICK n, gas, vec, refs, closing :
            /\ n = latestCallID + 1 /\ gas = Gas[latestCallID + 1] /\ vec = [r \in Role |-> 0]
            /\ refs = << >> /\ closing = << >>
      BY Zenon
    <2>2. /\ n \in Nat /\ gas \in Int /\ vec \in [Role -> Int]
          /\ refs \in Seq(Ref) /\ closing \in Seq(Nat)
      BY <1>1, <1>2, <1>3, <2>1, Zenon
    <2>3. c = [id |-> n, pc |-> "wasm", gas |-> gas, refs |-> refs, goError |-> "None",
               errno |-> "Success", vec |-> vec, closing |-> closing]
      BY <1>5, <2>1, Zenon
    <2> QED
      BY <2>2, <2>3, StartedRecord, Zenon
  <1>7. /\ c.id = latestCallID + 1 /\ c.pc = "wasm" /\ c.refs = << >>
        /\ c.errno = "Success" /\ c.vec = [r \in Role |-> 0]
    BY <1>5
  <1>8. \A r \in Role : c.vec[r] = 0
    BY <1>7
  <1> QED
    BY <1>6, <1>7, <1>8 DEF VecInv

\* A query that calls a contract goes on as it was.
LEMMA QueriedCall ==
  ASSUME NEW d \in CallRecord, d.pc = "querying"
  PROVE  /\ [d EXCEPT !.pc = "queried"] \in CallRecord
         /\ Continues(d, [d EXCEPT !.pc = "queried"])
  <1>1. "queried" \in Stage
    BY DEF Stage
  <1>2. [d EXCEPT !.pc = "queried"] \in CallRecord
    BY <1>1, Zenon DEF CallRecord
  <1> QED
    BY <1>2, Zenon DEF Continues, CallRecord

\* A call that starts goes on top of the stack of its thread.
LEMMA StartedStack ==
  ASSUME IInv, NEW t \in Thread, startCall(t), NEW c, c = Call(latestCallID + 1)
  PROVE  /\ stacks' \in [Thread -> Seq(CallRecord)]
         /\ \A u \in Thread : /\ Len(stacks[u]) \in Nat
                              /\ Len(stacks'[u]) = IF u = t THEN Len(stacks[u]) + 1 ELSE Len(stacks[u])
         /\ \A u \in Thread : \A i \in 1..Len(stacks[u]) :
              Continues(stacks[u][i], stacks'[u][i])
         /\ stacks'[t][Len(stacks[t]) + 1] = c
  <1> DEFINE q == stacks[t]
             n == Len(q)
             base == IF q # << >> THEN [q EXCEPT ![n].pc = "queried"] ELSE q
  <1>0. TypeInv /\ latestCallID < MaxCall
    BY DEF IInv, startCall
  <1>1. q \in Seq(CallRecord) /\ n \in Nat
    BY <1>0, LenProperties DEF TypeInv
  <1>2. c \in CallRecord
    BY <1>0, StartedCall
  <1>3. /\ base \in Seq(CallRecord) /\ Len(base) = n
        /\ \A i \in 1..n : Continues(q[i], base[i])
    <2>1. CASE q = << >>
      BY <1>1, <2>1 DEF Continues
    <2>2. CASE q # << >>
      <3>1. n \in 1..n /\ q[n] \in CallRecord /\ q[n].pc = "querying"
        BY <1>0, <2>2, TopCall DEF startCall
      <3>2. PICK d : d = [q[n] EXCEPT !.pc = "queried"]
        BY Zenon
      <3>3. d \in CallRecord /\ Continues(q[n], d)
        BY <3>1, <3>2, QueriedCall
      <3>4. base = [q EXCEPT ![n] = d]
        BY <2>2, <3>2
      <3> HIDE DEF base, n, q
      <3>5. PICK b : b = [q EXCEPT ![n] = d]
        BY Zenon
      <3>6. /\ b \in Seq(CallRecord) /\ Len(b) = Len(q)
            /\ \A i \in 1..Len(q) : b[i] = IF i = n THEN d ELSE q[i]
        BY <1>1, <3>1, <3>3, <3>5, ExceptSeq DEF n
      <3>7. \A i \in 1..n : Continues(q[i], b[i])
        BY <3>3, <3>6 DEF n, Continues
      <3> QED
        BY <3>4, <3>5, <3>6, <3>7, Zenon DEF n
    <2> QED
      BY <2>1, <2>2
  <1>4. stacks' = [stacks EXCEPT ![t] = Append(base, c)]
    BY DEF startCall, NewCallID
  <1> HIDE DEF base
  <1>5. PICK a : a = Append(base, c)
    BY Zenon
  <1>6. /\ a \in Seq(CallRecord) /\ Len(a) = n + 1 /\ a[n + 1] = c
        /\ \A i \in 1..n : a[i] = base[i]
    BY <1>1, <1>2, <1>3, <1>5, AppendProperties
  <1>7. \A u \in Thread : stacks'[u] = IF u = t THEN a ELSE stacks[u]
    BY <1>0, <1>4, <1>5 DEF TypeInv
  <1>8. stacks' \in [Thread -> Seq(CallRecord)]
    BY <1>0, <1>4, <1>5, <1>6 DEF TypeInv
  <1>9. ASSUME NEW u \in Thread
        PROVE  /\ Len(stacks[u]) \in Nat
               /\ Len(stacks'[u]) = IF u = t THEN Len(stacks[u]) + 1 ELSE Len(stacks[u])
    <2>1. Len(stacks[u]) \in Nat
      BY <1>0, LenProperties DEF TypeInv
    <2>2. CASE u = t
      BY <1>6, <1>7, <2>1, <2>2
    <2>3. CASE u # t
      BY <1>7, <2>1, <2>3
    <2> QED
      BY <2>1, <2>2, <2>3
  <1>10. ASSUME NEW u \in Thread, NEW i \in 1..Len(stacks[u])
         PROVE  Continues(stacks[u][i], stacks'[u][i])
    <2>1. CASE u = t
      BY <1>3, <1>6, <1>7, <2>1
    <2>2. CASE u # t
      BY <1>7, <2>2 DEF Continues
    <2> QED
      BY <2>1, <2>2
  <1>11. stacks'[t][n + 1] = c
    BY <1>6, <1>7
  <1> QED
    BY <1>8, <1>9, <1>10, <1>11, Zenon

\* A call starts with an id that no frame and no other call has.
LEMMA startCallStep ==
  ASSUME IInv, NEW t \in Thread, startCall(t)
  PROVE  IInv'
  <1> DEFINE n == Len(stacks[t])
  <1>0. TypeInv /\ CallsInv /\ IdsInv /\ FramesInv
    BY DEF IInv
  <1>1. /\ latestCallID' = latestCallID + 1 /\ latestCallID < MaxCall
        /\ UNCHANGED <<iteratorFrames, opened>> /\ latestCallID \in Nat
    BY <1>0 DEF startCall, TypeInv
  <1>2. PICK c : c = Call(latestCallID + 1)
    OBVIOUS
  <1>3. /\ c \in CallRecord /\ c.id = latestCallID + 1 /\ c.pc = "wasm" /\ c.refs = << >>
        /\ VecInv(c)
    BY <1>1, <1>2, StartedCall
  <1>4. /\ stacks' \in [Thread -> Seq(CallRecord)]
        /\ \A u \in Thread : /\ Len(stacks[u]) \in Nat
                             /\ Len(stacks'[u]) = IF u = t THEN Len(stacks[u]) + 1 ELSE Len(stacks[u])
        /\ \A u \in Thread : \A i \in 1..Len(stacks[u]) :
             Continues(stacks[u][i], stacks'[u][i])
        /\ stacks'[t][n + 1] = c
    BY <1>2, StartedStack, Zenon
  <1> HIDE DEF n
  <1>5. ASSUME NEW u \in Thread, NEW i \in 1..Len(stacks'[u])
        PROVE  i \in 1..Len(stacks[u]) \/ (u = t /\ i = n + 1)
    <2>1. Len(stacks[u]) \in Nat
      BY <1>4
    <2>2. CASE u = t
      <3>1. Len(stacks'[u]) = Len(stacks[u]) + 1
        BY <1>4, <2>2
      <3> QED
        BY <2>1, <2>2, <3>1 DEF n
    <2>3. CASE u # t
      <3>1. Len(stacks'[u]) = Len(stacks[u])
        BY <1>4, <2>3
      <3> QED
        BY <3>1
    <2> QED
      BY <2>2, <2>3
  <1>6. \A u \in Thread : \A i \in 1..Len(stacks[u]) :
          /\ stacks[u][i].id \in Nat /\ stacks[u][i].id <= latestCallID
          /\ stacks'[u][i].id = stacks[u][i].id /\ stacks[u][i].id # c.id
    <2> SUFFICES ASSUME NEW u \in Thread, NEW i \in 1..Len(stacks[u])
                 PROVE  /\ stacks[u][i].id \in Nat /\ stacks[u][i].id <= latestCallID
                        /\ stacks'[u][i].id = stacks[u][i].id /\ stacks[u][i].id # c.id
      OBVIOUS
    <2>1. stacks[u][i].id <= latestCallID
      BY <1>0 DEF CallsInv, CallInv
    <2>2. stacks[u][i] \in CallRecord
      BY <1>0, ElementOfSeq DEF TypeInv
    <2>3. stacks[u][i].id \in Nat
      BY <2>2 DEF CallRecord
    <2>4. stacks'[u][i].id = stacks[u][i].id
      BY <1>4 DEF Continues
    <2> QED
      BY <1>1, <1>3, <2>1, <2>3, <2>4
  <1>7. c.id \notin DOMAIN iteratorFrames
    BY <1>0, <1>6, Zenon DEF FramesInv
  <1>8. TypeInv'
    BY <1>0, <1>1, <1>4 DEF TypeInv
  <1>9. CallInv(c)'
    <2>1. Frame(c.id)' = << >>
      BY <1>1, <1>7 DEF Frame
    <2>2. RefsInv(c)'
      BY <1>3, <2>1 DEF RefsInv
    <2>3. c.id <= latestCallID'
      BY <1>1, <1>3
    <2> QED
      BY <1>3, <2>2, <2>3 DEF CallInv, VecInv
  <1>10. CallsInv'
    <2> SUFFICES ASSUME NEW u \in Thread, NEW i \in 1..Len(stacks'[u]),
                        NEW e, e = stacks'[u][i]
                 PROVE  CallInv(e)'
      BY DEF CallsInv
    <2>1. CASE u = t /\ i = n + 1
      BY <1>4, <1>9, <2>1
    <2>2. CASE i \in 1..Len(stacks[u])
      <3>1. PICK d : d = stacks[u][i]
        OBVIOUS
      <3>2. Continues(d, e) /\ CallInv(d)
        BY <1>0, <1>4, <2>2, <3>1 DEF CallsInv
      <3>3. e.id <= latestCallID'
        <4>1. d.id \in Nat /\ d.id <= latestCallID /\ e.id = d.id
          BY <1>6, <2>2, <3>1
        <4> QED
          BY <1>1, <4>1
      <3> QED
        BY <1>1, <3>2, <3>3, ContinuesKept
    <2> QED
      BY <1>5, <2>1, <2>2
  <1>11. IdsInv'
    <2> SUFFICES ASSUME NEW u \in Thread, NEW v \in Thread,
                        NEW i \in 1..Len(stacks'[u]), NEW j \in 1..Len(stacks'[v]),
                        stacks'[u][i].id = stacks'[v][j].id
                 PROVE  u = v /\ i = j
      BY DEF IdsInv
    <2>1. CASE i \in 1..Len(stacks[u]) /\ j \in 1..Len(stacks[v])
      BY <1>0, <1>6, <2>1 DEF IdsInv
    <2>2. CASE i \in 1..Len(stacks[u]) /\ v = t /\ j = n + 1
      BY <1>4, <1>6, <2>2
    <2>3. CASE j \in 1..Len(stacks[v]) /\ u = t /\ i = n + 1
      BY <1>4, <1>6, <2>3
    <2>4. CASE u = t /\ v = t /\ i = n + 1 /\ j = n + 1
      BY <2>4
    <2> QED
      BY <1>5, <2>1, <2>2, <2>3, <2>4
  <1>12. FramesInv'
    <2> SUFFICES ASSUME NEW id \in DOMAIN iteratorFrames
                 PROVE  /\ Owned(iteratorFrames[id], id)'
                        /\ \E u \in Thread : \E i \in 1..Len(stacks'[u]) :
                             stacks'[u][i].id = id /\ stacks'[u][i].pc # "closing"
      BY <1>1 DEF FramesInv
    <2>1. Owned(iteratorFrames[id], id)
      BY <1>0 DEF FramesInv
    <2>2. Owned(iteratorFrames[id], id)'
      BY <1>1, <2>1, Zenon DEF Owned
    <2>3. PICK u \in Thread : \E i \in 1..Len(stacks[u]) :
            stacks[u][i].id = id /\ stacks[u][i].pc # "closing"
      BY <1>0 DEF FramesInv
    <2>4. PICK i \in 1..Len(stacks[u]) :
            stacks[u][i].id = id /\ stacks[u][i].pc # "closing"
      BY <2>3
    <2>5. i \in 1..Len(stacks'[u])
      <3>1. /\ Len(stacks[u]) \in Nat
            /\ Len(stacks'[u]) \in {Len(stacks[u]), Len(stacks[u]) + 1}
        BY <1>4
      <3> QED
        BY <3>1
    <2>6. stacks'[u][i].id = id /\ stacks'[u][i].pc # "closing"
      BY <1>4, <2>4, Zenon DEF Continues
    <2> QED
      BY <2>2, <2>5, <2>6
  <1> QED
    BY <1>8, <1>10, <1>11, <1>12 DEF IInv

----------------------------------------------------------------------------
(* The invariant, and what follows from it.                                *)

\* Nothing runs at first.
LEMMA InitInv == Init => IInv
  <1> SUFFICES ASSUME Init PROVE IInv
    OBVIOUS
  <1>1. \A t \in Thread : stacks[t] = << >> /\ Len(stacks[t]) = 0
    BY DEF Init
  <1>2. DOMAIN iteratorFrames = {}
    BY DEF Init
  <1>3. TypeInv
    <2>1. stacks \in [Thread -> Seq(CallRecord)]
      BY DEF Init
    <2>2. opened \in Seq(Opened) /\ latestCallID \in Nat
      BY DEF Init
    <2>3. iteratorFrames \in [DOMAIN iteratorFrames -> Seq(Nat)]
      BY <1>2 DEF Init
    <2> QED
      BY <1>2, <2>1, <2>2, <2>3 DEF TypeInv
  <1>4. CallsInv /\ IdsInv
    BY <1>1 DEF CallsInv, IdsInv
  <1>5. FramesInv
    BY <1>2 DEF FramesInv
  <1> QED
    BY <1>3, <1>4, <1>5 DEF IInv

\* Every step of every thread keeps the invariant.
LEMMA NextInv == IInv /\ [Next]_vars => IInv'
  <1> SUFFICES ASSUME IInv, [Next]_vars PROVE IInv'
    OBVIOUS
  <1>1. CASE UNCHANGED vars
    <2>1. UNCHANGED <<latestCallID, iteratorFrames, opened, stacks>>
      BY <1>1 DEF vars
    <2>2. TypeInv'
      BY <2>1 DEF IInv, TypeInv
    <2>3. IdsInv'
      BY <2>1 DEF IInv, IdsInv
    <2>4. CallsInv'
      <3> SUFFICES ASSUME NEW t \in Thread, NEW i \in 1..Len(stacks[t]),
                          NEW c, c = stacks[t][i]
                   PROVE  CallInv(c)'
        BY <2>1 DEF CallsInv
      <3>1. CallInv(c)
        BY DEF IInv, CallsInv
      <3>2. Continues(c, c) /\ c.id <= latestCallID'
        BY <2>1, <3>1 DEF Continues, CallInv
      <3> QED
        BY <2>1, <3>1, <3>2, ContinuesKept
    <2>5. FramesInv'
      <3> SUFFICES ASSUME NEW id \in DOMAIN iteratorFrames
                   PROVE  /\ Owned(iteratorFrames[id], id)'
                          /\ \E t \in Thread : \E i \in 1..Len(stacks[t]) :
                               stacks[t][i].id = id /\ stacks[t][i].pc # "closing"
        BY <2>1 DEF FramesInv
      <3>1. /\ Owned(iteratorFrames[id], id)
            /\ \E t \in Thread : \E i \in 1..Len(stacks[t]) :
                 stacks[t][i].id = id /\ stacks[t][i].pc # "closing"
        BY DEF IInv, FramesInv
      <3>2. Owned(iteratorFrames[id], id)'
        BY <2>1, <3>1, Zenon DEF Owned
      <3> QED
        BY <3>1, <3>2
    <2> QED
      BY <2>2, <2>3, <2>4, <2>5 DEF IInv
  <1>2. CASE Next
    <2>1. PICK t \in Thread :
            \/ startCall(t) \/ StorageAccess(t) \/ AddressAccess(t)
            \/ cScan(t) \/ cNext(t)
            \/ cQueryExternal(t) \/ QueryReturns(t)
            \/ ToContract(t) \/ ContractReturns(t) \/ ContractFails(t)
            \/ TakeResult(t) \/ removeFrame(t) \/ endCall(t)
      BY <1>2 DEF Next
    <2>2. CASE startCall(t)
      BY <2>2, startCallStep
    <2>3. CASE StorageAccess(t)
      BY <2>3, StorageAccessStep
    <2>4. CASE AddressAccess(t)
      BY <2>4, AddressAccessStep
    <2>5. CASE cScan(t)
      BY <2>5, cScanStep
    <2>6. CASE cNext(t)
      BY <2>6, cNextStep
    <2>7. CASE cQueryExternal(t)
      BY <2>7, cQueryExternalStep
    <2>8. CASE QueryReturns(t)
      BY <2>8, QueryReturnsStep
    <2>9. CASE ToContract(t)
      BY <2>9, ToContractStep
    <2>10. CASE ContractReturns(t)
      BY <2>10, ContractReturnsStep
    <2>11. CASE ContractFails(t)
      BY <2>11, ContractFailsStep
    <2>12. CASE TakeResult(t)
      BY <2>12, TakeResultStep
    <2>13. CASE removeFrame(t)
      BY <2>13, removeFrameStep
    <2>14. CASE endCall(t)
      BY <2>14, endCallStep
    <2> QED
      BY <2>1, <2>2, <2>3, <2>4, <2>5, <2>6, <2>7, <2>8, <2>9, <2>10, <2>11, <2>12,
         <2>13, <2>14
  <1> QED
    BY <1>1, <1>2

\* The inductive invariant holds always, for any threads, depth and limits.
THEOREM VmInvariant == Spec => []IInv
  BY InitInv, NextInv, PTL DEF Spec

\* A running call is somewhere on a stack.
LEMMA RunningCall ==
  ASSUME IInv, NEW call \in Running
  PROVE  /\ call \in CallRecord /\ CallInv(call)
         /\ \E t \in Thread : \E i \in 1..Len(stacks[t]) : call = stacks[t][i]
  <1>1. PICK t \in Thread : call \in Range(stacks[t])
    BY DEF Running
  <1>2. stacks[t] \in Seq(CallRecord)
    BY DEF IInv, TypeInv
  <1>3. DOMAIN stacks[t] = 1..Len(stacks[t])
    BY <1>2, LenProperties
  <1>4. PICK i \in 1..Len(stacks[t]) : call = stacks[t][i]
    BY <1>1, <1>3 DEF Range
  <1>5. call \in CallRecord
    BY <1>2, <1>4, ElementOfSeq
  <1> QED
    BY <1>4, <1>5 DEF IInv, CallsInv

\* ... and what is on a stack is a running call.
LEMMA CallRunning ==
  ASSUME TypeInv, NEW t \in Thread, NEW i \in 1..Len(stacks[t])
  PROVE  stacks[t][i] \in Running
  <1>1. stacks[t] \in Seq(CallRecord)
    BY DEF TypeInv
  <1>2. DOMAIN stacks[t] = 1..Len(stacks[t])
    BY <1>1, LenProperties
  <1>3. stacks[t][i] \in Range(stacks[t])
    BY <1>2 DEF Range
  <1> QED
    BY <1>3 DEF Running

\* A reference that Rust keeps for a contract leads, through the one table
\* all calls share, to the open iterator it was made for, however many
\* threads start calls, scan and end calls meanwhile.
THEOREM IteratorsResolveAlways == Spec => []IteratorsResolve
  <1>1. IInv => IteratorsResolve
    <2> SUFFICES ASSUME IInv, NEW call \in Running, NEW k \in DOMAIN call.refs,
                        call.pc \notin {"ending", "closing"}
                 PROVE  /\ retrieveIterator(call.refs[k]) = call.refs[k].stands
                        /\ opened[call.refs[k].stands].open
      BY DEF IteratorsResolve
    <2>1. call \in CallRecord /\ CallInv(call)
      BY RunningCall
    <2>2. TypeInv /\ FramesInv /\ call.pc # "closing"
      BY DEF IInv
    <2> QED
      BY <2>1, <2>2, Resolve
  <1> QED
    BY <1>1, VmInvariant, PTL

\* The table holds only frames of calls that have not taken theirs out, each
\* with iterators of its own call; and of a call that has, exactly those
\* iterators are open that endCall has yet to close.
THEOREM FramesOfRunningCallsAlways == Spec => []FramesOfRunningCalls
  <1>1. IInv => FramesOfRunningCalls
    <2> SUFFICES ASSUME IInv PROVE FramesOfRunningCalls
      OBVIOUS
    <2>0. TypeInv /\ FramesInv
      BY DEF IInv
    <2>1. ASSUME NEW id \in DOMAIN iteratorFrames
          PROVE  /\ \E call \in Running : call.id = id /\ call.pc # "closing"
                 /\ \A it \in Range(iteratorFrames[id]) : opened[it].call = id
      <3>1. PICK t \in Thread : \E i \in 1..Len(stacks[t]) :
              stacks[t][i].id = id /\ stacks[t][i].pc # "closing"
        BY <2>0 DEF FramesInv
      <3>2. PICK i \in 1..Len(stacks[t]) : stacks[t][i].id = id /\ stacks[t][i].pc # "closing"
        BY <3>1
      <3>3. stacks[t][i] \in Running
        BY <2>0, CallRunning
      <3>4. PICK f : f = iteratorFrames[id]
        OBVIOUS
      <3>5. f \in Seq(Nat) /\ Owned(f, id)
        BY <2>0, <3>4 DEF FramesInv, TypeInv
      <3>6. DOMAIN f = 1..Len(f)
        BY <3>5, LenProperties
      <3>7. \A it \in Range(f) : opened[it].call = id
        BY <3>5, <3>6 DEF Range, Owned
      <3> QED
        BY <3>2, <3>3, <3>4, <3>7
    <2>2. ASSUME NEW call \in Running, call.pc = "closing", NEW k \in DOMAIN call.refs
          PROVE  opened[call.refs[k].stands].open <=> call.refs[k].stands \in Range(call.closing)
      <3>1. call \in CallRecord /\ ClosingInv(call)
        BY <2>2, RunningCall DEF CallInv
      <3>2. call.refs \in Seq(Ref) /\ call.closing \in Seq(Nat)
        BY <3>1 DEF CallRecord
      <3>3. DOMAIN call.refs = 1..Len(call.refs) /\ DOMAIN call.closing = 1..Len(call.closing)
        BY <3>2, LenProperties
      <3>4. opened[call.refs[k].stands].open =>
              \E j \in 1..Len(call.closing) : call.closing[j] = call.refs[k].stands
        BY <3>1, <3>3, Zenon DEF ClosingInv
      <3>5. \A j \in 1..Len(call.closing) : opened[call.closing[j]].open
        BY <3>1, Zenon DEF ClosingInv, Owned
      <3> QED
        BY <3>3, <3>4, <3>5, Zenon DEF Range
    <2> QED
      BY <2>1, <2>2, Zenon DEF FramesOfRunningCalls
  <1> QED
    BY <1>1, VmInvariant, PTL

\* Every vector is destroyed exactly once by the side that must: none is left
\* when the contract goes on or the call ends, none is written over.
THEOREM VectorsDestroyedAlways == Spec => []VectorsDestroyed
  <1>1. IInv => VectorsDestroyed
    <2> SUFFICES ASSUME IInv, NEW call \in Running, NEW r \in Role
                 PROVE  /\ call.vec[r] \in 0..1
                        /\ call.pc \in {"wasm", "querying", "queried", "trapped", "ending",
                                        "closing"} => call.vec[r] = 0
      BY DEF VectorsDestroyed
    <2>1. VecInv(call)
      BY RunningCall DEF CallInv
    <2>2. call.pc \notin {"back", "done"} => call.vec[r] = 0
      BY <2>1 DEF VecInv
    <2>3. call.vec[r] \in 0..1
      <3>1. CASE call.pc = "back"
        BY <2>1, <3>1 DEF VecInv
      <3>2. CASE call.pc = "done"
        BY <2>1, <3>2 DEF VecInv
      <3>3. CASE call.pc \notin {"back", "done"}
        BY <2>2, <3>3
      <3> QED
        BY <3>1, <3>2, <3>3
    <2> QED
      BY <2>2, <2>3
  <1> QED
    BY <1>1, VmInvariant, PTL
============================================================================
