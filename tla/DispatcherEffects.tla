------------------------- MODULE DispatcherEffects -------------------------
(***************************************************************************)
(* What the dispatcher leaves behind, whatever the contracts and their     *)
(* responses and however deep they nest: replies and data, state and       *)
(* events, limits that fit, and all work paid.                             *)
(***************************************************************************)
EXTENDS DispatcherProofs

----------------------------------------------------------------------------
(* Responses: what was replied to, and whose data there is.                *)

\* The contract was told of a submessage as it asked, once.
IsDone(d) == d = [replyOn |-> d.replyOn, ok |-> d.ok, replies |-> d.replies]

DoneOk(d) ==
  /\ IsDone(d)
  /\ d.replies = IF Replies(d.replyOn, d.ok) THEN 1 ELSE 0
  /\ d.ok \/ d.replies = 1

FrameOk(f) == IsSeq(f.done) /\ \A j \in 1..Len(f.done) : DoneOk(f.done[j])

\* The innermost response, while the register holds st: a reply may be due to
\* its last submessage, or the failure of that one be about to end it.
LastOk(d, st) ==
  /\ IsDone(d)
  /\ IF st.op = "reply" THEN Replies(d.replyOn, d.ok) /\ d.replies = 0
     ELSE /\ d.replies = IF Replies(d.replyOn, d.ok) THEN 1 ELSE 0
          /\ d.ok \/ d.replies = 1 \/ st = Failed

TopOk(f, st) ==
  /\ IsSeq(f.done) /\ (st.op = "reply" => f.done # << >>)
  /\ \A j \in 1..Len(f.done) :
       IF j = Len(f.done) THEN LastOk(f.done[j], st) ELSE DoneOk(f.done[j])

Own(f, ow) == f.data # 0 => f.data \in 1..Len(ow) /\ ow[f.data] = f.contract

FramesOk(fs, st, ow) ==
  /\ \A i \in 1..Len(fs) : IF i = Len(fs) THEN TopOk(fs[i], st) ELSE FrameOk(fs[i])
  /\ \A i \in 1..Len(fs) : Own(fs[i], ow)
  /\ \A i \in 1..Len(fs) : fs[i].isReply => i > 1 /\ fs[i - 1].contract = fs[i].contract

FInv ==
  /\ FramesOk(frames, step, owner)
  /\ IsSeq(owner) /\ Len(owner) = nextRun - 1

\* With no reply due and no failure, the innermost response is as the others.
LEMMA TopIsOk ==
  ASSUME NEW f, NEW st, TopOk(f, st), st.op # "reply", st # Failed
  PROVE  FrameOk(f)
  BY Zenon DEF TopOk, FrameOk, LastOk, DoneOk

\* And the other way round.
LEMMA OkIsTop ==
  ASSUME NEW f, NEW st, FrameOk(f), st.op # "reply"
  PROVE  TopOk(f, st)
  BY Zenon DEF TopOk, FrameOk, LastOk, DoneOk

Grown(ow, new) == \A i \in 1..Len(ow) : i \in 1..Len(new) /\ new[i] = ow[i]

\* The stack changes at its top, and owners are added.
LEMMA FramesEnd ==
  ASSUME NEW fs, NEW st, NEW ow, FramesOk(fs, st, ow), IsSeq(fs),
         NEW new, Grown(ow, new), NEW n, NEW x, NEW q, Ends(q, fs, n, x),
         n - 1 = Len(fs) => st.op # "reply" /\ st # Failed,
         NEW u, TopOk(x, u), Own(x, new),
         x.isReply => n > 1 /\ fs[n - 1].contract = x.contract
  PROVE  FramesOk(q, u, new)
  <1>1. /\ n \in Nat \ {0} /\ Len(q) = n /\ n - 1 <= Len(fs) /\ Len(fs) \in Nat
        /\ q[n] = x /\ \A i \in 1..(n - 1) : q[i] = fs[i]
    BY DEF Ends, IsSeq
  <1>2. \A i \in 1..n : i = n \/ (i \in 1..(n - 1) /\ i \in 1..Len(fs))
    BY <1>1
  <1>3. \A i \in 1..(n - 1) : FrameOk(fs[i])
    <2> SUFFICES ASSUME NEW i \in 1..(n - 1) PROVE FrameOk(fs[i])
      OBVIOUS
    <2>1. i \in 1..Len(fs) /\ (i = Len(fs) => n - 1 = Len(fs))
      BY <1>1
    <2>2. IF i = Len(fs) THEN TopOk(fs[i], st) ELSE FrameOk(fs[i])
      BY <2>1 DEF FramesOk
    <2> QED
      BY <2>1, <2>2, TopIsOk, Zenon
  <1>4. \A i \in 1..n : i \in 1..(n - 1) => i # n
    BY <1>1
  <1>5. \A i \in 1..n : IF i = n THEN TopOk(q[i], u) ELSE FrameOk(q[i])
    BY <1>1, <1>2, <1>3, <1>4, Zenon
  <1>6. \A i \in 1..Len(fs) : Own(fs[i], new)
    BY Zenon DEF FramesOk, Own, Grown
  <1>7. \A i \in 1..n : Own(q[i], new)
    BY <1>1, <1>2, <1>6, Zenon
  <1>8. ASSUME NEW i \in 1..n, q[i].isReply
        PROVE  i > 1 /\ q[i - 1].contract = q[i].contract
    <2>1. CASE i = n
      <3>1. n > 1 => n - 1 \in 1..(n - 1)
        BY <1>1
      <3> QED
        BY <1>1, <1>8, <2>1, <3>1, Zenon
    <2>2. CASE i \in 1..(n - 1) /\ i \in 1..Len(fs)
      <3>1. i > 1 /\ fs[i - 1].contract = fs[i].contract
        BY <1>1, <1>8, <2>2, Zenon DEF FramesOk
      <3>2. i - 1 \in 1..(n - 1)
        BY <1>1, <2>2, <3>1
      <3> QED
        BY <1>1, <2>2, <3>1, <3>2, Zenon
    <2> QED
      BY <1>2, <2>1, <2>2, Zenon
  <1> QED
    BY <1>1, <1>5, <1>7, <1>8, Zenon DEF FramesOk

\* What is so of the stack without responses.
LEMMA NoFrames ==
  ASSUME NEW st, NEW ow
  PROVE  FramesOk(<< >>, st, ow)
  <1>1. 1..Len(<< >>) = {}
    BY EmptyIsSeq
  <1> QED
    BY <1>1, Zenon DEF FramesOk

\* The innermost response of a stack.
LEMMA FramesTop ==
  ASSUME NEW fs, IsSeq(fs), fs # << >>, NEW st, NEW ow, FramesOk(fs, st, ow)
  PROVE  /\ TopOk(Last(fs), st) /\ Own(Last(fs), ow) /\ Last(fs) = fs[Len(fs)]
         /\ Last(fs).isReply => Len(fs) > 1 /\ fs[Len(fs) - 1].contract = Last(fs).contract
  <1>1. Len(fs) \in Nat \ {0} /\ Len(fs) \in 1..Len(fs)
    BY LenZero DEF IsSeq
  <1> QED
    BY <1>1, Zenon DEF FramesOk, Last

\* The innermost response is taken off, and the one below goes on.
LEMMA FramesPop ==
  ASSUME NEW fs, IsSeq(fs), fs # << >>, NEW st, NEW ow, FramesOk(fs, st, ow),
         NEW u, u.op # "reply"
  PROVE  FramesOk(Front(fs), u, ow)
  <1>1. Len(fs) \in Nat
    BY DEF IsSeq
  <1>2. Grown(ow, ow)
    BY Zenon DEF Grown
  <1>3. CASE Len(fs) > 1 /\ Ends(Front(fs), fs, Len(fs) - 1, fs[Len(fs) - 1])
    <2>1. PICK m \in Nat \ {0} : m = Len(fs) - 1 /\ m \in 1..Len(fs) /\ m # Len(fs) /\ m - 1 # Len(fs)
      BY <1>1, <1>3
    <2>2. TopOk(fs[m], u) /\ Own(fs[m], ow)
      BY <2>1, OkIsTop, Zenon DEF FramesOk
    <2>3. fs[m].isReply => m > 1 /\ fs[m - 1].contract = fs[m].contract
      BY <2>1, Zenon DEF FramesOk
    <2>4. Ends(Front(fs), fs, m, fs[m])
      BY <1>3, <2>1, Zenon
    <2>5. m - 1 = Len(fs) => st.op # "reply" /\ st # Failed
      BY <2>1, Zenon
    <2> QED
      BY <1>2, <2>2, <2>3, <2>4, <2>5, FramesEnd, ZenonT(60)
  <1>4. CASE Front(fs) = << >>
    BY <1>4, NoFrames, Zenon
  <1> QED
    BY <1>3, <1>4, PopEnds, Zenon

\* The responses stay, and the register changes.
LEMMA FramesStay ==
  ASSUME NEW fs, IsSeq(fs), NEW st, NEW ow, FramesOk(fs, st, ow),
         st.op # "reply", st # Failed, NEW new, Grown(ow, new), NEW u, u.op # "reply"
  PROVE  FramesOk(fs, u, new)
  <1>1. CASE fs = << >>
    BY <1>1, NoFrames, Zenon
  <1>2. CASE fs # << >>
    <2>1. Ends(fs, fs, Len(fs), Last(fs))
      BY <1>2, SameEnds, Zenon
    <2>2. /\ TopOk(Last(fs), st) /\ Own(Last(fs), ow)
          /\ Last(fs).isReply => Len(fs) > 1 /\ fs[Len(fs) - 1].contract = Last(fs).contract
      BY <1>2, FramesTop, Zenon
    <2>3. TopOk(Last(fs), u)
      BY <2>2, TopIsOk, OkIsTop, Zenon
    <2>4. Own(Last(fs), new)
      BY <2>2, Zenon DEF Own, Grown
    <2> QED
      BY <2>1, <2>2, <2>3, <2>4, FramesEnd, Zenon
  <1> QED
    BY <1>1, <1>2

\* The innermost response is replaced by one like it.
LEMMA FramesSet ==
  ASSUME NEW fs, IsSeq(fs), fs # << >>, NEW st, NEW ow, FramesOk(fs, st, ow),
         NEW g, Like(g, Last(fs)), NEW q, Replaces(q, fs, g),
         NEW u, TopOk(g, u), Own(g, ow)
  PROVE  FramesOk(q, u, ow) /\ IsSeq(q)
  <1>1. Ends(q, fs, Len(fs), g) /\ Len(fs) \in Nat \ {0} /\ IsSeq(q)
    <2>1. Ends(q, fs, Len(fs), g) /\ Len(fs) \in Nat \ {0}
      BY ReplaceEnds, Zenon
    <2> QED
      BY <2>1, Zenon DEF Ends
  <1>2. Len(fs) - 1 # Len(fs)
    BY <1>1
  <1>3. g.isReply => Len(fs) > 1 /\ fs[Len(fs) - 1].contract = g.contract
    BY FramesTop, Zenon DEF Like
  <1>4. Grown(ow, ow)
    BY Zenon DEF Grown
  <1> QED
    BY <1>1, <1>2, <1>3, <1>4, FramesEnd, Zenon

\* A run is the contract's own.
LEMMA UsesOwner ==
  ASSUME nextRun \in Nat \ {0}, IsSeq(owner), Len(owner) = nextRun - 1,
         NEW c, NEW gas, Uses(c, gas)
  PROVE  /\ IsSeq(owner') /\ Len(owner') = nextRun' - 1 /\ Grown(owner, owner')
         /\ nextRun \in 1..Len(owner') /\ owner'[nextRun] = c
  <1>1. owner' = Append(owner, c) /\ nextRun' = nextRun + 1
    BY DEF Uses
  <1>2. /\ IsSeq(owner') /\ Len(owner') = Len(owner) + 1 /\ owner'[Len(owner) + 1] = c
        /\ \A i \in 1..Len(owner) : owner'[i] = owner[i]
    BY <1>1, AppendIsSeq, ZenonT(60)
  <1>3. Len(owner') = nextRun /\ owner'[nextRun] = c
    BY <1>2
  <1>4. nextRun \in 1..nextRun /\ nextRun = nextRun' - 1 /\ \A i \in 1..(nextRun - 1) : i \in 1..nextRun
    BY <1>1
  <1> QED
    BY <1>2, <1>3, <1>4, Zenon DEF Grown

\* The response of a run.
LEMMA NewFields ==
  ASSUME NEW c, NEW msgs, NEW data, NEW isReply \in BOOLEAN, NEW st, st.op # "reply", NEW g,
         g = [contract |-> c, msgs |-> msgs, inFlight |-> NoMsg, limited |-> FALSE,
              data |-> data, isReply |-> isReply, done |-> << >>]
  PROVE  /\ g.contract = c /\ (g.isReply <=> isReply) /\ g.data = data /\ TopOk(g, st)
         /\ g.inFlight = NoMsg /\ ~g.limited
  <1>1. /\ g.contract = c /\ g.isReply = isReply /\ g.data = data /\ g.done = << >>
        /\ g.inFlight = NoMsg /\ g.limited = FALSE
    OBVIOUS
  <1>2. IsSeq(g.done) /\ 1..Len(g.done) = {}
    BY <1>1, EmptyIsSeq
  <1>3. TopOk(g, st)
    BY <1>2, Zenon DEF TopOk
  <1> QED
    BY <1>1, <1>3, Zenon

\* A run, of a reply or of a message, from the responses fs.
LEMMA RunFrames ==
  ASSUME nextRun \in Nat \ {0}, IsSeq(owner), Len(owner) = nextRun - 1,
         NEW fs, IsSeq(fs), NEW st, st.op # "reply", st # Failed, FramesOk(fs, st, owner),
         NEW c, NEW gas, NEW isReply \in BOOLEAN, ContractRuns(fs, c, gas, isReply),
         isReply => fs # << >> /\ Last(fs).contract = c
  PROVE  FInv'
  <1>1. /\ IsSeq(owner') /\ Len(owner') = nextRun' - 1 /\ Grown(owner, owner')
        /\ nextRun \in 1..Len(owner') /\ owner'[nextRun] = c
    <2>1. Uses(c, gas)
      BY Zenon DEF ContractRuns
    <2> QED
      BY <2>1, UsesOwner
  <1>2. CASE /\ frames' = fs
             /\ step' \in {OutOfGas, Panic, IF isReply THEN Failed ELSE Done(FALSE, 0)}
    <2>1. step'.op # "reply"
      BY <1>2, StepKinds, Zenon
    <2>2. FramesOk(frames', step', owner')
      BY <1>1, <1>2, <2>1, FramesStay, Zenon
    <2> QED
      BY <1>1, <2>2, Zenon DEF FInv
  <1>3. CASE /\ step' = Loop
             /\ \E msgs \in Response, withData \in WithData :
                  frames' = Append(fs,
                    [contract |-> c, msgs |-> msgs, inFlight |-> NoMsg, limited |-> FALSE,
                     data |-> IF withData THEN nextRun ELSE 0, isReply |-> isReply,
                     done |-> << >>])
    <2>1. PICK data \in {nextRun, 0} : \E msgs :
            frames' = Append(fs,
              [contract |-> c, msgs |-> msgs, inFlight |-> NoMsg, limited |-> FALSE,
               data |-> data, isReply |-> isReply, done |-> << >>])
      BY <1>3, Zenon
    <2>2. PICK msgs :
            frames' = Append(fs,
              [contract |-> c, msgs |-> msgs, inFlight |-> NoMsg, limited |-> FALSE,
               data |-> data, isReply |-> isReply, done |-> << >>])
      BY <2>1, Zenon
    <2>3. PICK g : g = [contract |-> c, msgs |-> msgs, inFlight |-> NoMsg,
                        limited |-> FALSE, data |-> data, isReply |-> isReply,
                        done |-> << >>]
      BY Zenon
    <2>4. step'.op # "reply"
      BY <1>3, StepKinds
    <2>5. g.contract = c /\ (g.isReply <=> isReply) /\ g.data = data /\ TopOk(g, step')
      BY <2>3, <2>4, NewFields
    <2>6. Own(g, owner')
      BY <1>1, <2>5, Zenon DEF Own
    <2>7. Ends(frames', fs, Len(fs) + 1, g)
      BY <2>2, <2>3, PushEnds, Zenon
    <2>8. g.isReply => Len(fs) + 1 > 1 /\ fs[(Len(fs) + 1) - 1].contract = g.contract
      <3>1. Len(fs) \in Nat /\ (fs # << >> => Len(fs) # 0)
        BY LenZero DEF IsSeq
      <3>2. (Len(fs) + 1) - 1 = Len(fs) /\ (fs # << >> => Len(fs) + 1 > 1)
        BY <3>1
      <3> QED
        BY <2>5, <3>2, Zenon DEF Last
    <2>9. FramesOk(frames', step', owner')
      BY <1>1, <2>5, <2>6, <2>7, <2>8, FramesEnd, ZenonT(60)
    <2> QED
      BY <1>1, <2>9, Zenon DEF FInv
  <1> QED
    BY <1>2, <1>3, Zenon DEF ContractRuns

\* The stack of responses, and its top.
LEMMA StackTop ==
  ASSUME IInv, FInv
  PROVE  /\ IsSeq(frames) /\ FramesOk(frames, step, owner) /\ nextRun \in Nat \ {0}
         /\ IsSeq(owner) /\ Len(owner) = nextRun - 1 /\ Grown(owner, owner)
         /\ frames # << >> => /\ IsFrame(Top) /\ Len(frames) \in 1..Len(frames)
                              /\ Top = frames[Len(frames)] /\ Top = Last(frames)
                              /\ TopOk(Top, step) /\ Own(Top, owner)
  <1>1. /\ IsSeq(frames) /\ FramesOk(frames, step, owner) /\ nextRun \in Nat \ {0}
        /\ IsSeq(owner) /\ Len(owner) = nextRun - 1 /\ Grown(owner, owner) /\ IsStack(frames)
    BY Zenon DEF IInv, IsStack, FInv, Grown
  <1>2. ASSUME frames # << >>
        PROVE  /\ IsFrame(Top) /\ Len(frames) \in 1..Len(frames)
               /\ Top = frames[Len(frames)] /\ Top = Last(frames)
               /\ TopOk(Top, step) /\ Own(Top, owner)
    BY <1>1, <1>2, LastFrame, FramesTop, Zenon DEF Top
  <1> QED
    BY <1>1, <1>2, Zenon

\* Every run of a message.
LEMMA ExecuteFrames ==
  ASSUME IInv, FInv, NEW c, NEW gas, Execute(c, gas)
  PROVE  FInv'
  <1>1. step.op = "run" /\ step.op # "reply" /\ step # Failed
    BY StepKinds, Zenon DEF Execute
  <1>2. ContractRuns(frames, c, gas, FALSE)
    BY Zenon DEF Execute
  <1> QED
    BY <1>1, <1>2, StackTop, RunFrames, Zenon

\* Any other message leaves the responses as they are.
LEMMA HandleSdkMessageFrames ==
  ASSUME IInv, FInv, NEW gas, HandleSdkMessage(gas)
  PROVE  FInv'
  <1>1. step.op = "run" /\ step.op # "reply" /\ step # Failed
    BY StepKinds, Zenon DEF HandleSdkMessage
  <1>2. Uses(NoMsg, gas) /\ frames' = frames
    BY Zenon DEF HandleSdkMessage
  <1>3. IsSeq(owner') /\ Len(owner') = nextRun' - 1 /\ Grown(owner, owner')
    BY <1>2, StackTop, UsesOwner, Zenon
  <1>4. step'.op # "reply"
    BY StepKinds, Zenon DEF HandleSdkMessage
  <1>5. FramesOk(frames', step', owner')
    BY <1>1, <1>2, <1>3, <1>4, StackTop, FramesStay, Zenon
  <1> QED
    BY <1>3, <1>5, Zenon DEF FInv

\* One more reply to the last submessage, which was due.
LEMMA RepliedOk ==
  ASSUME NEW f, NEW st, TopOk(f, st), st.op = "reply", NEW g, g.done = Replied(f.done)
  PROVE  FrameOk(g)
  <1>1. IsSeq(f.done) /\ f.done # << >>
    BY Zenon DEF TopOk
  <1>2. PICK n \in Nat \ {0} : n = Len(f.done) /\ n \in 1..n
    BY <1>1, LenZero DEF IsSeq
  <1>3. PICK d : d = f.done[n] /\ IsDone(d) /\ Replies(d.replyOn, d.ok) /\ d.replies = 0
    BY <1>2, Zenon DEF TopOk, LastOk
  <1>4. PICK e : e = [d EXCEPT !.replies = d.replies + 1]
    BY Zenon
  <1>5. Replaces(g.done, f.done, e)
    BY <1>2, <1>3, <1>4 DEF Replaces, Replied
  <1>6. e = [replyOn |-> d.replyOn, ok |-> d.ok, replies |-> d.replies + 1]
    BY <1>3, <1>4, Zenon DEF IsDone
  <1>7. IsDone(e) /\ e.replies = 1 /\ e.replyOn = d.replyOn /\ e.ok = d.ok
    BY <1>3, <1>6 DEF IsDone
  <1>8. DoneOk(e)
    BY <1>3, <1>7, Zenon DEF DoneOk
  <1>9. /\ IsSeq(g.done) /\ Len(g.done) = n
        /\ \A j \in 1..n : g.done[j] = IF j = n THEN e ELSE f.done[j]
    BY <1>1, <1>2, <1>5, ReplaceIsSeq
  <1>10. \A j \in 1..n : j # n => DoneOk(f.done[j])
    BY <1>2, Zenon DEF TopOk
  <1> QED
    BY <1>8, <1>9, <1>10, Zenon DEF FrameOk

\* The reply that was due is counted, and it adds a response of its own.
LEMMA ReplyFrames ==
  ASSUME IInv, FInv, NEW gas, Reply(gas)
  PROVE  FInv'
  <1>1. step.op = "reply" /\ Loop.op # "reply" /\ Loop # Failed
    BY StepKinds DEF Reply
  <1>2. frames # << >>
    BY <1>1 DEF IInv, StepInv
  <1>3. PICK e : e = Replied(Top.done)
    OBVIOUS
  <1>4. PICK g : g = Answered(Top, e)
    OBVIOUS
  <1>5. PICK fs : /\ fs = [frames EXCEPT ![Len(frames)].done = Replied(@)]
                  /\ ContractRuns(fs, Top.contract, gas, TRUE)
    BY Zenon DEF Reply
  <1>6. Replaces(fs, frames, g)
    BY <1>2, <1>3, <1>4, <1>5, StackTop, Zenon DEF Replaces, Answered
  <1>7. Like(g, Top) /\ g.data = Top.data /\ g.done = e
    BY <1>2, <1>4, StackTop, AnsweredFields
  <1>8. TopOk(g, Loop)
    BY <1>1, <1>2, <1>3, <1>7, StackTop, RepliedOk, OkIsTop, Zenon
  <1>9. Own(g, owner)
    BY <1>2, <1>7, StackTop, Zenon DEF Own, Like
  <1>10. FramesOk(fs, Loop, owner) /\ IsSeq(fs)
    BY <1>2, <1>6, <1>7, <1>8, <1>9, StackTop, FramesSet, ZenonT(60)
  <1>11. fs # << >> /\ Last(fs).contract = Top.contract
    <2>1. IsSeq(fs) /\ Len(fs) = Len(frames) /\ fs # << >> /\ fs[Len(frames)] = g
      BY <1>2, <1>6, StackTop, ReplaceIsSeq
    <2> QED
      BY <1>7, <2>1, Zenon DEF Last, Like
  <1> QED
    BY <1>1, <1>5, <1>10, <1>11, StackTop, RunFrames, ZenonT(60)

\* The loop dispatches a submessage.
LEMMA DispatchSubmessageFrames ==
  ASSUME IInv, FInv, DispatchSubmessage
  PROVE  FInv'
  <1>1. step.op = "loop" /\ step.op # "reply" /\ step # Failed
    BY StepKinds DEF DispatchSubmessage
  <1>2. frames # << >>
    BY <1>1 DEF IInv, StepInv
  <1>3. PICK limited : limited = LimitGas(Head(Top.msgs).limit, Remaining(Last(meters)))
    BY Zenon
  <1>4. frames' = [frames EXCEPT ![Len(frames)].msgs = Tail(Top.msgs),
                                 ![Len(frames)].inFlight = Head(Top.msgs),
                                 ![Len(frames)].limited = limited]
    BY <1>3, Zenon DEF DispatchSubmessage, Top, Last
  <1>5. PICK g : g = Sent(Top, Tail(Top.msgs), Head(Top.msgs), limited)
    OBVIOUS
  <1>6. Replaces(frames', frames, g)
    BY <1>2, <1>4, <1>5, StackTop, Zenon DEF Replaces, Top, Last, Sent
  <1>7. Like(g, Top) /\ g.data = Top.data /\ g.done = Top.done
    BY <1>2, <1>5, StackTop, SentFields
  <1>8. step'.op # "reply" /\ owner' = owner /\ nextRun' = nextRun
    BY StepKinds, Zenon DEF DispatchSubmessage
  <1>9. TopOk(g, step')
    <2>1. FrameOk(g)
      BY <1>1, <1>2, <1>7, StackTop, TopIsOk, Zenon DEF FrameOk
    <2> QED
      BY <1>8, <2>1, OkIsTop, Zenon
  <1>10. Own(g, owner)
    BY <1>2, <1>7, StackTop, Zenon DEF Own, Like
  <1>11. FramesOk(frames', step', owner)
    BY <1>2, <1>6, <1>7, <1>9, <1>10, StackTop, FramesSet, ZenonT(60)
  <1> QED
    BY <1>8, <1>11, StackTop, Zenon DEF FInv

\* The loop refuses a submessage that asks for a reply of no known kind.
LEMMA RejectSubmessageFrames ==
  ASSUME IInv, FInv, RejectSubmessage
  PROVE  FInv'
  <1>1. step.op = "loop" /\ step.op # "reply" /\ step # Failed /\ step' = Failed /\ step'.op # "reply"
    BY StepKinds DEF RejectSubmessage
  <1>2. UNCHANGED <<frames, owner, nextRun>>
    BY DEF RejectSubmessage
  <1>3. FramesOk(frames, step', owner)
    BY <1>1, StackTop, FramesStay, Zenon
  <1> QED
    BY <1>2, <1>3, StackTop, Zenon DEF FInv

\* The meter of the submessage in flight is left.
LEMMA ReleaseFrames ==
  ASSUME IInv, FInv, frames # << >>, step.op # "reply", step # Failed,
         frames' = [frames EXCEPT ![Len(frames)].limited = FALSE],
         step'.op # "reply", owner' = owner, nextRun' = nextRun
  PROVE  FInv'
  <1>1. PICK g : g = Released(Top)
    OBVIOUS
  <1>2. Replaces(frames', frames, g)
    BY <1>1, StackTop, Zenon DEF Replaces, Released
  <1>3. Like(g, Top) /\ g.data = Top.data /\ g.done = Top.done
    BY <1>1, StackTop, ReleasedFields
  <1>4. FrameOk(g)
    BY <1>3, StackTop, TopIsOk, Zenon DEF FrameOk
  <1>5. TopOk(g, step')
    BY <1>4, OkIsTop, Zenon
  <1>6. Own(g, owner)
    BY <1>3, StackTop, Zenon DEF Own, Like
  <1>7. FramesOk(frames', step', owner)
    BY <1>2, <1>3, <1>5, <1>6, StackTop, FramesSet, ZenonT(60)
  <1> QED
    BY <1>7, StackTop, Zenon DEF FInv

\* The meter of a submessage is charged to the one below.
LEMMA ChargeLimitedFrames ==
  ASSUME IInv, FInv, ChargeLimited
  PROVE  FInv'
  <1>1. step.op = "done" /\ step' \in {OutOfGas, step}
    BY DEF ChargeLimited
  <1>2. step.op # "reply" /\ step # Failed /\ step'.op # "reply"
    BY <1>1, StepKinds
  <1>3. /\ frames # << >> /\ frames' = [frames EXCEPT ![Len(frames)].limited = FALSE]
        /\ owner' = owner /\ nextRun' = nextRun
    BY DEF ChargeLimited
  <1> QED
    BY <1>2, <1>3, ReleaseFrames

\* The limit of a submessage is charged to the meter below.
LEMMA RecoverOutOfGasFrames ==
  ASSUME IInv, FInv, RecoverOutOfGas
  PROVE  FInv'
  <1>1. step = OutOfGas /\ step' \in {OutOfGas, Done(FALSE, 0)}
    BY DEF RecoverOutOfGas
  <1>2. step.op # "reply" /\ step # Failed /\ step'.op # "reply"
    BY <1>1, StepKinds, Zenon
  <1>3. /\ frames # << >> /\ frames' = [frames EXCEPT ![Len(frames)].limited = FALSE]
        /\ owner' = owner /\ nextRun' = nextRun
    BY DEF RecoverOutOfGas
  <1> QED
    BY <1>2, <1>3, ReleaseFrames

\* A submessage is added to those dealt with.
LEMMA SettledOk ==
  ASSUME NEW f, FrameOk(f), NEW d, NEW st, LastOk(d, st), NEW g, g.done = Append(f.done, d)
  PROVE  TopOk(g, st)
  <1>1. IsSeq(f.done) /\ \A j \in 1..Len(f.done) : DoneOk(f.done[j])
    BY Zenon DEF FrameOk
  <1>2. PICK n \in Nat : n = Len(f.done)
    BY <1>1, Zenon DEF IsSeq
  <1>3. /\ IsSeq(g.done) /\ Len(g.done) = n + 1 /\ g.done[n + 1] = d
        /\ \A j \in 1..n : g.done[j] = f.done[j]
    BY <1>1, <1>2, AppendIsSeq
  <1>4. \A j \in 1..(n + 1) : j = n + 1 \/ (j \in 1..n /\ j # n + 1)
    BY <1>2
  <1>5. \A j \in 1..(n + 1) : IF j = n + 1 THEN LastOk(g.done[j], st) ELSE DoneOk(g.done[j])
    BY <1>1, <1>2, <1>3, <1>4, Zenon
  <1>6. g.done # << >>
    BY <1>2, <1>3, LenZero
  <1> QED
    BY <1>3, <1>5, <1>6, Zenon DEF TopOk

\* What a submessage that is dealt with leaves, with the reply that is due.
LEMMA SettleFrames ==
  ASSUME IInv, FInv, step.op = "done", frames # << >>, Settle(Top.data),
         owner' = owner, nextRun' = nextRun,
         \A d : /\ IsDone(d) /\ d.replyOn = Top.inFlight.replyOn
                /\ (d.ok <=> step.ok) /\ d.replies = 0
                => LastOk(d, step')
  PROVE  FInv'
  <1>1. PICK d : d = [replyOn |-> Top.inFlight.replyOn, ok |-> step.ok, replies |-> 0]
    BY Zenon
  <1>2. PICK e : e = Append(Top.done, d)
    BY Zenon
  <1>3. PICK g : g = Settled(Top, Top.data, e)
    OBVIOUS
  <1>4. Replaces(frames', frames, g)
    <2>1. frames' = [frames EXCEPT ![Len(frames)].inFlight = NoMsg,
                                   ![Len(frames)].data = Top.data, ![Len(frames)].done = e]
      BY <1>1, <1>2, Zenon DEF Settle, Top, Last
    <2> QED
      BY <1>3, <2>1, StackTop, Zenon DEF Replaces, Settled
  <1>5. Like(g, Top) /\ g.data = Top.data /\ g.done = e
    BY <1>3, StackTop, SettledFields
  <1>6. step.op # "reply" /\ step # Failed
    BY StepKinds
  <1>7. LastOk(d, step')
    <2>1. IsDone(d) /\ d.replyOn = Top.inFlight.replyOn /\ (d.ok <=> step.ok) /\ d.replies = 0
      BY <1>1 DEF IsDone
    <2> QED
      BY <2>1, Zenon
  <1>8. TopOk(g, step')
    BY <1>2, <1>5, <1>6, <1>7, StackTop, TopIsOk, SettledOk, Zenon
  <1>9. Own(g, owner)
    BY <1>5, StackTop, Zenon DEF Own, Like
  <1>10. FramesOk(frames', step', owner)
    BY <1>4, <1>5, <1>8, <1>9, StackTop, FramesSet, ZenonT(60)
  <1> QED
    BY <1>10, StackTop, Zenon DEF FInv

\* A submessage has succeeded: a reply is due if one was asked for.
LEMMA SubmessageSucceedsFrames ==
  ASSUME IInv, FInv, SubmessageSucceeds
  PROVE  FInv'
  <1>1. /\ step.op = "done" /\ step.ok /\ frames # << >> /\ Settle(Top.data)
        /\ owner' = owner /\ nextRun' = nextRun
        /\ step' = IF Replies(Top.inFlight.replyOn, TRUE) THEN ReplyTo(TRUE) ELSE Loop
    BY Zenon DEF SubmessageSucceeds, AfterSuccess
  <1>2. ASSUME NEW d, IsDone(d), d.replyOn = Top.inFlight.replyOn, d.ok <=> step.ok,
               d.replies = 0
        PROVE  LastOk(d, step')
    <2>1. Replies(d.replyOn, d.ok) <=> Replies(Top.inFlight.replyOn, TRUE)
      BY <1>1, <1>2, Zenon DEF Replies
    <2>2. CASE Replies(Top.inFlight.replyOn, TRUE)
      <3>1. step'.op = "reply"
        BY <1>1, <2>2, StepKinds, Zenon
      <3> QED
        BY <1>2, <2>1, <2>2, <3>1, Zenon DEF LastOk
    <2>3. CASE ~Replies(Top.inFlight.replyOn, TRUE)
      <3>1. step'.op # "reply"
        BY <1>1, <2>3, StepKinds
      <3> QED
        BY <1>1, <1>2, <2>1, <2>3, <3>1, Zenon DEF LastOk
    <2> QED
      BY <2>2, <2>3, Zenon
  <1> QED
    BY <1>1, <1>2, SettleFrames, Zenon

\* A submessage has failed: a reply is due, or the loop fails.
LEMMA SubmessageFailsFrames ==
  ASSUME IInv, FInv, SubmessageFails
  PROVE  FInv'
  <1>1. /\ step.op = "done" /\ ~step.ok /\ frames # << >> /\ Settle(Top.data)
        /\ owner' = owner /\ nextRun' = nextRun
        /\ step' = IF Replies(Top.inFlight.replyOn, FALSE) THEN ReplyTo(FALSE) ELSE Failed
    BY Zenon DEF SubmessageFails, AfterFailure
  <1>2. ASSUME NEW d, IsDone(d), d.replyOn = Top.inFlight.replyOn, d.ok <=> step.ok,
               d.replies = 0
        PROVE  LastOk(d, step')
    <2>1. Replies(d.replyOn, d.ok) <=> Replies(Top.inFlight.replyOn, FALSE)
      BY <1>1, <1>2, Zenon DEF Replies
    <2>2. CASE Replies(Top.inFlight.replyOn, FALSE)
      <3>1. step'.op = "reply"
        BY <1>1, <2>2, StepKinds, Zenon
      <3> QED
        BY <1>2, <2>1, <2>2, <3>1, Zenon DEF LastOk
    <2>3. CASE ~Replies(Top.inFlight.replyOn, FALSE)
      <3>1. step'.op # "reply" /\ step' = Failed
        BY <1>1, <2>3, StepKinds
      <3> QED
        BY <1>2, <2>1, <2>3, <3>1, Zenon DEF LastOk
    <2> QED
      BY <2>2, <2>3, Zenon
  <1> QED
    BY <1>1, <1>2, SettleFrames, Zenon

\* The loop over the submessages is through.
LEMMA ResponseReturnsFrames ==
  ASSUME IInv, FInv, ResponseReturns
  PROVE  FInv'
  <1>1. step.op = "loop" /\ step.op # "reply" /\ step # Failed
    BY StepKinds DEF ResponseReturns
  <1>2. frames # << >>
    BY <1>1 DEF IInv, StepInv
  <1>3. owner' = owner /\ nextRun' = nextRun
    BY DEF ResponseReturns
  <1>4. CASE ~Top.isReply
    <2>1. frames' = Front(frames) /\ step' = Done(TRUE, Top.data)
      BY <1>4, Zenon DEF ResponseReturns
    <2>2. step'.op # "reply"
      BY <2>1, StepKinds, Zenon
    <2>3. FramesOk(frames', step', owner)
      BY <1>2, <2>1, <2>2, StackTop, FramesPop, Zenon
    <2> QED
      BY <1>3, <2>3, StackTop, Zenon DEF FInv
  <1>5. CASE Top.isReply
    <2>1. PICK q : q = Front(frames)
      OBVIOUS
    <2>2. /\ frames' = [q EXCEPT ![Len(frames) - 1].data = Overridden(@, Top.data)]
          /\ step' = Loop /\ step'.op # "reply"
      BY <1>5, <2>1, StepKinds DEF ResponseReturns
    <2>3. FramesOk(q, step', owner)
      BY <1>2, <2>1, <2>2, StackTop, FramesPop, Zenon
    <2>4. PICK m \in Nat \ {0} : m = Len(frames) - 1
      <3>1. Len(frames) > 1 /\ Len(frames) \in Nat
        BY <1>2, <1>5, StackTop, FramesTop DEF IsSeq
      <3> QED
        BY <3>1
    <2>5. IsStack(q) /\ Len(q) = m
      <3>1. IsStack(frames)
        BY Zenon DEF IInv
      <3> QED
        BY <1>2, <2>1, <2>4, <3>1, StackPop, Zenon
    <2>6. IsSeq(q) /\ q # << >> /\ q[m] = frames[m]
      <3>1. IsSeq(q) /\ \A i \in 1..(Len(frames) - 1) : q[i] = frames[i]
        BY <1>2, <2>1, StackTop, FrontIsSeq, Zenon
      <3> QED
        BY <2>4, <2>5, <3>1, LenZero
    <2>7. /\ IsFrame(Last(q)) /\ Last(q) = q[m] /\ m \in 1..m
          /\ TopOk(Last(q), step') /\ Own(Last(q), owner)
      BY <2>3, <2>4, <2>5, <2>6, LastFrame, FramesTop
    <2>8. PICK e : e = Overridden(Last(q).data, Top.data)
      OBVIOUS
    <2>9. PICK g : g = Returned(Last(q), e)
      OBVIOUS
    <2>10. Replaces(frames', q, g)
      BY <2>2, <2>4, <2>5, <2>7, <2>8, <2>9, Zenon DEF Replaces, Returned
    <2>11. Like(g, Last(q)) /\ g.data = e /\ g.done = Last(q).done
      BY <2>7, <2>9, ReturnedFields
    <2>12. TopOk(g, step')
      BY <2>7, <2>11, Zenon DEF TopOk
    <2>13. Own(g, owner)
      <3>1. Last(q).contract = Top.contract
        BY <1>2, <1>5, <2>4, <2>6, <2>7, StackTop, FramesTop
      <3>2. Own(Top, owner)
        BY <1>2, StackTop, Zenon
      <3> QED
        BY <2>7, <2>8, <2>11, <3>1, <3>2, Zenon DEF Own, Overridden, Like
    <2>14. FramesOk(frames', step', owner)
      BY <2>3, <2>6, <2>10, <2>11, <2>12, <2>13, FramesSet, ZenonT(60)
    <2> QED
      BY <1>3, <2>14, StackTop, Zenon DEF FInv
  <1> QED
    BY <1>4, <1>5, Zenon

\* The loop ends with an error.
LEMMA ResponseFailsFrames ==
  ASSUME IInv, FInv, ResponseFails
  PROVE  FInv'
  <1>1. frames # << >>
    BY StepKinds DEF IInv, StepInv, ResponseFails
  <1>2. /\ frames' = Front(frames) /\ owner' = owner /\ nextRun' = nextRun
        /\ step' \in {Failed, Done(FALSE, 0)}
    BY DEF ResponseFails
  <1>3. step'.op # "reply"
    BY <1>2, StepKinds, Zenon
  <1>4. FramesOk(frames', step', owner)
    BY <1>1, <1>2, <1>3, StackTop, FramesPop, Zenon
  <1> QED
    BY <1>2, <1>4, StackTop, Zenon DEF FInv

\* A panic leaves a loop.
LEMMA UnwindFrames ==
  ASSUME IInv, FInv, Unwind
  PROVE  FInv'
  <1>1. /\ frames # << >> /\ frames' = Front(frames) /\ owner' = owner /\ nextRun' = nextRun
        /\ step' = OutOfGas
    BY DEF Unwind
  <1>2. step'.op # "reply"
    BY <1>1, StepKinds
  <1>3. FramesOk(frames', step', owner)
    BY <1>1, <1>2, StackTop, FramesPop, Zenon
  <1> QED
    BY <1>1, <1>3, StackTop, Zenon DEF FInv

\* A transaction starts and ends without responses.
LEMMA TxFrames ==
  ASSUME IInv, FInv, StartTx \/ EndTx \/ AbortTx
  PROVE  FInv'
  <1>1. frames' = << >>
    BY Zenon DEF StartTx, EndTx, AbortTx
  <1>2. FramesOk(frames', step', owner')
    BY <1>1, NoFrames
  <1>3. CASE owner' = owner /\ nextRun' = nextRun
    BY <1>2, <1>3, StackTop, Zenon DEF FInv
  <1>4. CASE owner' = << >> /\ nextRun' = 1
    BY <1>2, <1>4, EmptyIsSeq DEF FInv
  <1> QED
    BY <1>3, <1>4, Zenon DEF StartTx, EndTx, AbortTx

\* Every step keeps the responses as they should be.
LEMMA FramesStep ==
  ASSUME IInv, FInv, [Next]_vars
  PROVE  FInv'
  <1>1. CASE Next
    BY <1>1, TxFrames, ExecuteFrames, HandleSdkMessageFrames, ReplyFrames,
       DispatchSubmessageFrames, RejectSubmessageFrames, ChargeLimitedFrames,
       RecoverOutOfGasFrames, SubmessageSucceedsFrames, SubmessageFailsFrames,
       ResponseReturnsFrames, ResponseFailsFrames, UnwindFrames, Zenon DEF Next
  <1>2. CASE UNCHANGED vars
    BY <1>2 DEF vars, FInv
  <1> QED
    BY <1>1, <1>2

\* What the invariant says of the model's properties.
LEMMA FramesProperties ==
  ASSUME IInv, FInv
  PROVE  RepliesAsRequested /\ DataIsOwn
  <1>1. DOMAIN frames = 1..Len(frames)
    BY DEF IInv, IsStack, IsSeq
  <1>2. ASSUME NEW i \in 1..Len(frames), NEW j \in DOMAIN frames[i].done
        PROVE  LET d == frames[i].done[j]
                   current == i = Len(frames) /\ j = Len(frames[i].done) IN
               IF current /\ step.op = "reply" THEN Replies(d.replyOn, d.ok) /\ d.replies = 0
               ELSE /\ d.replies = IF Replies(d.replyOn, d.ok) THEN 1 ELSE 0
                    /\ d.ok \/ d.replies = 1 \/ (current /\ step = Failed)
    <2>1. IF i = Len(frames) THEN TopOk(frames[i], step) ELSE FrameOk(frames[i])
      BY Zenon DEF FInv, FramesOk
    <2>2. IsSeq(frames[i].done)
      BY <2>1, Zenon DEF TopOk, FrameOk
    <2>3. j \in 1..Len(frames[i].done)
      BY <1>2, <2>2 DEF IsSeq
    <2>4. CASE i = Len(frames)
      BY <2>1, <2>3, <2>4, Zenon DEF TopOk, LastOk, DoneOk
    <2>5. CASE i # Len(frames)
      BY <2>1, <2>3, <2>5, Zenon DEF FrameOk, DoneOk
    <2> QED
      BY <2>4, <2>5, Zenon
  <1>3. RepliesAsRequested
    BY <1>1, <1>2, Zenon DEF RepliesAsRequested
  <1>4. DataIsOwn
    BY <1>1, Zenon DEF DataIsOwn, FInv, FramesOk, Own
  <1> QED
    BY <1>3, <1>4

\* The responses are as they should be in every state of the dispatcher.
LEMMA FramesInvariant == Spec => []FInv
  <1>1. ASSUME Init PROVE FInv
    <2>1. frames = << >> /\ owner = << >> /\ nextRun = 1
      BY <1>1, Zenon DEF Init
    <2> QED
      BY <2>1, NoFrames, EmptyIsSeq DEF FInv
  <1>2. IInv /\ FInv /\ [Next]_vars => FInv'
    BY FramesStep
  <1> QED
    BY <1>1, <1>2, DispatcherStacks, PTL DEF Spec

\* A response goes on past a submessage only if its contract was told as it
\* asked, once, of a success it wanted to know of and of any failure
\* (DispatchSubmessages).
THEOREM DispatcherReplies == Spec => []RepliesAsRequested
  <1>1. IInv /\ FInv => RepliesAsRequested
    BY FramesProperties
  <1> QED
    BY <1>1, DispatcherStacks, FramesInvariant, PTL

\* The data a caller gets is that of the contract it called or of a reply to
\* it, never what a submessage returned (DispatchSubmessages, handleContractResponse).
THEOREM DispatcherData == Spec => []DataIsOwn
  <1>1. IInv /\ FInv => DataIsOwn
    BY FramesProperties
  <1> QED
    BY <1>1, DispatcherStacks, FramesInvariant, PTL

----------------------------------------------------------------------------
(* Events.                                                                 *)

Sorted(evs) == \A i, j \in 1..Len(evs) : i < j => evs[i].run <= evs[j].run

Plain(evs) == \A i \in 1..Len(evs) : evs[i].type # "message"

\* Events are those of the runs w, in order.
Of(evs, w) ==
  IsSeq(evs) /\ Sorted(evs) /\ \A i \in 1..Len(evs) : evs[i].run \in w

\* Each of the runs w has an event that is passed on.
Covers(evs, w) ==
  \A r \in w : \E i \in 1..Len(evs) : evs[i].run = r /\ evs[i].type # "message"

CtxOk(c) == Of(c.events, c.writes)
Exact(c) == Covers(c.events, c.writes)

Before(v, w) == \A a \in v, b \in w : a < b

Traces(cs, st, rev) ==
  /\ \A i \in 1..Len(cs) : CtxOk(cs[i])
  /\ \A i \in 1..Len(cs) : i < Len(cs) \/ ~Fails(st) => Exact(cs[i])
  /\ \A i, j \in 1..Len(cs) : i < j => Before(cs[i].writes, cs[j].writes)
  /\ \A i \in 1..Len(cs) : rev \cap cs[i].writes = {}
  /\ \A i \in 1..Len(cs) : i = 1 => Plain(cs[i].events)

TInv ==
  /\ Traces(contexts, step, reverted)
  /\ step = RunMsg(FALSE) => Len(contexts) > 1
  /\ reverted \subseteq 1..(nextRun - 1) /\ reverted \cap store = {}
  /\ step # Idle => events = << >>
  /\ IsSeq(events) /\ Sorted(events) /\ Plain(events) /\ store = Emitters(events)

\* q is s and then t.
Joins(q, s, m, t, n) ==
  /\ m \in Nat /\ n \in Nat /\ IsSeq(q) /\ Len(q) = m + n
  /\ \A i \in 1..(m + n) : \/ i \in 1..m /\ q[i] = s[i]
                           \/ i > m /\ i - m \in 1..n /\ q[i] = t[i - m]
  /\ \A i \in 1..m : i \in 1..(m + n) /\ q[i] = s[i]
  /\ \A i \in 1..n : m + i \in 1..(m + n) /\ q[m + i] = t[i]

\* One sequence after the other.
LEMMA ConcatIsSeq ==
  ASSUME NEW s, IsSeq(s), NEW t, IsSeq(t), NEW m, m = Len(s), NEW n, n = Len(t),
         NEW q, q = s \o t
  PROVE  Joins(q, s, m, t, n)
  <1> DEFINE S == {s[i] : i \in 1..m} \cup {t[i] : i \in 1..n}
  <1>1. m \in Nat /\ n \in Nat
    BY DEF IsSeq
  <1>2. (\A i \in 1..m : s[i] \in S) /\ \A i \in 1..n : t[i] \in S
    BY Zenon
  <1> HIDE DEF S
  <1>3. s \in Seq(S) /\ t \in Seq(S)
    BY <1>2, IsSeqSeq, Zenon
  <1>4. q \in Seq(S) /\ Len(q) = m + n
    BY <1>3
  <1>5. \A i \in 1..(m + n) : q[i] = IF i <= m THEN s[i] ELSE t[i - m]
    BY <1>3
  <1>6. IsSeq(q)
    BY <1>4, SeqIsSeq, Zenon
  <1>7. \A i \in 1..m : i \in 1..(m + n) /\ q[i] = s[i]
    BY <1>1, <1>5
  <1>8. \A i \in 1..n : m + i \in 1..(m + n) /\ q[m + i] = t[i]
    <2> SUFFICES ASSUME NEW i \in 1..n PROVE m + i \in 1..(m + n) /\ q[m + i] = t[i]
      BY Zenon
    <2>1. m + i \in 1..(m + n) /\ ~(m + i <= m) /\ (m + i) - m = i
      BY <1>1
    <2> QED
      BY <1>5, <2>1
  <1>9. \A i \in 1..(m + n) : \/ i \in 1..m /\ q[i] = s[i]
                              \/ i > m /\ i - m \in 1..n /\ q[i] = t[i - m]
    BY <1>1, <1>5
  <1> QED
    BY <1>1, <1>4, <1>6, <1>7, <1>8, <1>9, Zenon DEF Joins

\* The events q of the runs v and w, from those s of v and t of w.
Joined(q, s, v, t, w) ==
  /\ Of(q, v \cup w)
  /\ Covers(s, v) /\ Covers(t, w) => Covers(q, v \cup w)
  /\ Plain(s) /\ Plain(t) => Plain(q)

Numbers(v) == v \subseteq Nat

\* Events of later runs after those of earlier ones.
LEMMA JoinOf ==
  ASSUME NEW s, NEW v, Of(s, v), NEW t, NEW w, Of(t, w), Before(v, w),
         Numbers(v), Numbers(w), NEW q, q = s \o t
  PROVE  Joined(q, s, v, t, w)
  <1>1. IsSeq(s) /\ IsSeq(t)
    BY Zenon DEF Of
  <1>2. PICK m : m = Len(s)
    OBVIOUS
  <1>3. PICK n : n = Len(t)
    OBVIOUS
  <1>4. /\ m \in Nat /\ n \in Nat /\ IsSeq(q) /\ Len(q) = m + n
        /\ \A i \in 1..(m + n) : \/ i \in 1..m /\ q[i] = s[i]
                                 \/ i > m /\ i - m \in 1..n /\ q[i] = t[i - m]
        /\ \A i \in 1..m : i \in 1..(m + n) /\ q[i] = s[i]
        /\ \A i \in 1..n : m + i \in 1..(m + n) /\ q[m + i] = t[i]
    <2>1. Joins(q, s, m, t, n)
      BY <1>1, <1>2, <1>3, ConcatIsSeq, Zenon
    <2> QED
      BY <2>1, Zenon DEF Joins
  <1>5. \A i \in 1..m : s[i].run \in v
    BY <1>2, Zenon DEF Of
  <1>6. \A i \in 1..n : t[i].run \in w
    BY <1>3, Zenon DEF Of
  <1>7. \A i \in 1..(m + n) : q[i].run \in v \cup w
    BY <1>4, <1>5, <1>6, Zenon
  <1>8. ASSUME NEW i \in 1..(m + n), NEW j \in 1..(m + n), i < j
        PROVE  q[i].run <= q[j].run
    <2>1. CASE j \in 1..m /\ q[j] = s[j]
      <3>1. i \in 1..m
        BY <1>4, <1>8, <2>1
      <3> QED
        BY <1>2, <1>4, <1>8, <2>1, <3>1, Zenon DEF Of, Sorted
    <2>2. CASE j > m /\ j - m \in 1..n /\ q[j] = t[j - m]
      <3>1. CASE i \in 1..m /\ q[i] = s[i]
        <4>1. PICK a : a = q[i].run /\ a \in v
          BY <1>5, <3>1, Zenon
        <4>2. PICK b : b = q[j].run /\ b \in w
          BY <1>6, <2>2, Zenon
        <4>3. a < b
          BY <4>1, <4>2, Zenon DEF Before
        <4>4. a \in Nat /\ b \in Nat
          BY <4>1, <4>2, Zenon DEF Numbers
        <4>5. a <= b
          BY <4>3, <4>4
        <4> QED
          BY <4>1, <4>2, <4>5, Zenon
      <3>2. CASE i > m /\ i - m \in 1..n /\ q[i] = t[i - m]
        <4>1. i - m < j - m
          BY <1>4, <1>8
        <4> QED
          BY <1>3, <2>2, <3>2, <4>1, Zenon DEF Of, Sorted
      <3> QED
        BY <1>4, <3>1, <3>2, Zenon
    <2> QED
      BY <1>4, <2>1, <2>2, Zenon
  <1>9. Of(q, v \cup w)
    BY <1>4, <1>7, <1>8, Zenon DEF Of, Sorted
  <1>10. ASSUME Covers(s, v), Covers(t, w)
         PROVE  Covers(q, v \cup w)
    <2> SUFFICES ASSUME NEW r \in v \cup w
                 PROVE  \E i \in 1..(m + n) : q[i].run = r /\ q[i].type # "message"
      BY <1>4, ZenonT(60) DEF Covers
    <2>1. CASE r \in v
      <3>1. PICK i \in 1..m : s[i].run = r /\ s[i].type # "message"
        BY <1>2, <1>10, <2>1, Zenon DEF Covers
      <3> QED
        BY <1>4, <3>1, Zenon
    <2>2. CASE r \in w
      <3>1. PICK i \in 1..n : t[i].run = r /\ t[i].type # "message"
        BY <1>3, <1>10, <2>2, Zenon DEF Covers
      <3>2. m + i \in 1..(m + n) /\ q[m + i] = t[i]
        BY <1>4, Zenon
      <3> QED
        BY <3>1, <3>2, Zenon
    <2> QED
      BY <2>1, <2>2, Zenon
  <1>11. ASSUME Plain(s), Plain(t)
         PROVE  Plain(q)
    BY <1>2, <1>3, <1>4, <1>11 DEF Plain
  <1> QED
    BY <1>9, <1>10, <1>11, Zenon DEF Joined

\* The events of one run.
LEMMA EmittedOf ==
  ASSUME NEW r \in Nat, NEW types, types = <<"other">> \/ types = <<"message", "other">>,
         NEW e, e = [i \in DOMAIN types |-> [run |-> r, type |-> types[i]]]
  PROVE  Of(e, {r}) /\ Covers(e, {r}) /\ (types = <<"other">> => Plain(e))
  <1>1. PICK n \in 1..2 : /\ n \in Nat /\ DOMAIN types = 1..n /\ types[n] = "other"
                          /\ types = <<"other">> => n = 1
    OBVIOUS
  <1>2. e = [i \in 1..n |-> [run |-> r, type |-> types[i]]]
    BY <1>1, Zenon
  <1>3. \A i \in 1..n : e[i] = [run |-> r, type |-> types[i]]
    BY <1>2, Zenon
  <1>4. \A i \in 1..n : e[i].run = r /\ e[i].type = types[i]
    <2> SUFFICES ASSUME NEW i \in 1..n PROVE e[i].run = r /\ e[i].type = types[i]
      BY Zenon
    <2>1. PICK y : y = types[i]
      OBVIOUS
    <2>2. PICK d : d = e[i]
      OBVIOUS
    <2>3. d = [run |-> r, type |-> y]
      BY <1>3, <2>1, <2>2, Zenon
    <2>4. d.run = r /\ d.type = y
      BY <2>3
    <2> QED
      BY <2>1, <2>2, <2>4, Zenon
  <1>5. e = [i \in 1..n |-> e[i]]
    BY <1>2, Zenon
  <1>6. IsSeq(e) /\ Len(e) = n
    BY <1>1, <1>5, FunctionIsSeq, Zenon
  <1>7. n \in 1..n /\ r <= r
    BY <1>1
  <1>8. Of(e, {r})
    BY <1>4, <1>6, <1>7, Zenon DEF Of, Sorted
  <1>9. e[n].run = r /\ e[n].type # "message"
    BY <1>1, <1>4, <1>7
  <1>10. Covers(e, {r})
    BY <1>6, <1>7, <1>9, Zenon DEF Covers
  <1>11. ASSUME types = <<"other">>
         PROVE  Plain(e)
    <2>1. \A i \in 1..n : i = n
      BY <1>1, <1>11
    <2> QED
      BY <1>6, <1>9, <2>1, Zenon DEF Plain
  <1> QED
    BY <1>8, <1>10, <1>11, Zenon

\* The context on top changes, comes or goes; gone is what is reverted then.
LEMMA TracesEnd ==
  ASSUME NEW cs, IsSeq(cs), NEW st, NEW rev, Traces(cs, st, rev),
         NEW n, NEW c, NEW q, Ends(q, cs, n, c), NEW u, NEW gone,
         n - 1 = Len(cs) => ~Fails(st), CtxOk(c), Fails(u) \/ Exact(c),
         \A i \in 1..(n - 1) : Before(cs[i].writes, c.writes),
         \A i \in 1..(n - 1) : gone \cap cs[i].writes = {},
         gone \cap c.writes = {}, n = 1 => Plain(c.events)
  PROVE  Traces(q, u, gone)
  <1>1. /\ IsSeq(q) /\ Len(q) = n /\ n \in Nat \ {0} /\ n - 1 <= Len(cs) /\ Len(cs) \in Nat
        /\ q[n] = c /\ \A i \in 1..(n - 1) : q[i] = cs[i]
    BY Zenon DEF Ends, IsSeq
  <1>2. \A i \in 1..n : i = n \/ i \in 1..(n - 1)
    BY <1>1
  <1>3. \A i \in 1..(n - 1) : i \in 1..Len(cs) /\ (i < Len(cs) \/ n - 1 = Len(cs))
    BY <1>1
  <1>4. \A i \in 1..n : CtxOk(q[i])
    BY <1>1, <1>2, <1>3, Zenon DEF Traces
  <1>5. \A i \in 1..n : i < n \/ ~Fails(u) => Exact(q[i])
    <2>1. ~(n < n)
      BY <1>1
    <2>2. \A i \in 1..(n - 1) : Exact(cs[i])
      BY <1>3, Zenon DEF Traces
    <2> QED
      BY <1>1, <1>2, <2>1, <2>2, Zenon
  <1>6. ASSUME NEW i \in 1..n, NEW j \in 1..n, i < j
        PROVE  Before(q[i].writes, q[j].writes)
    <2>1. i \in 1..(n - 1)
      BY <1>1, <1>6
    <2>2. CASE j = n
      BY <1>1, <2>1, <2>2, Zenon
    <2>3. CASE j \in 1..(n - 1)
      BY <1>1, <1>3, <1>6, <2>1, <2>3, Zenon DEF Traces
    <2> QED
      BY <1>2, <2>2, <2>3, Zenon
  <1>7. \A i \in 1..n : gone \cap q[i].writes = {}
    BY <1>1, <1>2, Zenon
  <1>8. \A i \in 1..n : i = 1 => Plain(q[i].events)
    BY <1>1, <1>2, <1>3, Zenon DEF Traces
  <1> QED
    BY <1>1, <1>4, <1>5, <1>6, <1>7, <1>8, Zenon DEF Traces

\* Only the register changes.
LEMMA TracesStay ==
  ASSUME NEW cs, NEW st, NEW rev, Traces(cs, st, rev), NEW u, Fails(u) \/ ~Fails(st)
  PROVE  Traces(cs, u, rev)
  BY Zenon DEF Traces

\* There is no context.
LEMMA NoTraces ==
  ASSUME NEW u, NEW rev
  PROVE  Traces(<< >>, u, rev)
  <1>1. Len(<< >>) = 0 /\ ~(\E i \in 1..0 : TRUE)
    OBVIOUS
  <1> QED
    BY <1>1, Zenon DEF Traces

\* The context on top is dropped.
LEMMA TracesPop ==
  ASSUME NEW cs, NEW k \in Nat, Contexts(cs, k), cs # << >>, NEW st, NEW rev,
         Traces(cs, st, rev), NEW u
  PROVE  Traces(Front(cs), u, rev \cup Last(cs).writes)
  <1>1. PICK q : q = Front(cs)
    OBVIOUS
  <1>2. IsSeq(cs) /\ \A i \in 1..Len(cs) : cs[i].writes \subseteq 1..(k - 1)
    BY Zenon DEF Contexts
  <1>3. CASE q = << >>
    BY <1>1, <1>3, NoTraces, Zenon
  <1>4. CASE q # << >>
    <2>1. Len(cs) > 1 /\ Ends(q, cs, Len(cs) - 1, cs[Len(cs) - 1])
      BY <1>1, <1>2, <1>4, PopEnds, Zenon
    <2>2. PICK n \in Nat : n = Len(cs) - 1 /\ n > 0 /\ Len(cs) = n + 1
      BY <1>2, <2>1 DEF IsSeq
    <2>3. /\ n \in 1..(n + 1) /\ n < n + 1 /\ n + 1 \in 1..(n + 1) /\ ~(n - 1 = n + 1)
          /\ \A i \in 1..n : i \in 1..(n + 1) /\ i < n + 1
          /\ \A i \in 1..(n - 1) : i \in 1..n /\ i < n
      BY <2>2
    <2>4. ASSUME NEW i \in 1..n
          PROVE  (rev \cup cs[n + 1].writes) \cap cs[i].writes = {}
      <3>1. rev \cap cs[i].writes = {} /\ Before(cs[i].writes, cs[n + 1].writes)
        BY <2>2, <2>3, Zenon DEF Traces
      <3>2. \A a \in 1..(k - 1) : ~(a < a)
        OBVIOUS
      <3>3. cs[i].writes \subseteq 1..(k - 1)
        BY <1>2, <2>2, <2>3, Zenon
      <3>4. \A a \in cs[i].writes : a \notin cs[n + 1].writes
        BY <3>1, <3>2, <3>3, Zenon DEF Before
      <3> QED
        BY <3>1, <3>4, Zenon
    <2>5. CtxOk(cs[n]) /\ Exact(cs[n]) /\ (n = 1 => Plain(cs[n].events))
      BY <2>2, <2>3, Zenon DEF Traces
    <2>6. \A i \in 1..(n - 1) : Before(cs[i].writes, cs[n].writes)
      BY <2>2, <2>3, Zenon DEF Traces
    <2>7. n \in 1..n
      BY <2>2
    <2>8. Traces(q, u, rev \cup cs[n + 1].writes)
      <3>1. PICK gone : gone = rev \cup cs[n + 1].writes
        BY Zenon
      <3>2. \A i \in 1..(n - 1) : gone \cap cs[i].writes = {}
        BY <2>3, <2>4, <3>1, Zenon
      <3>3. gone \cap cs[n].writes = {} /\ Ends(q, cs, n, cs[n]) /\ n - 1 # Len(cs)
        BY <2>1, <2>2, <2>3, <2>4, <2>7, <3>1, Zenon
      <3>4. Traces(q, u, gone)
        BY <1>2, <2>5, <2>6, <3>2, <3>3, TracesEnd, Zenon
      <3> QED
        BY <3>1, <3>4, Zenon
    <2> QED
      BY <1>1, <2>2, <2>8, Zenon DEF Last
  <1> QED
    BY <1>3, <1>4, Zenon

\* Contexts as records: what a run writes, what it emits, and what is committed.
Wrote(c, w) == [c EXCEPT !.writes = w]
Emitted(c, e) == [c EXCEPT !.events = e]
Merged(c, w, e) == [c EXCEPT !.writes = w, !.events = e]

\* What a run writes leaves the events.
LEMMA WroteFields ==
  ASSUME NEW c, IsContext(c), NEW w
  PROVE  IsContext(Wrote(c, w)) /\ Wrote(c, w).writes = w /\ Wrote(c, w).events = c.events
  <1>1. Wrote(c, w) = [writes |-> w, events |-> c.events, depth |-> c.depth]
    BY DEF IsContext, Wrote
  <1> QED
    BY <1>1 DEF IsContext

\* What a run emits leaves the writes.
LEMMA EmittedFields ==
  ASSUME NEW c, IsContext(c), NEW e
  PROVE  Emitted(c, e).writes = c.writes /\ Emitted(c, e).events = e
  <1>1. Emitted(c, e) = [writes |-> c.writes, events |-> e, depth |-> c.depth]
    BY DEF IsContext, Emitted
  <1> QED
    BY <1>1

\* What is committed changes both.
LEMMA MergedFields ==
  ASSUME NEW c, IsContext(c), NEW w, NEW e
  PROVE  Merged(c, w, e).writes = w /\ Merged(c, w, e).events = e
  <1>1. PICK d : d = Merged(c, w, e)
    OBVIOUS
  <1>2. d = [writes |-> w, events |-> e, depth |-> c.depth]
    BY <1>1, Zenon DEF IsContext, Merged
  <1> QED
    BY <1>1, <1>2

\* A run writes in the context on top, and emits unless it fails.
LEMMA RunTraces ==
  ASSUME TInv, nextRun \in Nat \ {0}, Contexts(contexts, nextRun), contexts # << >>,
         ~Fails(step), NEW types,
         \/ types = <<"other">>
         \/ types = <<"message", "other">> /\ Len(contexts) > 1,
         \/ contexts' = Writes(nextRun) /\ Fails(step')
         \/ contexts' = Emits(Writes(nextRun), nextRun, types)
  PROVE  Traces(contexts', step', reverted)
  <1>1. PICK n \in Nat \ {0} : n = Len(contexts)
    BY LenZero DEF Contexts, IsSeq
  <1>2. /\ IsSeq(contexts) /\ IsContext(contexts[n])
        /\ \A i \in 1..n : contexts[i].writes \subseteq 1..(nextRun - 1)
    BY <1>1 DEF Contexts
  <1>3. n \in 1..n /\ ~(n - 1 = n) /\ \A i \in 1..(n - 1) : i \in 1..n /\ i < n
    BY <1>1
  <1>4. Traces(contexts, step, reverted) /\ reverted \subseteq 1..(nextRun - 1)
    BY Zenon DEF TInv
  <1>5. PICK w : w = contexts[n].writes \cup {nextRun}
    BY Zenon
  <1>6. PICK c : c = Wrote(contexts[n], w)
    BY Zenon
  <1>7. c.writes = w /\ c.events = contexts[n].events /\ IsContext(c)
    BY <1>2, <1>6, WroteFields, Zenon
  <1>8. PICK q : q = Writes(nextRun)
    OBVIOUS
  <1>9. Ends(q, contexts, n, c)
    <2>1. Replaces(q, contexts, c)
      BY <1>1, <1>5, <1>6, <1>8, Zenon DEF Writes, Replaces, Wrote
    <2> QED
      BY <1>1, <1>2, <2>1, ReplaceEnds, Zenon
  <1>10. /\ Of(contexts[n].events, contexts[n].writes)
         /\ Covers(contexts[n].events, contexts[n].writes)
         /\ n = 1 => Plain(contexts[n].events)
    BY <1>1, <1>3, <1>4, Zenon DEF Traces, CtxOk, Exact
  <1>11. ASSUME NEW i \in 1..(n - 1) PROVE Before(contexts[i].writes, w)
    <2>1. Before(contexts[i].writes, contexts[n].writes)
      BY <1>1, <1>3, <1>4, Zenon DEF Traces
    <2>2. \A a \in 1..(nextRun - 1) : a < nextRun
      OBVIOUS
    <2>3. contexts[i].writes \subseteq 1..(nextRun - 1)
      BY <1>2, <1>3, Zenon
    <2> QED
      BY <1>5, <2>1, <2>2, <2>3, Zenon DEF Before
  <1>12. (\A i \in 1..(n - 1) : reverted \cap contexts[i].writes = {}) /\ reverted \cap w = {}
    <2>1. \A i \in 1..n : reverted \cap contexts[i].writes = {}
      BY <1>1, <1>4, Zenon DEF Traces
    <2>2. nextRun \notin 1..(nextRun - 1)
      OBVIOUS
    <2> QED
      BY <1>3, <1>4, <1>5, <2>1, <2>2, Zenon
  <1>13. ASSUME contexts' = Writes(nextRun), Fails(step')
         PROVE  Traces(contexts', step', reverted)
    <2>1. CtxOk(c)
      BY <1>5, <1>7, <1>10, Zenon DEF CtxOk, Of
    <2>2. \A i \in 1..(n - 1) : Before(contexts[i].writes, c.writes)
      BY <1>7, <1>11, Zenon
    <2>3. reverted \cap c.writes = {} /\ (n = 1 => Plain(c.events)) /\ n - 1 # Len(contexts)
      BY <1>1, <1>3, <1>7, <1>10, <1>12, Zenon
    <2>4. Ends(contexts', contexts, n, c)
      BY <1>8, <1>9, <1>13, Zenon
    <2> QED
      BY <1>2, <1>4, <1>12, <1>13, <2>1, <2>2, <2>3, <2>4, TracesEnd, Zenon
  <1>14. ASSUME contexts' = Emits(Writes(nextRun), nextRun, types)
         PROVE  Traces(contexts', step', reverted)
    <2>1. /\ IsSeq(q) /\ Len(q) = n /\ q[n] = c /\ q # << >>
          /\ \A i \in 1..(n - 1) : q[i] = contexts[i]
      <3>1. /\ IsSeq(q) /\ Len(q) = n /\ q[n] = c
            /\ \A i \in 1..(n - 1) : q[i] = contexts[i]
        BY <1>9, Zenon DEF Ends
      <3> QED
        BY <1>1, <3>1, LenZero
    <2>2. PICK e : e = [i \in DOMAIN types |-> [run |-> nextRun, type |-> types[i]]]
      BY Zenon
    <2>3. PICK evs : evs = contexts[n].events \o e
      BY Zenon
    <2>4. PICK d : d = Emitted(c, evs)
      BY Zenon
    <2>5. Replaces(contexts', q, d)
      BY <1>7, <1>8, <1>14, <2>1, <2>2, <2>3, <2>4, Zenon DEF Emits, Replaces, Emitted
    <2>6. d.writes = w /\ d.events = evs
      BY <1>7, <2>4, EmittedFields, Zenon
    <2>7. Ends(contexts', contexts, n, d)
      <3>1. Ends(contexts', q, n, d)
        BY <2>1, <2>5, ReplaceEnds, Zenon
      <3>2. n - 1 <= Len(contexts)
        BY <1>1
      <3> QED
        BY <2>1, <3>1, <3>2, Zenon DEF Ends
    <2>8. Of(e, {nextRun}) /\ Covers(e, {nextRun}) /\ (types = <<"other">> => Plain(e))
      <3>1. nextRun \in Nat
        OBVIOUS
      <3> QED
        BY <2>2, <3>1, EmittedOf, Zenon
    <2>9. /\ Before(contexts[n].writes, {nextRun})
          /\ contexts[n].writes \subseteq Nat /\ {nextRun} \subseteq Nat
      <3>1. /\ \A a \in 1..(nextRun - 1) : a < nextRun
            /\ 1..(nextRun - 1) \subseteq Nat /\ nextRun \in Nat
        OBVIOUS
      <3> QED
        BY <1>2, <1>3, <3>1, Zenon DEF Before
    <2>10. /\ Of(evs, w)
           /\ Covers(evs, w)
           /\ Plain(contexts[n].events) /\ Plain(e) => Plain(evs)
      <3>1. PICK s : s = contexts[n].events
        OBVIOUS
      <3>2. PICK v : v = contexts[n].writes
        OBVIOUS
      <3>3. PICK x : x = {nextRun}
        BY Zenon
      <3>4. Of(s, v) /\ Covers(s, v) /\ Of(e, x) /\ Covers(e, x)
        BY <1>10, <2>8, <3>1, <3>2, <3>3, Zenon
      <3>5. Before(v, x) /\ Numbers(v) /\ Numbers(x)
        BY <2>9, <3>2, <3>3, Zenon DEF Numbers
      <3>6. evs = s \o e /\ w = v \cup x
        BY <1>5, <2>3, <3>1, <3>2, <3>3, Zenon
      <3>7. Joined(evs, s, v, e, x)
        BY <3>4, <3>5, <3>6, JoinOf, Zenon
      <3> QED
        BY <3>1, <3>4, <3>6, <3>7, Zenon DEF Joined
    <2>11. n = 1 => Plain(d.events)
      <3>1. ASSUME n = 1 PROVE types = <<"other">>
        BY <1>1, <3>1
      <3> QED
        BY <1>10, <2>6, <2>8, <2>10, <3>1, Zenon
    <2>12. CtxOk(d) /\ Exact(d)
      BY <2>6, <2>10, Zenon DEF CtxOk, Exact
    <2>13. \A i \in 1..(n - 1) : Before(contexts[i].writes, d.writes)
      BY <1>11, <2>6, Zenon
    <2>14. reverted \cap d.writes = {} /\ n - 1 # Len(contexts)
      BY <1>1, <1>3, <1>12, <2>6, Zenon
    <2> QED
      BY <1>2, <1>4, <1>12, <2>7, <2>11, <2>12, <2>13, <2>14, TracesEnd, Zenon
  <1> QED
    BY <1>13, <1>14, Zenon

\* What else there is while a transaction runs.
LEMMA TracesGoOn ==
  ASSUME IInv, TInv, step.op # "idle", store' = store, events' = events,
         Traces(contexts', step', reverted'), reverted' \subseteq 1..(nextRun' - 1),
         step' = RunMsg(FALSE) => Len(contexts') > 1
  PROVE  TInv'
  <1>1. step # Idle /\ store = {}
    BY Running, Zenon
  <1>2. /\ events = << >> /\ IsSeq(events) /\ Sorted(events) /\ Plain(events)
        /\ store = Emitters(events)
    BY <1>1, Zenon DEF TInv
  <1>3. reverted' \cap store' = {}
    BY <1>1, Zenon
  <1>4. /\ IsSeq(events') /\ Sorted(events') /\ Plain(events') /\ store' = Emitters(events')
        /\ events' = << >>
    BY <1>2, Zenon
  <1> QED
    BY <1>3, <1>4, Zenon DEF TInv

\* What is reverted was run.
LEMMA RevertedRan ==
  ASSUME IInv, TInv
  PROVE  /\ nextRun \in Nat \ {0} /\ Contexts(contexts, nextRun)
         /\ Traces(contexts, step, reverted) /\ reverted \subseteq 1..(nextRun - 1)
         /\ reverted \subseteq 1..((nextRun + 1) - 1)
  <1>1. /\ nextRun \in Nat \ {0} /\ Contexts(contexts, nextRun)
        /\ Traces(contexts, step, reverted) /\ reverted \subseteq 1..(nextRun - 1)
    BY Zenon DEF IInv, TInv
  <1>2. 1..(nextRun - 1) \subseteq 1..((nextRun + 1) - 1)
    BY <1>1
  <1> QED
    BY <1>1, <1>2, Zenon

\* A run of a contract.
LEMMA ContractRunsTraces ==
  ASSUME IInv, TInv, step.op \in {"run", "reply"}, NEW fs, NEW c, NEW gas, NEW isReply,
         ContractRuns(fs, c, gas, isReply)
  PROVE  TInv'
  <1>1. step.op # "idle" /\ ~Fails(step)
    <2>1. step.op # "idle"
      OBVIOUS
    <2>2. step.op = "run" => ~Fails(step)
      BY StepKinds DEF Fails
    <2> QED
      BY <2>1, <2>2, StepKinds, Zenon
  <1>2. /\ store' = store /\ events' = events /\ reverted' = reverted
        /\ nextRun' = nextRun + 1
    BY Zenon DEF ContractRuns, Uses
  <1>3. \/ contexts' = Writes(nextRun) /\ Fails(step')
        \/ contexts' = Emits(Writes(nextRun), nextRun, <<"other">>)
    <2>1. Fails(OutOfGas) /\ Fails(Panic) /\ Fails(Failed) /\ Fails(Done(FALSE, 0))
      BY StepKinds, Zenon
    <2> QED
      BY <2>1, Zenon DEF ContractRuns
  <1>4. step' # RunMsg(FALSE)
    <2>1. step' \in {OutOfGas, Panic, Failed, Done(FALSE, 0), Loop}
      BY Zenon DEF ContractRuns
    <2> QED
      BY <2>1, StepKinds, Zenon
  <1>5. contexts # << >>
    BY <1>1, Running, Zenon
  <1>6. Traces(contexts', step', reverted')
    <2>1. PICK types : types = <<"other">>
      BY Zenon
    <2> QED
      BY <1>1, <1>2, <1>3, <1>5, <2>1, RevertedRan, RunTraces, Zenon
  <1>7. reverted' \subseteq 1..(nextRun' - 1)
    BY <1>2, RevertedRan, Zenon
  <1> QED
    BY <1>1, <1>2, <1>4, <1>6, <1>7, TracesGoOn, Zenon

\* A message to a contract writes and emits in its context.
LEMMA ExecuteTraces ==
  ASSUME IInv, TInv, NEW c, NEW gas, Execute(c, gas)
  PROVE  TInv'
  <1>1. step.op \in {"run", "reply"}
    BY StepKinds, Zenon DEF Execute
  <1>2. ContractRuns(frames, c, gas, FALSE)
    BY Zenon DEF Execute
  <1> QED
    BY <1>1, <1>2, ContractRunsTraces, Zenon

\* A reply writes and emits in the context of the caller.
LEMMA ReplyTraces ==
  ASSUME IInv, TInv, NEW gas, Reply(gas)
  PROVE  TInv'
  <1>1. step.op \in {"run", "reply"}
    BY Zenon DEF Reply
  <1>2. PICK fs : ContractRuns(fs, Top.contract, gas, TRUE)
    BY Zenon DEF Reply
  <1> QED
    BY <1>1, <1>2, ContractRunsTraces, Zenon

\* Any other message runs in a context of its own.
LEMMA HandleSdkMessageTraces ==
  ASSUME IInv, TInv, NEW gas, HandleSdkMessage(gas)
  PROVE  TInv'
  <1>1. step = RunMsg(FALSE) /\ step.op # "idle" /\ ~Fails(step) /\ Len(contexts) > 1
    <2>1. step = RunMsg(FALSE)
      BY Zenon DEF HandleSdkMessage
    <2>2. step.op = "run" /\ ~Fails(step)
      BY <2>1, StepKinds, Zenon
    <2> QED
      BY <2>1, <2>2, Zenon DEF TInv
  <1>2. /\ store' = store /\ events' = events /\ reverted' = reverted
        /\ nextRun' = nextRun + 1
    BY Zenon DEF HandleSdkMessage, Uses
  <1>3. \/ contexts' = Writes(nextRun) /\ Fails(step')
        \/ contexts' = Emits(Writes(nextRun), nextRun, <<"message", "other">>)
    <2>1. Fails(OutOfGas) /\ Fails(Panic) /\ Fails(Done(FALSE, 0))
      BY StepKinds, Zenon
    <2> QED
      BY <2>1, Zenon DEF HandleSdkMessage
  <1>4. step' # RunMsg(FALSE)
    <2>1. step' \in {OutOfGas, Panic, Done(FALSE, 0), Done(TRUE, nextRun)}
      BY Zenon DEF HandleSdkMessage
    <2>2. Done(TRUE, nextRun).op = "done" /\ Done(FALSE, 0).op = "done"
      BY StepKinds, Zenon
    <2> QED
      BY <2>1, <2>2, StepKinds, Zenon
  <1>5. contexts # << >>
    BY <1>1, Running, Zenon
  <1>6. Traces(contexts', step', reverted')
    <2>1. PICK types : types = <<"message", "other">>
      BY Zenon
    <2> QED
      BY <1>1, <1>2, <1>3, <1>5, <2>1, RevertedRan, RunTraces, Zenon
  <1>7. reverted' \subseteq 1..(nextRun' - 1)
    BY <1>2, RevertedRan, Zenon
  <1> QED
    BY <1>1, <1>2, <1>4, <1>6, <1>7, TracesGoOn, Zenon

\* The register changes while nothing runs; a failure stays one.
LEMMA StayTraces ==
  ASSUME IInv, TInv, step.op # "idle", step'.op # "run", Fails(step') \/ ~Fails(step),
         UNCHANGED <<store, events, contexts, nextRun, reverted>>
  PROVE  TInv'
  <1>1. step' # RunMsg(FALSE)
    BY StepKinds, Zenon
  <1>2. Traces(contexts', step', reverted')
    BY RevertedRan, TracesStay, Zenon
  <1>3. reverted' \subseteq 1..(nextRun' - 1)
    BY RevertedRan, Zenon
  <1> QED
    BY <1>1, <1>2, <1>3, TracesGoOn, Zenon

\* The loop takes a submessage that is not to be dispatched.
LEMMA RejectSubmessageTraces ==
  ASSUME IInv, TInv, RejectSubmessage
  PROVE  TInv'
  <1>1. step.op = "loop" /\ step'.op = "fail" /\ Fails(step')
    BY StepKinds, Zenon DEF RejectSubmessage
  <1>2. UNCHANGED <<store, events, contexts, nextRun, reverted>>
    BY Zenon DEF RejectSubmessage
  <1> QED
    BY <1>1, <1>2, StayTraces, Zenon

\* The meter of a submessage is charged.
LEMMA ChargeLimitedTraces ==
  ASSUME IInv, TInv, ChargeLimited
  PROVE  TInv'
  <1>1. step.op = "done" /\ (step' = OutOfGas \/ step' = step)
    BY Zenon DEF ChargeLimited
  <1>2. step'.op # "run" /\ (Fails(step') \/ ~Fails(step))
    BY <1>1, StepKinds, Zenon
  <1>3. UNCHANGED <<store, events, contexts, nextRun, reverted>>
    BY Zenon DEF ChargeLimited
  <1> QED
    BY <1>1, <1>2, <1>3, StayTraces, Zenon

\* Its limit is charged.
LEMMA RecoverOutOfGasTraces ==
  ASSUME IInv, TInv, RecoverOutOfGas
  PROVE  TInv'
  <1>1. step = OutOfGas /\ (step' = OutOfGas \/ step' = Done(FALSE, 0))
    BY Zenon DEF RecoverOutOfGas
  <1>2. step.op = "outOfGas" /\ step'.op \in {"outOfGas", "done"} /\ Fails(step')
    BY <1>1, StepKinds, Zenon
  <1>3. UNCHANGED <<store, events, contexts, nextRun, reverted>>
    BY Zenon DEF RecoverOutOfGas
  <1> QED
    BY <1>2, <1>3, StayTraces, Zenon

\* A loop is through.
LEMMA ResponseReturnsTraces ==
  ASSUME IInv, TInv, ResponseReturns
  PROVE  TInv'
  <1>1. step = Loop /\ (step' = Loop \/ step' = Done(TRUE, Top.data))
    BY Zenon DEF ResponseReturns
  <1>2. step.op = "loop" /\ step'.op \in {"loop", "done"} /\ ~Fails(step)
    BY <1>1, StepKinds, Zenon
  <1>3. UNCHANGED <<store, events, contexts, nextRun, reverted>>
    BY Zenon DEF ResponseReturns
  <1> QED
    BY <1>2, <1>3, StayTraces, Zenon

\* A loop fails.
LEMMA ResponseFailsTraces ==
  ASSUME IInv, TInv, ResponseFails
  PROVE  TInv'
  <1>1. step = Failed /\ (step' = Failed \/ step' = Done(FALSE, 0))
    BY Zenon DEF ResponseFails
  <1>2. step.op = "fail" /\ step'.op \in {"fail", "done"} /\ Fails(step')
    BY <1>1, StepKinds, Zenon
  <1>3. UNCHANGED <<store, events, contexts, nextRun, reverted>>
    BY Zenon DEF ResponseFails
  <1> QED
    BY <1>2, <1>3, StayTraces, Zenon

\* The loop dispatches a submessage, in a context of its own.
LEMMA DispatchSubmessageTraces ==
  ASSUME IInv, TInv, DispatchSubmessage
  PROVE  TInv'
  <1>1. step.op = "loop" /\ ~Fails(step)
    BY StepKinds, Zenon DEF DispatchSubmessage
  <1>2. /\ store' = store /\ events' = events /\ reverted' = reverted /\ nextRun' = nextRun
        /\ \E depth : contexts' = Append(contexts, NewContext(depth))
    BY Zenon DEF DispatchSubmessage
  <1>3. PICK c : contexts' = Append(contexts, c) /\ \E depth : c = NewContext(depth)
    BY <1>2, Zenon
  <1>4. c.writes = {} /\ c.events = << >>
    BY <1>3 DEF NewContext
  <1>5. PICK n \in Nat \ {0} : n = Len(contexts) /\ IsSeq(contexts)
    BY <1>1, Running, Zenon
  <1>6. Ends(contexts', contexts, n + 1, c)
    BY <1>3, <1>5, PushEnds, Zenon
  <1>7. CtxOk(c) /\ Exact(c) /\ Plain(c.events)
    <2>1. ~(\E i \in 1..0 : TRUE)
      OBVIOUS
    <2> QED
      BY <1>4, <2>1, EmptyIsSeq, Zenon DEF CtxOk, Exact, Of, Covers, Sorted, Plain
  <1>8. (n + 1) - 1 = n /\ n + 1 > 1
    OBVIOUS
  <1>9. \A i \in 1..((n + 1) - 1) : reverted \cap contexts[i].writes = {}
    BY <1>5, <1>8, RevertedRan, Zenon DEF Traces
  <1>10. \A i \in 1..((n + 1) - 1) : Before(contexts[i].writes, c.writes)
    BY <1>4, Zenon DEF Before
  <1>11. reverted \cap c.writes = {}
    BY <1>4, Zenon
  <1>12. Traces(contexts', step', reverted)
    BY <1>1, <1>5, <1>6, <1>7, <1>9, <1>10, <1>11, RevertedRan, TracesEnd, Zenon
  <1>13. Len(contexts') > 1
    BY <1>6, <1>8, Zenon DEF Ends
  <1>14. step.op # "idle" /\ Traces(contexts', step', reverted') /\ reverted' \subseteq 1..(nextRun' - 1)
    BY <1>1, <1>2, <1>12, RevertedRan, Zenon
  <1> QED
    BY <1>2, <1>13, <1>14, TracesGoOn, Zenon

\* The context on top is dropped, and all that was written in it.
LEMMA DropTraces ==
  ASSUME IInv, TInv, step.op # "idle", step'.op # "run", contexts' = Front(contexts),
         reverted' = reverted \cup Last(contexts).writes,
         UNCHANGED <<store, events, nextRun>>
  PROVE  TInv'
  <1>1. nextRun \in Nat /\ contexts # << >> /\ Len(contexts) \in 1..Len(contexts)
    BY Running DEF IInv
  <1>2. Traces(contexts', step', reverted')
    BY <1>1, RevertedRan, TracesPop, Zenon
  <1>3. Last(contexts).writes \subseteq 1..(nextRun - 1)
    BY <1>1, RevertedRan, Zenon DEF Contexts, Last
  <1>4. step' # RunMsg(FALSE) /\ reverted' \subseteq 1..(nextRun' - 1)
    BY <1>3, StepKinds, RevertedRan, Zenon
  <1> QED
    BY <1>2, <1>4, TracesGoOn, Zenon

\* A submessage has failed.
LEMMA SubmessageFailsTraces ==
  ASSUME IInv, TInv, SubmessageFails
  PROVE  TInv'
  <1>1. /\ step.op = "done" /\ contexts' = Front(contexts)
        /\ reverted' = reverted \cup Last(contexts).writes
        /\ UNCHANGED <<store, events, nextRun>>
        /\ step' = ReplyTo(FALSE) \/ step' = Failed
    BY Zenon DEF SubmessageFails, Dropped, AfterFailure
  <1>2. step'.op # "run" /\ step.op # "idle"
    BY <1>1, StepKinds, Zenon
  <1> QED
    BY <1>1, <1>2, DropTraces, Zenon

\* A panic leaves a loop, with or without a submessage in flight.
LEMMA UnwindTraces ==
  ASSUME IInv, TInv, Unwind
  PROVE  TInv'
  <1>1. step' = step /\ UNCHANGED <<store, events, nextRun>> /\ step = OutOfGas
    BY Zenon DEF Unwind
  <1>2. step.op # "idle" /\ step'.op # "run" /\ Fails(step')
    BY <1>1, StepKinds, Zenon
  <1>3. CASE UNCHANGED <<contexts, reverted>>
    BY <1>1, <1>2, <1>3, StayTraces, Zenon
  <1>4. CASE contexts' = Front(contexts) /\ reverted' = reverted \cup Last(contexts).writes
    BY <1>1, <1>2, <1>4, DropTraces, Zenon
  <1> QED
    BY <1>3, <1>4, Zenon DEF Unwind

\* A transaction starts.
LEMMA StartTxTraces ==
  ASSUME StartTx
  PROVE  TInv'
  <1>1. PICK c : c = NewContext(0)
    BY Zenon
  <1>2. c.writes = {} /\ c.events = << >>
    BY <1>1 DEF NewContext
  <1>3. contexts' = <<c>> /\ reverted' = {} /\ store' = {} /\ events' = << >> /\ step' = RunMsg(TRUE)
    BY <1>1, Zenon DEF StartTx
  <1>4. Len(contexts') = 1 /\ contexts'[1] = c
    BY <1>3
  <1>5. \A i \in 1..1 : i = 1 /\ ~(i < 1)
    OBVIOUS
  <1>6. ~(\E i \in 1..0 : TRUE)
    OBVIOUS
  <1>7. Of(<< >>, {}) /\ Covers(<< >>, {}) /\ Plain(<< >>)
    BY <1>6, EmptyIsSeq, Zenon DEF Of, Covers, Sorted, Plain
  <1>8. CtxOk(c) /\ Exact(c) /\ Plain(c.events)
    BY <1>2, <1>7, Zenon DEF CtxOk, Exact
  <1>9. Traces(contexts', step', reverted')
    BY <1>3, <1>4, <1>5, <1>8, Zenon DEF Traces
  <1>10. RunMsg(TRUE) # RunMsg(FALSE)
    <2>1. RunMsg(TRUE).wasm /\ ~RunMsg(FALSE).wasm
      BY DEF RunMsg
    <2> QED
      BY <2>1, Zenon
  <1>11. Emitters(<< >>) = {}
    BY DEF Emitters
  <1> QED
    BY <1>3, <1>7, <1>9, <1>10, <1>11, Zenon DEF TInv, Of

\* Events and what they stand for.
LEMMA EmittersAre ==
  ASSUME NEW evs, NEW w, Of(evs, w)
  PROVE  Emitters(evs) \subseteq w /\ Ordered(evs) /\ (Covers(evs, w) => w = Emitters(evs))
  <1>1. DOMAIN evs = 1..Len(evs)
    BY DEF Of, IsSeq
  <1> QED
    BY <1>1, Zenon DEF Of, Covers, Sorted, Emitters, Ordered

\* A transaction ends.
LEMMA EndTxTraces ==
  ASSUME IInv, TInv, EndTx
  PROVE  TInv'
  <1>1. /\ step.op \in {"done", "outOfGas"} /\ frames = << >> /\ contexts' = << >>
        /\ step' = Idle /\ reverted' = reverted /\ nextRun' = nextRun
        /\ \/ store' = {} /\ events' = << >>
           \/ /\ step.op = "done" /\ step.ok
              /\ store' = contexts[1].writes /\ events' = contexts[1].events
    BY Zenon DEF EndTx
  <1>2. step.op # "idle" /\ ~(\E i \in 1..0 : TRUE) /\ step' # RunMsg(FALSE)
    <2>1. ~(\E i \in 1..0 : TRUE)
      OBVIOUS
    <2>2. step.op # "idle" /\ step' # RunMsg(FALSE)
      BY <1>1, StepKinds, Zenon
    <2> QED
      BY <2>1, <2>2, Zenon
  <1>3. Len(contexts) = 1
    <2>1. Waiting(frames, Len(contexts) - 1) /\ IsStack(frames) /\ Len(contexts) \in Nat
      BY <1>2, Running
    <2>2. PICK k : k = Len(contexts) - 1
      OBVIOUS
    <2>3. IsSeq(frames) /\ Waiting(frames, k)
      BY <2>1, <2>2, Zenon DEF IsStack
    <2>4. k = 0
      <3>1. frames = << >> => k = 0
        BY <2>3, WaitingNat
      <3> QED
        BY <1>1, <3>1, Zenon
    <2> QED
      BY <2>1, <2>2, <2>4
  <1>4. 1 \in 1..1
    OBVIOUS
  <1>5. ASSUME store' = {}, events' = << >>
        PROVE  /\ IsSeq(events') /\ Sorted(events') /\ Plain(events')
               /\ store' = Emitters(events') /\ reverted \cap store' = {}
    <2>1. Emitters(<< >>) = {}
      BY DEF Emitters
    <2> QED
      BY <1>2, <1>5, <2>1, EmptyIsSeq, Zenon DEF Sorted, Plain
  <1>6. ASSUME step.op = "done", step.ok,
               store' = contexts[1].writes, events' = contexts[1].events
        PROVE  /\ IsSeq(events') /\ Sorted(events') /\ Plain(events')
               /\ store' = Emitters(events') /\ reverted \cap store' = {}
    <2>1. ~Fails(step)
      BY <1>6, StepKinds, Zenon
    <2>2. /\ Of(events', store') /\ Covers(events', store') /\ Plain(events')
          /\ reverted \cap store' = {}
      BY <1>3, <1>4, <1>6, <2>1, RevertedRan, Zenon DEF Traces, CtxOk, Exact
    <2> QED
      BY <2>2, EmittersAre, Zenon DEF Of
  <1>7. /\ IsSeq(events') /\ Sorted(events') /\ Plain(events')
        /\ store' = Emitters(events') /\ reverted \cap store' = {}
    BY <1>1, <1>5, <1>6, Zenon
  <1>8. Traces(contexts', step', reverted') /\ reverted' \subseteq 1..(nextRun' - 1)
    BY <1>1, NoTraces, RevertedRan, Zenon
  <1> QED
    BY <1>1, <1>2, <1>7, <1>8, Zenon DEF TInv

\* A transaction is aborted.
LEMMA AbortTxTraces ==
  ASSUME IInv, TInv, AbortTx
  PROVE  TInv'
  <1>1. /\ contexts' = << >> /\ step' = Idle
        /\ UNCHANGED <<store, events, nextRun, reverted>>
    BY Zenon DEF AbortTx
  <1>2. step' # RunMsg(FALSE)
    BY <1>1, StepKinds, Zenon
  <1>3. Traces(contexts', step', reverted')
    BY <1>1, NoTraces, Zenon
  <1> QED
    BY <1>1, <1>2, <1>3, Zenon DEF TInv

----------------------------------------------------------------------------
(* filterEvents, a loop over the events.                                   *)

INSTANCE Loops

\* A part of the events, in their order, with none of the SDK's own and all others.
Filtered(k, evs, n) ==
  /\ IsSeq(k) /\ Sorted(k) /\ Plain(k)
  /\ \A i \in 1..Len(k) : \E j \in 1..n : k[i] = evs[j]
  /\ \A j \in 1..n : evs[j].type # "message" => \E i \in 1..Len(k) : k[i] = evs[j]

\* The next event is passed on, or is one of the SDK's own.
LEMMA FilteredStep ==
  ASSUME NEW evs, IsSeq(evs), Sorted(evs), NEW n \in 1..Len(evs), NEW k, Filtered(k, evs, n - 1)
  PROVE  /\ evs[n].type # "message" => Filtered(Append(k, evs[n]), evs, n)
         /\ evs[n].type = "message" => Filtered(k, evs, n)
  <1>1. Len(evs) \in Nat /\ n \in Nat \ {0}
    BY DEF IsSeq
  <1>2. \A j \in 1..n : j = n \/ j \in 1..(n - 1)
    BY <1>1
  <1>3. \A j \in 1..(n - 1) : j \in 1..n /\ j \in 1..Len(evs) /\ j < n
    BY <1>1
  <1>4. ASSUME evs[n].type = "message"
        PROVE  Filtered(k, evs, n)
    BY <1>2, <1>3, <1>4, Zenon DEF Filtered
  <1>5. ASSUME evs[n].type # "message"
        PROVE  Filtered(Append(k, evs[n]), evs, n)
    <2>1. PICK q : q = Append(k, evs[n])
      BY Zenon
    <2>2. IsSeq(k) /\ Sorted(k) /\ Plain(k)
      BY Zenon DEF Filtered
    <2>3. PICK m \in Nat : m = Len(k)
      BY <2>2, Zenon DEF IsSeq
    <2>4. IsSeq(q) /\ Len(q) = m + 1 /\ q[m + 1] = evs[n] /\ \A i \in 1..m : q[i] = k[i]
      BY <2>1, <2>2, <2>3, AppendIsSeq, ZenonT(60)
    <2>5. \A i \in 1..(m + 1) : i = m + 1 \/ i \in 1..m
      OBVIOUS
    <2>6. \A i \in 1..m : i \in 1..(m + 1)
      OBVIOUS
    <2>7. m + 1 \in 1..(m + 1)
      OBVIOUS
    <2>8. \A i \in 1..m : k[i].run <= evs[n].run
      <3> SUFFICES ASSUME NEW i \in 1..m PROVE k[i].run <= evs[n].run
        OBVIOUS
      <3>1. PICK j \in 1..(n - 1) : k[i] = evs[j]
        BY <2>3, Zenon DEF Filtered
      <3> QED
        BY <1>3, <3>1, Zenon DEF Sorted
    <2>9. Sorted(q)
      <3> SUFFICES ASSUME NEW i \in 1..(m + 1), NEW j \in 1..(m + 1), i < j
                   PROVE  q[i].run <= q[j].run
        BY <2>4, Zenon DEF Sorted
      <3>1. i \in 1..m
        OBVIOUS
      <3>2. CASE j = m + 1
        BY <2>4, <2>8, <3>1, <3>2, Zenon
      <3>3. CASE j \in 1..m
        BY <2>2, <2>3, <2>4, <3>1, <3>3, Zenon DEF Sorted
      <3> QED
        BY <2>5, <3>2, <3>3, Zenon
    <2>10. Plain(q)
      BY <1>5, <2>2, <2>3, <2>4, <2>5, Zenon DEF Plain
    <2>11. \A i \in 1..(m + 1) : \E j \in 1..n : q[i] = evs[j]
      <3>1. \A i \in 1..m : \E j \in 1..(n - 1) : k[i] = evs[j]
        BY <2>3, Zenon DEF Filtered
      <3>2. n \in 1..n
        BY <1>1
      <3> QED
        BY <1>3, <2>4, <2>5, <3>1, <3>2, Zenon
    <2>12. \A j \in 1..n : evs[j].type # "message" => \E i \in 1..(m + 1) : q[i] = evs[j]
      <3>1. \A j \in 1..(n - 1) : evs[j].type # "message" => \E i \in 1..m : k[i] = evs[j]
        BY <2>3, Zenon DEF Filtered
      <3> QED
        BY <1>2, <2>4, <2>6, <2>7, <3>1, Zenon
    <2>13. Filtered(q, evs, n)
      BY <2>4, <2>9, <2>10, <2>11, <2>12, Zenon DEF Filtered
    <2> QED
      BY <2>1, <2>13, Zenon
  <1> QED
    BY <1>4, <1>5, Zenon

\* filterEvents passes on, in their order, all events but the SDK's own.
LEMMA FilterEvents ==
  ASSUME NEW evs, IsSeq(evs), Sorted(evs)
  PROVE  Filtered(filterEvents(evs), evs, Len(evs))
  <1> DEFINE N == Len(evs)
             E == {evs[i] : i \in 1..N}
             Round(n, y) == IF evs[n].type # "message" THEN Append(y, evs[n]) ELSE y
             F == [z \in (1..N) \X Seq(E) |-> Round(z[1], z[2])]
             Rounds(f) == [i \in 0..N |->
                           IF i = 0 THEN << >>
                           ELSE IF evs[i].type # "message" THEN Append(f[i - 1], evs[i])
                                ELSE f[i - 1]]
             h == CHOOSE f : f = Rounds(f)
  <1>1. N \in Nat
    BY DEF IsSeq
  <1>2. \A n \in 1..N, y \in Seq(E) : F[<<n, y>>] = Round(n, y) /\ F[<<n, y>>] \in Seq(E)
    <2> SUFFICES ASSUME NEW n \in 1..N, NEW y \in Seq(E)
                 PROVE  F[<<n, y>>] = Round(n, y) /\ F[<<n, y>>] \in Seq(E)
      BY Zenon
    <2>1. <<n, y>> \in (1..N) \X Seq(E) /\ <<n, y>>[1] = n /\ <<n, y>>[2] = y
      <3> HIDE DEF E
      <3> QED
        OBVIOUS
    <2>2. F[<<n, y>>] = Round(<<n, y>>[1], <<n, y>>[2])
      BY <2>1, Zenon
    <2>3. F[<<n, y>>] = Round(n, y)
      BY <2>1, <2>2, Zenon
    <2>4. evs[n] \in E
      BY Zenon
    <2>5. Append(y, evs[n]) \in Seq(E)
      <3> HIDE DEF E, N
      <3> QED
        BY <2>4
    <2> HIDE DEF F
    <2> QED
      BY <2>3, <2>5, Zenon
  <1> HIDE DEF F
  <1>3. << >> \in Seq(E)
    <2> HIDE DEF E
    <2> QED
      OBVIOUS
  <1>4. PICK g \in [0..N -> Seq(E)] : IsRun(g, N, << >>, F)
    <2> HIDE DEF E, N
    <2> QED
      BY <1>1, <1>2, <1>3, LoopRuns, Zenon
  <1>5. \A i \in 1..N : i - 1 \in 0..N /\ i \in 0..N /\ i # 0
    BY <1>1
  <1>6. \A i \in 0..N : i # 0 => i \in 1..N
    BY <1>1
  <1>7. g = Rounds(g)
    <2>1. ASSUME NEW i \in 0..N
          PROVE  g[i] = IF i = 0 THEN << >>
                        ELSE IF evs[i].type # "message" THEN Append(g[i - 1], evs[i])
                             ELSE g[i - 1]
      <3>1. CASE i = 0
        BY <1>4, <3>1, Zenon DEF IsRun
      <3>2. CASE i # 0
        <4>1. i \in 1..N
          BY <1>6, <3>2, Zenon
        <4>2. g[i - 1] \in Seq(E)
          BY <1>5, <4>1, Zenon
        <4>3. g[i] = F[<<i, g[i - 1]>>]
          BY <1>4, <4>1, Zenon DEF IsRun
        <4>4. g[i] = Round(i, g[i - 1])
          BY <1>2, <4>1, <4>2, <4>3, Zenon
        <4> QED
          BY <3>2, <4>4, Zenon
      <3> QED
        BY <3>1, <3>2, Zenon
    <2>2. g = [i \in 0..N |-> g[i]]
      BY Zenon
    <2> QED
      BY <2>1, <2>2, Zenon
  <1>8. h = Rounds(h)
    BY <1>7, Zenon
  <1>9. filterEvents(evs) = h[N]
    BY Zenon DEF filterEvents
  <1> HIDE DEF h
  <1>10. h[0] = << >> /\ \A i \in 1..N : h[i] = Round(i, h[i - 1])
    <2>1. 0 \in 0..N
      BY <1>1
    <2> QED
      BY <1>5, <1>8, <2>1, Zenon
  <1> DEFINE T == {n \in 0..N : Filtered(h[n], evs, n)}
  <1>11. 0 \in T
    <2>1. 0 \in 0..N /\ ~(\E i \in 1..0 : TRUE)
      BY <1>1
    <2>2. Filtered(<< >>, evs, 0)
      BY <2>1, EmptyIsSeq, Zenon DEF Filtered, Sorted, Plain
    <2> QED
      BY <1>10, <2>1, <2>2, Zenon
  <1>12. ASSUME NEW n \in 1..N, n - 1 \in T
         PROVE  n \in T
    <2>1. Filtered(h[n - 1], evs, n - 1)
      BY <1>12, Zenon
    <2>2. /\ evs[n].type # "message" => Filtered(Append(h[n - 1], evs[n]), evs, n)
          /\ evs[n].type = "message" => Filtered(h[n - 1], evs, n)
      BY <2>1, FilteredStep, Zenon
    <2>3. Filtered(h[n], evs, n)
      BY <1>10, <2>2, Zenon
    <2> QED
      BY <1>5, <2>3, Zenon
  <1>13. \A n \in 0..N : n \in T
    <2> HIDE DEF T, N
    <2> QED
      BY <1>1, <1>11, <1>12, RoundInduction, Zenon
  <1>14. N \in 0..N
    BY <1>1
  <1> QED
    BY <1>9, <1>13, <1>14, Zenon

\* What is left by filterEvents stands for the same runs.
LEMMA FilterOf ==
  ASSUME NEW evs, NEW w, Of(evs, w)
  PROVE  /\ Of(filterEvents(evs), w) /\ Plain(filterEvents(evs))
         /\ Covers(evs, w) => Covers(filterEvents(evs), w)
  <1>1. PICK k : k = filterEvents(evs)
    OBVIOUS
  <1>2. Filtered(k, evs, Len(evs))
    BY <1>1, FilterEvents, Zenon DEF Of
  <1>3. Of(k, w) /\ Plain(k)
    BY <1>2, Zenon DEF Filtered, Of
  <1>4. ASSUME Covers(evs, w), NEW r \in w
        PROVE  \E i \in 1..Len(k) : k[i].run = r /\ k[i].type # "message"
    <2>1. PICK j \in 1..Len(evs) : evs[j].run = r /\ evs[j].type # "message"
      BY <1>4, Zenon DEF Covers
    <2>2. PICK i \in 1..Len(k) : k[i] = evs[j]
      BY <1>2, <2>1, Zenon DEF Filtered
    <2> QED
      BY <2>1, <2>2, Zenon
  <1> QED
    BY <1>1, <1>3, <1>4, Zenon DEF Covers

\* The context on top is committed to the one below.
LEMMA CommitTraces ==
  ASSUME NEW k \in Nat, Contexts(contexts, k), Len(contexts) > 1, NEW rev,
         Traces(contexts, step, rev), ~Fails(step), contexts' = Commit(contexts)
  PROVE  Traces(contexts', step', rev)
  <1>1. PICK m \in Nat \ {0} : m = Len(contexts) - 1 /\ Len(contexts) = m + 1
    BY DEF Contexts, IsSeq
  <1>2. IsSeq(contexts) /\ contexts # << >>
    BY <1>1, LenZero DEF Contexts
  <1>3. /\ m \in 1..(m + 1) /\ m + 1 \in 1..(m + 1) /\ m < m + 1 /\ m - 1 # m + 1
        /\ \A i \in 1..(m - 1) : i \in 1..(m + 1) /\ i < m /\ i < m + 1
    BY <1>1
  <1>4. PICK a : a = contexts[m]
    OBVIOUS
  <1>5. PICK b : b = contexts[m + 1]
    OBVIOUS
  <1>6. /\ IsContext(a) /\ a.writes \subseteq 1..(k - 1)
        /\ IsContext(b) /\ b.writes \subseteq 1..(k - 1)
    BY <1>1, <1>3, <1>4, <1>5, Zenon DEF Contexts
  <1>7. PICK q : q = Front(contexts) /\ Len(q) = m /\ q[m] = a
    <2>1. /\ Len(Front(contexts)) = m /\ \A i \in 1..m : Front(contexts)[i] = contexts[i]
      BY <1>1, <1>2, FrontIsSeq, Zenon
    <2>2. m \in 1..m
      BY <1>1
    <2> QED
      BY <1>4, <2>1, <2>2, Zenon
  <1>8. PICK w : w = a.writes \cup b.writes
    BY Zenon
  <1>9. PICK e : e = a.events \o filterEvents(b.events)
    BY Zenon
  <1>10. PICK c : c = Merged(a, w, e)
    BY Zenon
  <1>11. Replaces(contexts', q, c)
    BY <1>1, <1>5, <1>7, <1>8, <1>9, <1>10, Zenon DEF Replaces, Commit, Last, Merged
  <1>12. Ends(contexts', contexts, m, c)
    BY <1>1, <1>2, <1>7, <1>11, BelowEnds, Zenon
  <1>13. c.writes = w /\ c.events = e
    <2>1. IsContext(a)
      BY <1>6, Zenon
    <2> QED
      <3>1. Merged(a, w, e).writes = w /\ Merged(a, w, e).events = e
        BY <2>1, MergedFields
      <3> QED
        BY <1>10, <3>1, Zenon
  <1>14. /\ Of(a.events, a.writes) /\ Covers(a.events, a.writes)
         /\ Of(b.events, b.writes) /\ Covers(b.events, b.writes)
         /\ Before(a.writes, b.writes) /\ (m = 1 => Plain(a.events))
    BY <1>1, <1>3, <1>4, <1>5, Zenon DEF Traces, CtxOk, Exact
  <1>15. PICK s : s = filterEvents(b.events)
    OBVIOUS
  <1>16. Of(s, b.writes) /\ Plain(s) /\ Covers(s, b.writes)
    BY <1>14, <1>15, FilterOf, Zenon
  <1>17. Numbers(a.writes) /\ Numbers(b.writes)
    <2>1. 1..(k - 1) \subseteq Nat
      OBVIOUS
    <2> QED
      BY <1>6, <2>1, Zenon DEF Numbers
  <1>18. Joined(e, a.events, a.writes, s, b.writes)
    BY <1>9, <1>14, <1>15, <1>16, <1>17, JoinOf, Zenon
  <1>19. CtxOk(c) /\ Exact(c) /\ (m = 1 => Plain(c.events))
    BY <1>8, <1>13, <1>14, <1>16, <1>18, Zenon DEF CtxOk, Exact, Joined
  <1>20. ASSUME NEW i \in 1..(m - 1) PROVE Before(contexts[i].writes, c.writes)
    <2>1. Before(contexts[i].writes, a.writes) /\ Before(contexts[i].writes, b.writes)
      BY <1>1, <1>3, <1>4, <1>5, Zenon DEF Traces
    <2> QED
      BY <1>8, <1>13, <2>1, Zenon DEF Before
  <1>21. \A i \in 1..(m - 1) : rev \cap contexts[i].writes = {}
    BY <1>1, <1>3, Zenon DEF Traces
  <1>22. rev \cap c.writes = {}
    <2>1. rev \cap a.writes = {} /\ rev \cap b.writes = {}
      BY <1>1, <1>3, <1>4, <1>5, Zenon DEF Traces
    <2> QED
      BY <1>8, <1>13, <2>1, Zenon
  <1>23. m - 1 # Len(contexts)
    BY <1>1, <1>3, Zenon
  <1> QED
    BY <1>2, <1>12, <1>19, <1>20, <1>21, <1>22, <1>23, TracesEnd, Zenon

\* A submessage has succeeded.
LEMMA SubmessageSucceedsTraces ==
  ASSUME IInv, TInv, SubmessageSucceeds
  PROVE  TInv'
  <1>1. /\ step.op = "done" /\ step.ok /\ frames # << >> /\ ~Top.limited
        /\ contexts' = Commit(contexts) /\ Settle(AfterSuccess(Top.data, step.data))
        /\ UNCHANGED <<store, events, nextRun, reverted>>
        /\ step' = ReplyTo(TRUE) \/ step' = Loop
    BY Zenon DEF SubmessageSucceeds
  <1>2. step.op # "idle" /\ ~Fails(step) /\ step'.op \in {"reply", "loop"}
    BY <1>1, StepKinds, Zenon
  <1>3. Len(contexts) > 1
    <2>1. Len(contexts) - 2 \in Nat
      BY <1>1, SettleKeeps, Zenon
    <2>2. Len(contexts) \in Nat
      BY <1>2, Running
    <2> QED
      BY <2>1, <2>2
  <1>4. nextRun \in Nat
    BY DEF IInv
  <1>5. Traces(contexts', step', reverted')
    BY <1>1, <1>2, <1>3, <1>4, RevertedRan, CommitTraces, Zenon
  <1>6. step' # RunMsg(FALSE) /\ reverted' \subseteq 1..(nextRun' - 1)
    BY <1>1, <1>2, StepKinds, RevertedRan, Zenon
  <1> QED
    BY <1>1, <1>2, <1>5, <1>6, TracesGoOn, Zenon

\* Every step keeps the events those of what is written.
LEMMA TracesStep ==
  ASSUME IInv, TInv, [Next]_vars
  PROVE  TInv'
  <1>1. CASE Next
    BY <1>1, StartTxTraces, EndTxTraces, AbortTxTraces, ExecuteTraces, HandleSdkMessageTraces,
       ReplyTraces, DispatchSubmessageTraces, RejectSubmessageTraces, ChargeLimitedTraces,
       RecoverOutOfGasTraces, SubmessageSucceedsTraces, SubmessageFailsTraces,
       ResponseReturnsTraces, ResponseFailsTraces, UnwindTraces, Zenon DEF Next
  <1>2. CASE UNCHANGED vars
    BY <1>2, Zenon DEF vars, TInv
  <1> QED
    BY <1>1, <1>2

\* What the invariant says of the model's properties.
LEMMA TracesProperties ==
  ASSUME IInv, TInv
  PROVE  RevertedLeavesNoTrace /\ EventsMatchState
  <1>1. DOMAIN contexts = 1..Len(contexts)
    BY DEF IInv, Contexts, IsSeq
  <1>2. DOMAIN events = 1..Len(events)
    BY DEF TInv, IsSeq
  <1>3. /\ store = Emitters(events) /\ Sorted(events) /\ Plain(events)
        /\ reverted \cap store = {} /\ Traces(contexts, step, reverted)
    BY Zenon DEF TInv
  <1>4. reverted \cap (store \cup Emitters(events)) = {}
    BY <1>3, Zenon
  <1>5. ASSUME NEW i \in 1..Len(contexts)
        PROVE  reverted \cap (contexts[i].writes \cup Emitters(contexts[i].events)) = {}
    <2>1. Of(contexts[i].events, contexts[i].writes) /\ reverted \cap contexts[i].writes = {}
      BY <1>3, Zenon DEF Traces, CtxOk
    <2>2. Emitters(contexts[i].events) \subseteq contexts[i].writes
      BY <2>1, EmittersAre, Zenon
    <2> QED
      BY <2>1, <2>2, Zenon
  <1>6. ASSUME step.op \in {"run", "loop", "reply"}, NEW i \in 1..Len(contexts)
        PROVE  /\ contexts[i].writes = Emitters(contexts[i].events)
               /\ Ordered(contexts[i].events)
    <2>1. ~Fails(step)
      BY <1>6 DEF Fails, Failed, OutOfGas, Panic
    <2>2. /\ Of(contexts[i].events, contexts[i].writes)
          /\ Covers(contexts[i].events, contexts[i].writes)
      BY <1>3, <2>1, Zenon DEF Traces, CtxOk, Exact
    <2> QED
      BY <2>2, EmittersAre, Zenon
  <1>7. Ordered(events) /\ \A i \in DOMAIN events : events[i].type # "message"
    BY <1>2, <1>3, Zenon DEF Sorted, Ordered, Plain
  <1> QED
    BY <1>1, <1>3, <1>4, <1>5, <1>6, <1>7, Zenon DEF RevertedLeavesNoTrace, EventsMatchState

\* The events are those of what is written in every state of the dispatcher.
LEMMA TracesInvariant == Spec => []TInv
  <1>1. ASSUME Init PROVE TInv
    <2>1. /\ step = Idle /\ contexts = << >>
          /\ store = {} /\ events = << >> /\ reverted = {}
      BY <1>1, Zenon DEF Init
    <2>2. Emitters(<< >>) = {} /\ ~(\E i \in 1..0 : TRUE)
      BY DEF Emitters
    <2>3. Idle # RunMsg(FALSE)
      BY StepKinds, Zenon
    <2>4. IsSeq(<< >>) /\ Sorted(<< >>) /\ Plain(<< >>)
      BY <2>2, EmptyIsSeq, Zenon DEF Sorted, Plain
    <2> QED
      BY <2>1, <2>2, <2>3, <2>4, NoTraces, Zenon DEF TInv
  <1>2. IInv /\ TInv /\ [Next]_vars => TInv'
    BY TracesStep
  <1> QED
    BY <1>1, <1>2, DispatcherStacks, PTL DEF Spec

\* What was run in a submessage that failed leaves neither state nor events,
\* in no context that goes on and not in the transaction (DispatchSubmessages).
THEOREM DispatcherReverts == Spec => []RevertedLeavesNoTrace
  <1>1. IInv /\ TInv => RevertedLeavesNoTrace
    BY TracesProperties
  <1> QED
    BY <1>1, DispatcherStacks, TracesInvariant, PTL

\* State and events come from the same runs, in the order of the runs, and no
\* "message" event of a submessage is passed on (filterEvents).
THEOREM DispatcherEvents == Spec => []EventsMatchState
  <1>1. IInv /\ TInv => EventsMatchState
    BY TracesProperties
  <1> QED
    BY <1>1, DispatcherStacks, TracesInvariant, PTL

----------------------------------------------------------------------------
(* What is paid for, a sum over the meters.                                *)

\* Paid sums up what the meters pay for.
LEMMA PaidIs ==
  ASSUME NEW ms, IsSeq(ms), NEW p, PaidOf(p, ms)
  PROVE  Paid(ms) = p[Len(ms)]
  <1> DEFINE N == Len(ms)
             Sum(f) == [i \in 0..N |->
                          IF i = 0 THEN 0
                          ELSE f[i - 1] + IF ms[i].consumed < ms[i].limit
                                          THEN ms[i].consumed ELSE ms[i].limit]
             h == CHOOSE f : f = Sum(f)
  <1>1. N \in Nat
    BY DEF IsSeq
  <1>2. /\ p \in [0..N -> Nat] /\ p[0] = 0
        /\ \A k \in 1..N : p[k] = p[k - 1] + Spent(ms[k])
    BY Zenon DEF PaidOf
  <1>3. \A i \in 0..N : i # 0 => i \in 1..N
    BY <1>1
  <1>4. p = Sum(p)
    <2>1. \A i \in 0..N : p[i] = IF i = 0 THEN 0
                                 ELSE p[i - 1] + IF ms[i].consumed < ms[i].limit
                                                 THEN ms[i].consumed ELSE ms[i].limit
      BY <1>2, <1>3, Zenon DEF Spent
    <2>2. p = [i \in 0..N |-> p[i]]
      BY <1>2, Zenon
    <2> QED
      BY <2>1, <2>2, Zenon
  <1>5. h = Sum(h)
    BY <1>4, Zenon
  <1>6. Paid(ms) = h[N]
    BY Zenon DEF Paid
  <1> HIDE DEF h
  <1>7. h[0] = 0 /\ \A i \in 1..N : h[i] = h[i - 1] + Spent(ms[i])
    <2>1. 0 \in 0..N /\ \A i \in 1..N : i \in 0..N /\ i # 0
      BY <1>1
    <2> QED
      BY <1>5, <2>1, Zenon DEF Spent
  <1> DEFINE T == {n \in 0..N : h[n] = p[n]}
  <1>8. 0 \in T
    BY <1>1, <1>2, <1>7
  <1>9. ASSUME NEW n \in 1..N, n - 1 \in T
        PROVE  n \in T
    <2>1. n \in 0..N
      BY <1>1
    <2>2. h[n - 1] = p[n - 1]
      BY <1>9, Zenon
    <2> QED
      BY <1>2, <1>7, <2>1, <2>2, Zenon
  <1>10. \A n \in 0..N : n \in T
    <2> HIDE DEF T, N
    <2> QED
      BY <1>1, <1>8, <1>9, RoundInduction, Zenon
  <1>11. N \in 0..N
    BY <1>1
  <1> QED
    BY <1>6, <1>10, <1>11, Zenon

\* What the invariant says of the model's properties.
LEMMA MetersProperties ==
  ASSUME GInv
  PROVE  LimitFits /\ WorkIsPaid
  <1>1. CASE step = Idle
    <2>1. Len(meters) = 0 /\ DOMAIN meters = {}
      BY <1>1 DEF GInv
    <2>2. 1..(Len(meters) - 1) = {}
      BY <2>1
    <2> QED
      BY <1>1, <2>1, <2>2, Zenon DEF LimitFits, WorkIsPaid
  <1>2. CASE step # Idle
    <2>1. PICK n \in Nat \ {0} : n = Len(meters) /\ DOMAIN meters = 1..n
      BY <1>2, MetersTop DEF IsSeq
    <2>2. \A i \in 1..(n - 1) : meters[i + 1].limit < Remaining(meters[i])
      BY <1>2, <2>1, MetersTop, Zenon DEF MetersOk
    <2>3. ASSUME NEW i \in 1..n, step # OutOfGas
          PROVE  Remaining(meters[i]) >= 0
      <3>1. CASE i = n
        BY <1>2, <2>1, <2>3, <3>1, MetersTop, Zenon
      <3>2. CASE i # n
        <4>1. i \in 1..(n - 1) /\ i + 1 \in 1..n
          BY <2>1, <3>2
        <4>2. meters[i + 1].limit < Remaining(meters[i])
          BY <2>2, <4>1, Zenon
        <4>3. IsMeter(meters[i]) /\ IsMeter(meters[i + 1])
          BY <1>2, <2>1, <4>1, MetersTop, Zenon DEF MetersOk
        <4> QED
          BY <4>2, <4>3 DEF IsMeter, Remaining
      <3> QED
        BY <3>1, <3>2
    <2>4. LimitFits
      BY <2>1, <2>2, <2>3, Zenon DEF LimitFits
    <2>5. PICK p : PaidOf(p, meters) /\ work <= p[Len(meters)]
      BY <1>2, MetersTop, Zenon DEF Covered
    <2>6. Paid(meters) = p[Len(meters)]
      BY <1>2, <2>5, MetersTop, PaidIs, Zenon
    <2>7. WorkIsPaid
      BY <2>5, <2>6, Zenon DEF WorkIsPaid
    <2> QED
      BY <2>4, <2>7
  <1> QED
    BY <1>1, <1>2

\* The meters are nested and pay for the work in every state of the dispatcher.
LEMMA MetersInvariant == Spec => []GInv
  <1>1. Init => GInv
    BY Zenon DEF Init, GInv
  <1>2. IInv /\ GInv /\ [Next]_vars => GInv'
    BY MetersStep
  <1> QED
    BY <1>1, <1>2, DispatcherStacks, PTL DEF Spec

\* The limit of a submessage fits into what is left to its caller until it is
\* charged there, and what is left is never negative unless an OutOfGas panic
\* is under way (dispatchMsgWithGasLimit).
THEOREM DispatcherLimits == Spec => []LimitFits
  <1>1. IInv /\ GInv => LimitFits
    BY MetersProperties
  <1> QED
    BY <1>1, DispatcherStacks, MetersInvariant, PTL

\* All work is paid for, whether its submessage is committed, reverted or
\* unwound (dispatchMsgWithGasLimit).
THEOREM DispatcherPays == Spec => []WorkIsPaid
  <1>1. IInv /\ GInv => WorkIsPaid
    BY MetersProperties
  <1> QED
    BY <1>1, DispatcherStacks, MetersInvariant, PTL
============================================================================
