--------------------------- MODULE MCDispatcher ---------------------------
(* Instances of Dispatcher for TLC. *)
EXTENDS Dispatcher

Msg(wasm, replyOn, limit) == [wasm |-> wasm, replyOn |-> replyOn, limit |-> limit]

UpTo(n, S) == UNION {[1..k -> S] : k \in 0..n}

\* A submessage with every kind of reply, alone or, if it asks for one of the
\* two results, before another one; no gas limits.
Asking(replyOns) == {Msg(TRUE, r, NoLimit) : r \in replyOns}
Replying == UpTo(1, Asking(ReplyOn) \cup {Msg(FALSE, "Success", NoLimit)})
            \cup {<<a, Msg(TRUE, "Always", NoLimit)>> : a \in Asking({"Success", "Error"})}

\* One submessage with a gas limit.
Limited == {<<Msg(TRUE, r, l)>> : r \in {"Never", "Always"}, l \in {0, 2, 3}}
           \cup {<<Msg(FALSE, "Never", 2)>>}

Both == Replying \cup Limited
============================================================================
