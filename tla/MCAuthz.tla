------------------------------ MODULE MCAuthz ------------------------------
(* Small instances of Authz for TLC.                                       *)
EXTENDS Authz, TLC

CONSTANTS c1, c2, b1, b2, b3, u1, u2, h1, h2

Keys == (b1 :> {"a"}) @@ (b2 :> {"b"}) @@ (b3 :> {"a", "b"})

Amounts(x, y) == ("x" :> x) @@ ("y" :> y)
Funds == {Amounts(0, 0), Amounts(1, 0), Amounts(0, 1), Amounts(2, 0)}

OnlyA == AcceptedMessageKeys({"a"})
Lists ==
  {<<Grant(c1, MaxCallsLimit(2), OnlyA), Grant(c1, MaxFundsLimit(Amounts(2, 1)), AllowAllMessages)>>,
   <<Grant(c1, CombinedLimit(3, Amounts(2, 1)), AcceptedMessages({b2})),
     Grant(c2, MaxCallsLimit(1), AllowAllMessages),
     Grant(c1, CombinedLimit(2, Amounts(2, 0)), OnlyA)>>,
   <<Grant(c1, MaxCallsLimit(0), AllowAllMessages)>>,
   << >>}

Code(hash, permission) == [hash |-> hash, permission |-> permission]
CodeLists ==
  {<<Code(h1, NoConfig), Code(h2, AllowAnyOf({u1}))>>,
   <<Code(Wildcard, AllowAnyOf({u1, u2}))>>,
   <<Code(Wildcard, NoConfig), Code(h2, AllowNobody)>>}

Configs == {AllowEverybody, AllowAnyOf({u1})}
============================================================================
