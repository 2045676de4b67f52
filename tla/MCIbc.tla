------------------------------- MODULE MCIbc -------------------------------
(* Instances of Ibc for TLC. *)
EXTENDS Ibc, TLC

CONSTANTS c1, c2, ch1, ch2

Send(ch, caught) == [kind |-> "send", channel |-> ch, caught |-> caught]
Fail == [kind |-> "fail", channel |-> ch1, caught |-> FALSE]
Ack(p, data, caught) == [kind |-> "ack", packet |-> p, data |-> data, caught |-> caught]

Single == {Send(ch, FALSE) : ch \in Channel} \cup {Ack(p, "bytes", TRUE) : p \in Packet}

\* No message, one, or one before another one that fails or is caught.
Responses ==
  {<< >>, <<Fail>>} \cup {<<m>> : m \in Single}
  \cup {<<Ack(p, "empty", FALSE)>> : p \in Packet}
  \cup {<<m, Fail>> : m \in Single}
  \cup {<<Ack(p, "bytes", FALSE), Send(ChannelOf(p), TRUE)>> : p \in Packet}

ChannelSymmetry == Permutations({ch1, ch2})
============================================================================
