----------------------------- MODULE MCGenesis ------------------------------
(* Small instances of Genesis for TLC.                                     *)
EXTENDS Genesis

Open == {AllowEverybody}
Unversioned == [h \in Hash |-> NoVersion]
============================================================================
