---------------------------- MODULE MCStateSync -----------------------------
(* A small instance of StateSync for TLC.                                  *)
EXTENDS StateSync

Open == {AllowEverybody}
Unversioned == [h \in Hash |-> NoVersion]
============================================================================
